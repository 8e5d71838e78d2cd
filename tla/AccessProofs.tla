------------------------------ MODULE AccessProofs ------------------------------
(***************************************************************************)
(* Proofs about AuthSessions, for any accounts, invites, requests, plans   *)
(* and starting states, about AuthzSeed, for any number of replicas and    *)
(* releases, and about RouteGuard, for any permissions and any permission  *)
(* expression.                                                             *)
(***************************************************************************)
EXTENDS MCAccess, RoleServiceProofs, WellFoundedInduction

Replies == {0, 200, 201, 204, 400, 401, 404, 409, 500}

\* The stages of set-password at which the invite's row is locked, and those at
\* which the sessions have been looked up.
Redeeming == {"redeemed", "deleted", "flushed", "stamped"}
Resetting == {"deleted", "flushed", "stamped"}

StagesOf(kind) ==
  CASE kind = "login"  -> {"verified"}
    [] kind = "logout" -> {}
    [] kind = "set"    -> Redeeming
    [] kind = "remove" -> {"locked"}
    [] kind = "signup" -> {"checked", "registered"}

AskKinds == {"login", "logout", "set", "remove", "signup"}

AskTyped(t) ==
  /\ ask[t].kind \in AskKinds /\ ask[t].who \in Accounts /\ ask[t].pw \in Passwords
  /\ ask[t].kind = "set" => ask[t].what \in Invites /\ InviteOf[ask[t].what] = ask[t].who
  /\ ask[t].kind = "signup" => ask[t].what \in Labels

AuthTyped ==
  /\ clock \in Nat
  /\ secret \in [Accounts -> Account \cup {Nobody}]
  /\ sessions \subseteq SessionRows
  /\ invites \in [Invites -> {"fresh", "used", "gone"}]
  /\ belongs \in [Accounts -> {"none", "invited", "accepted"}]
  /\ founded \in [Labels -> Accounts \cup {Nobody}]
  /\ holds \in [AuthRequests -> SUBSET Rows]
  /\ at \in [AuthRequests -> AuthStages]
  /\ local \in [AuthRequests -> [now : Nat, seen : Account \cup {Nobody},
                                 doomed : SUBSET SessionRows]]
  /\ reply \in [AuthRequests -> Replies]
  /\ overtaken \subseteq Accounts
  /\ \A t \in AuthRequests : AskTyped(t)

\* A row is locked by one transaction.
LocksExclusive == \A s, t \in AuthRequests : s # t => holds[s] \cap holds[t] = {}

\* An invite's account is there, and has a password once the invite is used.
InvitesOK == \A k \in Invites : /\ secret[InviteOf[k]] # Nobody
                                /\ invites[k] = "used" => secret[InviteOf[k]].pw \in Passwords

SessionsOK == \A s \in sessions : /\ secret[s.user] # Nobody
                                  /\ s.user \notin overtaken => s.pw = secret[s.user].pw

\* What the stage of a request says of the data and of its locks: a redemption
\* keeps its invite locked and fresh, a login has seen the password it was given,
\* and no session has been opened since a reset looked them up, but by a login
\* that it has overtaken.
AskOK(t) ==
  /\ at[t] \in {"new", "begun", "end"} \cup StagesOf(ask[t].kind)
  /\ reply[t] # 0 => at[t] = "end"
  /\ ask[t].kind = "set" /\ reply[t] = 204 => invites[ask[t].what] # "fresh"
  /\ at[t] \in Redeeming => /\ <<"invite", ask[t].what>> \in holds[t]
                            /\ invites[ask[t].what] = "fresh"
  /\ at[t] = "verified" => /\ local[t].seen \in Account /\ local[t].seen.pw = ask[t].pw
                           /\ secret[ask[t].who] # Nobody
  /\ at[t] \in Resetting => \A s \in sessions : s.user = ask[t].who =>
                              s \in local[t].doomed \/ ask[t].who \in overtaken

AuthInv ==
  /\ AuthTyped /\ LocksExclusive /\ InvitesOK /\ SessionsOK
  /\ InvitesSingleUse /\ SignupsWhole
  /\ \A t \in AuthRequests : AskOK(t)

LEMMA AuthInitOK == AuthInit => AuthInv
<1> SUFFICES ASSUME AuthInit PROVE AuthInv
  OBVIOUS
<1>1. PICK start \in AuthStarts :
        /\ clock = 0 /\ secret = start.secret /\ sessions = start.rows
        /\ invites = [k \in Invites |-> "fresh"]
        /\ belongs = [u \in Accounts |-> IF \E k \in Invites : InviteOf[k] = u
                                         THEN "invited" ELSE "none"]
        /\ founded = [l \in Labels |-> Nobody]
        /\ holds = [t \in AuthRequests |-> {}] /\ at = [t \in AuthRequests |-> "new"]
        /\ ask \in Plans
        /\ local = [t \in AuthRequests |-> [now |-> 0, seen |-> Nobody, doomed |-> {}]]
        /\ reply = [t \in AuthRequests |-> 0] /\ overtaken = {}
  BY DEF AuthInit
<1>2. /\ secret \in [Accounts -> Account \cup {Nobody}] /\ sessions \subseteq SessionRows
      /\ \A k \in Invites : secret[InviteOf[k]] # Nobody
      /\ \A s \in sessions : secret[s.user] # Nobody /\ s.pw = secret[s.user].pw
  BY <1>1, AuthAssumption
<1>3. \A t \in AuthRequests : AskTyped(t)
  BY <1>1, AuthAssumption DEF AskTyped, AskKinds
<1>4. AuthTyped
  BY <1>1, <1>2, <1>3 DEF AuthTyped, AuthStages, Replies
<1>5. \A t \in AuthRequests : AskOK(t)
  BY <1>1 DEF AskOK, Redeeming, Resetting
<1> QED
  BY <1>1, <1>2, <1>4, <1>5 DEF AuthInv, LocksExclusive, InvitesOK, SessionsOK,
                                 SignupsWhole, InvitesSingleUse

-----------------------------------------------------------------------------
(* What the requests see of each other                                     *)

OnlyMoves(t) ==
  \A s \in AuthRequests \ {t} : /\ at'[s] = at[s] /\ holds'[s] = holds[s]
                                /\ local'[s] = local[s] /\ reply'[s] = reply[s]

MovesTyped(t) ==
  /\ clock' \in Nat
  /\ holds' \in [AuthRequests -> SUBSET Rows]
  /\ at' \in [AuthRequests -> AuthStages]
  /\ local' \in [AuthRequests -> [now : Nat, seen : Account \cup {Nobody},
                                  doomed : SUBSET SessionRows]]
  /\ reply' \in [AuthRequests -> Replies]

\* Accounts do not vanish, and no invite is fresh again.
DataMoves ==
  /\ \A k \in Invites : invites[k] # "fresh" => invites'[k] # "fresh"
  /\ \A a \in Accounts : secret[a] # Nobody => secret'[a] # Nobody
  /\ overtaken \subseteq overtaken'

\* A request that does not move stands by its stage: nobody touches an invite it
\* has locked, and a session opened beside its reset is overtaken.
LEMMA OthersStand ==
  ASSUME AuthInv, NEW s \in AuthRequests, DataMoves, ask' = ask,
         at'[s] = at[s], holds'[s] = holds[s], local'[s] = local[s], reply'[s] = reply[s],
         \A k \in Invites : <<"invite", k>> \in holds[s] => invites'[k] = invites[k],
         at[s] \in Resetting =>
           \A x \in sessions' \ sessions : x.user = ask[s].who => x.user \in overtaken'
  PROVE  AskOK(s)'
<1>1. AskOK(s) /\ AskTyped(s)
  BY DEF AuthInv, AuthTyped
<1>2. at[s] \in Redeeming => ask[s].kind = "set" /\ ask[s].what \in Invites
  BY <1>1 DEF AskOK, AskTyped, StagesOf, Redeeming, AskKinds
<1>3. ask[s].kind = "set" /\ reply[s] = 204 => invites'[ask[s].what] # "fresh"
  BY <1>1 DEF AskOK, AskTyped, DataMoves
<1>4. at[s] = "verified" => secret'[ask[s].who] # Nobody
  BY <1>1 DEF AskOK, AskTyped, DataMoves
<1>5. at[s] \in Redeeming => invites'[ask[s].what] = "fresh"
  BY <1>1, <1>2 DEF AskOK
<1>6. at[s] \in Resetting => \A x \in sessions' : x.user = ask[s].who =>
                               x \in local[s].doomed \/ ask[s].who \in overtaken'
  BY <1>1 DEF AskOK, DataMoves
<1> QED
  BY <1>1, <1>3, <1>4, <1>5, <1>6 DEF AskOK

\* A step that leaves the data alone.
LEMMA Quiet ==
  ASSUME AuthInv, NEW t \in AuthRequests, at[t] # "end",
         UNCHANGED <<authData, ask, overtaken>>, OnlyMoves(t), MovesTyped(t),
         \A s \in AuthRequests \ {t} : holds[s] \cap holds'[t] = {},
         reply'[t] # 204, AskOK(t)'
  PROVE  AuthInv'
<1>1. AuthTyped'
  BY DEF AuthInv, AuthTyped, AskTyped, MovesTyped, authData
<1>2. LocksExclusive'
  BY DEF AuthInv, LocksExclusive, OnlyMoves
<1>3. InvitesOK' /\ SessionsOK'
  BY DEF AuthInv, InvitesOK, SessionsOK, authData
<1>4. SignupsWhole'
  <2> SUFFICES ASSUME NEW l \in Labels, founded[l] # Nobody
               PROVE  /\ secret[founded[l]] # Nobody
                      /\ \E s \in AuthRequests : /\ ask[s].kind = "signup" /\ reply'[s] = 201
                                                 /\ ask[s].what = l /\ ask[s].who = founded[l]
    BY DEF SignupsWhole, authData, Mine
  <2>1. PICK s \in AuthRequests : /\ ask[s].kind = "signup" /\ reply[s] = 201
                                  /\ ask[s].what = l /\ ask[s].who = founded[l]
    BY DEF AuthInv, SignupsWhole, Mine
  <2>2. AskOK(s)
    BY DEF AuthInv
  <2>3. s # t
    BY <2>1, <2>2 DEF AskOK
  <2> QED
    BY <2>1, <2>3 DEF OnlyMoves, AuthInv, SignupsWhole
<1>5. ASSUME NEW s \in AuthRequests \ {t} PROVE AskOK(s)'
  <2>1. DataMoves
    BY DEF DataMoves, authData
  <2> QED
    BY <2>1, OthersStand DEF OnlyMoves, authData
<1>6. InvitesSingleUse'
  BY DEF AuthInv, InvitesSingleUse, OnlyMoves
<1> QED
  BY <1>1, <1>2, <1>3, <1>4, <1>5, <1>6 DEF AuthInv

\* The rows a request needs are rows, and with them it holds what nobody else does.
LEMMA Locking ==
  ASSUME AuthInv, NEW t \in AuthRequests, LockNeeded(t)
  PROVE  /\ holds' \in [AuthRequests -> SUBSET Rows]
         /\ \A s \in AuthRequests \ {t} : holds'[s] = holds[s]
         /\ holds'[t] = holds[t] \cup Needed(t)
         /\ \A s \in AuthRequests \ {t} : holds[s] \cap holds'[t] = {}
<1>1. AskOK(t) /\ AskTyped(t)
  BY DEF AuthInv, AuthTyped
<1>2. Needed(t) \subseteq Rows
  <2>1. at[t] \in {"checked", "registered"} => ask[t].kind = "signup"
    BY <1>1 DEF AskOK, AskTyped, StagesOf, Redeeming, AskKinds
  <2> QED
    BY <1>1, <2>1 DEF AskTyped, Needed, Rows, Mine
<1>3. holds' = [holds EXCEPT ![t] = @ \cup Needed(t)] /\ holds \in [AuthRequests -> SUBSET Rows]
  BY DEF LockNeeded, AuthInv, AuthTyped
<1>4. /\ \A s \in AuthRequests \ {t} : holds'[s] = holds[s]
      /\ holds'[t] = holds[t] \cup Needed(t)
      /\ holds' \in [AuthRequests -> SUBSET Rows]
  BY <1>2, <1>3
<1>5. ASSUME NEW s \in AuthRequests \ {t} PROVE holds[s] \cap holds'[t] = {}
  <2>1. holds[s] \cap holds[t] = {} /\ holds[s] \cap Needed(t) = {}
    BY DEF AuthInv, LocksExclusive, LockNeeded, CanLock, Obstructs
  <2> QED
    BY <1>4, <2>1
<1> QED
  BY <1>4, <1>5

\* A request that is under way, and what its kind and stage make of it.
LEMMA Underway ==
  ASSUME AuthInv, NEW t \in AuthRequests
  PROVE  /\ AskOK(t) /\ AskTyped(t) /\ at[t] \in AuthStages /\ local[t].now \in Nat
         /\ local[t] \in [now : Nat, seen : Account \cup {Nobody}, doomed : SUBSET SessionRows]
         /\ reply[t] \in Replies /\ clock \in Nat /\ holds[t] \subseteq Rows
         /\ at[t] # "end" => reply[t] = 0
BY DEF AuthInv, AuthTyped, AskOK

LEMMA FailOK ==
  ASSUME AuthInv, NEW t \in AuthRequests, at[t] # "end", NEW r \in {400, 401, 404, 409, 500},
         Fail(t, r)
  PROVE  AuthInv'
<1>1. /\ at' = [at EXCEPT ![t] = "end"] /\ reply' = [reply EXCEPT ![t] = r]
      /\ holds' = [holds EXCEPT ![t] = {}]
      /\ UNCHANGED <<clock, authData, ask, local, overtaken>>
  BY DEF Fail, Answer, To
<1>2. OnlyMoves(t) /\ MovesTyped(t)
  BY <1>1 DEF AuthInv, AuthTyped, OnlyMoves, MovesTyped, AuthStages, Replies
<1>3. at'[t] = "end" /\ reply'[t] = r /\ holds'[t] = {}
  BY <1>1 DEF AuthInv, AuthTyped
<1>4. AskOK(t)'
  BY <1>1, <1>3 DEF AskOK, Redeeming, Resetting
<1> QED
  BY <1>1, <1>2, <1>3, <1>4, Quiet

\* A step to the next stage that locks what it needs, or nothing.
LEMMA Onward ==
  ASSUME AuthInv, NEW t \in AuthRequests, at[t] # "end", NEW stage \in AuthStages,
         To(t, stage), LockNeeded(t) \/ UNCHANGED holds,
         UNCHANGED <<clock, authData, ask, local, reply, overtaken>>,
         stage \in StagesOf(ask[t].kind), stage # "verified",
         stage \in Redeeming => /\ <<"invite", ask[t].what>> \in holds'[t]
                                /\ invites[ask[t].what] = "fresh",
         stage \in Resetting => at[t] \in Resetting
  PROVE  AuthInv'
<1>1. /\ holds' \in [AuthRequests -> SUBSET Rows]
      /\ \A s \in AuthRequests \ {t} : holds'[s] = holds[s] /\ holds[s] \cap holds'[t] = {}
  <2>1. CASE LockNeeded(t)
    BY <2>1, Locking
  <2>2. CASE UNCHANGED holds
    BY <2>2 DEF AuthInv, AuthTyped, LocksExclusive
  <2> QED
    BY <2>1, <2>2
<1>2. at'[t] = stage /\ OnlyMoves(t) /\ MovesTyped(t)
  BY <1>1 DEF AuthInv, AuthTyped, OnlyMoves, MovesTyped, To
<1>3. AskOK(t)'
  <2>1. AskOK(t) /\ reply[t] = 0
    BY Underway
  <2>2. UNCHANGED <<sessions, invites, secret>>
    BY DEF authData
  <2> QED
    BY <1>2, <2>1, <2>2 DEF AskOK
<1> QED
  BY <1>1, <1>2, <1>3, Underway, Quiet

-----------------------------------------------------------------------------
LEMMA BeginOK == ASSUME AuthInv, NEW t \in AuthRequests, Begin(t) PROVE AuthInv'
<1>1. /\ at' = [at EXCEPT ![t] = "begun"] /\ at[t] = "new"
      /\ local' = [local EXCEPT ![t].now = clock]
      /\ UNCHANGED <<clock, authData, holds, ask, reply, overtaken>>
  BY DEF Begin, To
<1>2. OnlyMoves(t) /\ MovesTyped(t) /\ at'[t] = "begun"
  BY <1>1 DEF AuthInv, AuthTyped, OnlyMoves, MovesTyped, AuthStages
<1>3. AskOK(t)'
  BY <1>1, <1>2, Underway DEF AskOK, Redeeming, Resetting
<1>4. \A s \in AuthRequests \ {t} : holds[s] \cap holds'[t] = {}
  BY <1>1 DEF AuthInv, LocksExclusive
<1> QED
  BY <1>1, <1>2, <1>3, <1>4, Underway, Quiet

LEMMA VerifyOK == ASSUME AuthInv, NEW t \in AuthRequests, Verify(t) PROVE AuthInv'
<1> DEFINE record == secret[ask[t].who]
<1>1. ask[t].kind = "login" /\ at[t] = "begun"
  BY DEF Verify, Doing
<1>2. CASE record # Nobody /\ record.pw = ask[t].pw
  <2>1. /\ at' = [at EXCEPT ![t] = "verified"] /\ local' = [local EXCEPT ![t].seen = record]
        /\ UNCHANGED <<clock, authData, holds, ask, reply, overtaken>>
    BY <1>2 DEF Verify, To, Mine
  <2>2. record \in Account
    BY <1>2, Underway DEF AuthInv, AuthTyped, AskTyped
  <2>3. OnlyMoves(t) /\ MovesTyped(t) /\ at'[t] = "verified" /\ local'[t].seen = record
    BY <2>1, <2>2 DEF AuthInv, AuthTyped, OnlyMoves, MovesTyped, AuthStages
  <2>4. AskOK(t)'
    BY <1>1, <1>2, <2>1, <2>2, <2>3, Underway
       DEF AskOK, Redeeming, Resetting, StagesOf, authData
  <2>5. \A s \in AuthRequests \ {t} : holds[s] \cap holds'[t] = {}
    BY <2>1 DEF AuthInv, LocksExclusive
  <2> QED
    BY <1>1, <2>1, <2>3, <2>4, <2>5, Underway, Quiet
<1>3. CASE ~(record # Nobody /\ record.pw = ask[t].pw)
  <2>1. Fail(t, 401)
    BY <1>3 DEF Verify, Mine
  <2> QED
    BY <1>1, <2>1, FailOK
<1> QED
  BY <1>2, <1>3

LEMMA RedeemOK == ASSUME AuthInv, NEW t \in AuthRequests, Redeem(t) PROVE AuthInv'
<1>1. ask[t].kind = "set" /\ at[t] = "begun"
  BY DEF Redeem, Doing
<1>2. CASE Redeemable(t)
  <2>1. /\ LockNeeded(t) /\ To(t, "redeemed") /\ invites[ask[t].what] = "fresh"
        /\ UNCHANGED <<clock, authData, ask, local, reply, overtaken>>
    BY <1>2 DEF Redeem, Redeemable
  <2>2. <<"invite", ask[t].what>> \in holds'[t]
    BY <1>1, <2>1, Locking DEF Needed
  <2> QED
    BY <1>1, <2>1, <2>2, Onward DEF StagesOf, Redeeming, Resetting, AuthStages
<1>3. CASE ~Redeemable(t)
  <2>1. Fail(t, 400)
    BY <1>3 DEF Redeem
  <2> QED
    BY <1>1, <2>1, FailOK
<1> QED
  BY <1>2, <1>3

LEMMA DeleteSessionsOK == ASSUME AuthInv, NEW t \in AuthRequests, DeleteSessions(t) PROVE AuthInv'
<1>1. /\ ask[t].kind = "set" /\ at[t] = "redeemed"
      /\ at' = [at EXCEPT ![t] = "deleted"]
      /\ local' = [local EXCEPT ![t].doomed = {s \in sessions : s.user = ask[t].who}]
      /\ UNCHANGED <<clock, authData, holds, ask, reply, overtaken>>
  BY DEF DeleteSessions, Doing, To, Theirs, Mine
<1>2. sessions \subseteq SessionRows
  BY DEF AuthInv, AuthTyped
<1>3. /\ OnlyMoves(t) /\ MovesTyped(t) /\ at'[t] = "deleted"
      /\ local'[t].doomed = {s \in sessions : s.user = ask[t].who}
  BY <1>1, <1>2 DEF AuthInv, AuthTyped, OnlyMoves, MovesTyped, AuthStages
<1>4. AskOK(t)'
  BY <1>1, <1>3, Underway DEF AskOK, Redeeming, Resetting, StagesOf, authData
<1>5. \A s \in AuthRequests \ {t} : holds[s] \cap holds'[t] = {}
  BY <1>1 DEF AuthInv, LocksExclusive
<1> QED
  BY <1>1, <1>3, <1>4, <1>5, Underway, Quiet

\* A stage of set-password further on keeps the invite's row locked.
LEMMA FlushOK ==
  ASSUME AuthInv, NEW t \in AuthRequests, FlushUser(t) \/ FlushMembership(t)
  PROVE  AuthInv'
<1>1. PICK stage \in {"flushed", "stamped"} :
        /\ ask[t].kind = "set" /\ at[t] \in Resetting /\ LockNeeded(t) /\ To(t, stage)
        /\ UNCHANGED <<clock, authData, ask, local, reply, overtaken>>
  BY DEF FlushUser, FlushMembership, Doing, Resetting
<1>2. <<"invite", ask[t].what>> \in holds'[t] /\ invites[ask[t].what] = "fresh"
  BY <1>1, Underway, Locking DEF AskOK, Resetting, Redeeming
<1> QED
  BY <1>1, <1>2, Onward DEF StagesOf, Redeeming, Resetting, AuthStages

LEMMA LockMemberOK == ASSUME AuthInv, NEW t \in AuthRequests, LockMember(t) PROVE AuthInv'
<1>1. ask[t].kind = "remove" /\ at[t] = "begun"
  BY DEF LockMember, Doing
<1>2. CASE belongs[Mine(t)] = "none"
  BY <1>1, <1>2, FailOK DEF LockMember
<1>3. CASE belongs[Mine(t)] # "none"
  <2>1. /\ LockNeeded(t) /\ To(t, "locked")
        /\ UNCHANGED <<clock, authData, ask, local, reply, overtaken>>
    BY <1>3 DEF LockMember
  <2> QED
    BY <1>1, <2>1, Onward DEF StagesOf, Redeeming, Resetting, AuthStages
<1> QED
  BY <1>2, <1>3

LEMMA PreCheckOK == ASSUME AuthInv, NEW t \in AuthRequests, PreCheck(t) PROVE AuthInv'
<1>1. ask[t].kind = "signup" /\ at[t] = "begun"
  BY DEF PreCheck, Doing
<1>2. CASE secret[Mine(t)] # Nobody \/ founded[ask[t].what] # Nobody
  BY <1>1, <1>2, FailOK DEF PreCheck
<1>3. CASE ~(secret[Mine(t)] # Nobody \/ founded[ask[t].what] # Nobody)
  <2>1. /\ To(t, "checked") /\ UNCHANGED holds
        /\ UNCHANGED <<clock, authData, ask, local, reply, overtaken>>
    BY <1>3 DEF PreCheck
  <2> QED
    BY <1>1, <2>1, Onward DEF StagesOf, Redeeming, Resetting, AuthStages
<1> QED
  BY <1>2, <1>3

LEMMA RegisterFoundedOK == ASSUME AuthInv, NEW t \in AuthRequests, RegisterFounded(t) PROVE AuthInv'
<1>1. ask[t].kind = "signup" /\ at[t] = "checked"
  BY DEF RegisterFounded, Doing
<1>2. CASE founded[ask[t].what] # Nobody
  BY <1>1, <1>2, FailOK DEF RegisterFounded
<1>3. CASE founded[ask[t].what] = Nobody
  <2>1. /\ LockNeeded(t) /\ To(t, "registered")
        /\ UNCHANGED <<clock, authData, ask, local, reply, overtaken>>
    BY <1>3 DEF RegisterFounded
  <2> QED
    BY <1>1, <2>1, Onward DEF StagesOf, Redeeming, Resetting, AuthStages
<1> QED
  BY <1>2, <1>3

LEMMA BreakDeadlockOK == ASSUME AuthInv, NEW t \in AuthRequests, BreakDeadlock(t) PROVE AuthInv'
<1>1. PICK S \in SUBSET AuthRequests : t \in S /\ WaitCycle(S)
  BY DEF BreakDeadlock
<1>2. Needed(t) # {}
  BY <1>1 DEF WaitCycle, Obstructs
<1>3. at[t] # "end"
  BY <1>2 DEF Needed
<1> QED
  BY <1>3, FailOK DEF BreakDeadlock
-----------------------------------------------------------------------------
(* The requests that are answered with a change of the data                *)

\* Such an answer t keeps the invariant when it leaves alone the invites others
\* have locked, opens sessions only of accounts nobody is resetting or that are
\* overtaken, redeems an invite that was fresh, and founds what it was asked for.
LEMMA DataAnswer ==
  ASSUME AuthInv, NEW t \in AuthRequests, at[t] # "end", NEW r \in {200, 201, 204},
         Answer(t, r), UNCHANGED <<clock, ask, local>>, DataMoves,
         AuthTyped', InvitesOK', SessionsOK',
         \A s \in AuthRequests \ {t} : \A k \in Invites :
           <<"invite", k>> \in holds[s] => invites'[k] = invites[k],
         \A s \in AuthRequests \ {t} : at[s] \in Resetting =>
           \A x \in sessions' \ sessions : x.user = ask[s].who => x.user \in overtaken',
         ask[t].kind = "set" /\ r = 204 =>
           invites[ask[t].what] = "fresh" /\ invites'[ask[t].what] # "fresh",
         \A l \in Labels : founded'[l] # founded[l] =>
           /\ ask[t].kind = "signup" /\ r = 201 /\ ask[t].what = l
           /\ founded'[l] = ask[t].who /\ secret'[ask[t].who] # Nobody
  PROVE  AuthInv'
<1>1. /\ OnlyMoves(t) /\ at'[t] = "end" /\ reply'[t] = r /\ holds'[t] = {}
  BY DEF Answer, To, AuthInv, AuthTyped, OnlyMoves
<1>2. LocksExclusive'
  BY <1>1 DEF AuthInv, LocksExclusive, OnlyMoves
<1>3. InvitesSingleUse'
  <2>1. \A s \in AuthRequests \ {t} : ask[s].kind = "set" /\ reply[s] = 204 =>
                                        invites[ask[s].what] # "fresh"
    BY DEF AuthInv, AskOK
  <2> QED
    BY <1>1, <2>1 DEF AuthInv, InvitesSingleUse, OnlyMoves
<1>4. SignupsWhole'
  <2> SUFFICES ASSUME NEW l \in Labels, founded'[l] # Nobody
               PROVE  /\ secret'[founded'[l]] # Nobody
                      /\ \E s \in AuthRequests : /\ ask[s].kind = "signup" /\ reply'[s] = 201
                                                 /\ ask[s].what = l /\ ask[s].who = founded'[l]
    BY DEF SignupsWhole, Mine
  <2>1. CASE founded'[l] # founded[l]
    BY <1>1, <2>1
  <2>2. CASE founded'[l] = founded[l]
    <3>1. PICK s \in AuthRequests : /\ ask[s].kind = "signup" /\ reply[s] = 201
                                    /\ ask[s].what = l /\ ask[s].who = founded[l]
      BY <2>2 DEF AuthInv, SignupsWhole, Mine
    <3>2. s # t
      BY <3>1, Underway
    <3>3. secret'[founded[l]] # Nobody
      BY <2>2 DEF AuthInv, SignupsWhole, AuthTyped, DataMoves
    <3> QED
      BY <1>1, <2>2, <3>1, <3>2, <3>3 DEF OnlyMoves
  <2> QED
    BY <2>1, <2>2
<1>5. ASSUME NEW s \in AuthRequests \ {t} PROVE AskOK(s)'
  BY <1>1, OthersStand DEF OnlyMoves
<1>6. AskOK(t)'
  BY <1>1 DEF AskOK, Redeeming, Resetting
<1> QED
  BY <1>2, <1>3, <1>4, <1>5, <1>6 DEF AuthInv

\* An account with a new password is an account.
LEMMA NewRow ==
  ASSUME NEW pw \in Passwords
  PROVE  [pw |-> pw, weak |-> FALSE] \in Account /\ [pw |-> pw, weak |-> FALSE] # Nobody
<1>1. [pw |-> pw, weak |-> FALSE] \in Account
  BY DEF Account
<1>2. Nobody \notin Account
  BY AuthAssumption
<1> QED
  BY <1>1, <1>2

\* An answer keeps the types when what it writes does.
LEMMA AnswerTyped ==
  ASSUME AuthInv, NEW t \in AuthRequests, NEW r \in {200, 201, 204}, Answer(t, r),
         UNCHANGED <<clock, ask, local>>,
         secret' \in [Accounts -> Account \cup {Nobody}], sessions' \subseteq SessionRows,
         invites' \in [Invites -> {"fresh", "used", "gone"}],
         belongs' \in [Accounts -> {"none", "invited", "accepted"}],
         founded' \in [Labels -> Accounts \cup {Nobody}], overtaken' \subseteq Accounts
  PROVE  AuthTyped'
<1>1. /\ at' = [at EXCEPT ![t] = "end"] /\ reply' = [reply EXCEPT ![t] = r]
      /\ holds' = [holds EXCEPT ![t] = {}]
  BY DEF Answer, To
<1>2. /\ at' \in [AuthRequests -> AuthStages] /\ reply' \in [AuthRequests -> Replies]
      /\ holds' \in [AuthRequests -> SUBSET Rows]
  BY <1>1 DEF AuthInv, AuthTyped, AuthStages, Replies
<1> QED
  BY <1>2 DEF AuthInv, AuthTyped, AskTyped

LEMMA CommitLoginOK == ASSUME AuthInv, NEW t \in AuthRequests, CommitLogin(t) PROVE AuthInv'
<1> DEFINE who == ask[t].who
           opened == [by |-> t, user |-> who, pw |-> ask[t].pw]
           record == [pw |-> ask[t].pw, weak |-> FALSE]
<1>1. /\ ask[t].kind = "login" /\ at[t] = "verified"
      /\ secret' = IF local[t].seen.weak THEN [secret EXCEPT ![who] = record] ELSE secret
      /\ sessions' = sessions \cup {opened}
      /\ overtaken' = IF Overtaken(t) THEN overtaken \cup {who} ELSE overtaken
      /\ Answer(t, 200) /\ UNCHANGED <<clock, invites, belongs, founded, ask, local>>
  BY DEF CommitLogin, Doing, SessionRow, Mine
<1>2. /\ who \in Accounts /\ ask[t].pw \in Passwords /\ secret[who] # Nobody
      /\ local[t].seen.pw = ask[t].pw
  BY <1>1, Underway DEF AskTyped, AskOK
<1>3. record \in Account /\ record # Nobody /\ opened \in SessionRows
  BY <1>2, NewRow DEF SessionRows
<1>4. secret' \in [Accounts -> Account \cup {Nobody}]
  BY <1>1, <1>2, <1>3 DEF AuthInv, AuthTyped
<1>5. /\ \A a \in Accounts \ {who} : secret'[a] = secret[a]
      /\ secret'[who] \in {secret[who], record}
  BY <1>1, <1>2 DEF AuthInv, AuthTyped
<1>6. overtaken' \subseteq Accounts /\ overtaken \subseteq overtaken'
  BY <1>1, <1>2 DEF AuthInv, AuthTyped
<1>7. DataMoves
  BY <1>1, <1>2, <1>3, <1>5, <1>6 DEF DataMoves
<1>8. AuthTyped'
  <2>1. sessions' \subseteq SessionRows
    BY <1>1, <1>3 DEF AuthInv, AuthTyped
  <2> QED
    BY <1>1, <1>4, <1>6, <2>1, AnswerTyped DEF AuthInv, AuthTyped
<1>9. InvitesOK'
  BY <1>1, <1>2, <1>3, <1>5, AuthAssumption DEF AuthInv, InvitesOK
<1>10. who \notin overtaken' => secret[who].pw = ask[t].pw
  BY <1>1, <1>2 DEF Overtaken, Mine
<1>11. SessionsOK'
  <2> SUFFICES ASSUME NEW s \in sessions'
               PROVE  secret'[s.user] # Nobody /\ (s.user \notin overtaken' => s.pw = secret'[s.user].pw)
    BY DEF SessionsOK
  <2>1. s \in SessionRows
    BY <1>8 DEF AuthTyped
  <2>2. secret[s.user] # Nobody /\ (s.user \notin overtaken' => s.pw = secret[s.user].pw)
    BY <1>1, <1>2, <1>6, <1>10 DEF AuthInv, SessionsOK
  <2>3. s.user \in Accounts
    BY <2>1 DEF SessionRows
  <2>4. who \notin overtaken' => secret'[who].pw = secret[who].pw
    BY <1>5, <1>10
  <2> QED
    BY <1>3, <1>5, <2>2, <2>3, <2>4
<1>12. \A s \in AuthRequests \ {t} : at[s] \in Resetting =>
         \A x \in sessions' \ sessions : x.user = ask[s].who => x.user \in overtaken'
  <2> SUFFICES ASSUME NEW s \in AuthRequests \ {t}, at[s] \in Resetting, ask[s].who = who
               PROVE  who \in overtaken'
    BY <1>1
  <2>1. ask[s].kind = "set"
    BY Underway DEF AskOK, AskTyped, StagesOf, Resetting, Redeeming, AskKinds
  <2> QED
    BY <1>1, <2>1 DEF Overtaken, Mine, Resetting
<1> QED
  BY <1>1, <1>7, <1>8, <1>9, <1>11, <1>12, DataAnswer

LEMMA LogoutOK == ASSUME AuthInv, NEW t \in AuthRequests, Logout(t) PROVE AuthInv'
<1>1. /\ ask[t].kind = "logout" /\ at[t] = "begun" /\ Answer(t, 204)
      /\ sessions' \subseteq sessions
      /\ UNCHANGED <<clock, secret, invites, belongs, founded, ask, local, overtaken>>
  BY DEF Logout, Doing
<1>2. DataMoves /\ AuthTyped'
  BY <1>1, AnswerTyped DEF DataMoves, AuthInv, AuthTyped
<1>3. InvitesOK' /\ SessionsOK'
  BY <1>1 DEF AuthInv, InvitesOK, SessionsOK
<1> QED
  BY <1>1, <1>2, <1>3, DataAnswer

LEMMA CommitPasswordOK == ASSUME AuthInv, NEW t \in AuthRequests, CommitPassword(t) PROVE AuthInv'
<1> DEFINE who == ask[t].who
           k == ask[t].what
           record == [pw |-> ask[t].pw, weak |-> FALSE]
<1>1. /\ ask[t].kind = "set" /\ at[t] = "stamped" /\ Answer(t, 204)
      /\ secret' = [secret EXCEPT ![who] = record]
      /\ invites' = [invites EXCEPT ![k] = "used"]
      /\ belongs' = [belongs EXCEPT ![who] = "accepted"]
      /\ sessions' = sessions \ local[t].doomed
      /\ UNCHANGED <<clock, founded, ask, local, overtaken>>
  BY DEF CommitPassword, Doing, Mine
<1>2. /\ who \in Accounts /\ ask[t].pw \in Passwords /\ k \in Invites /\ InviteOf[k] = who
      /\ invites[k] = "fresh" /\ <<"invite", k>> \in holds[t]
      /\ \A s \in sessions : s.user = who => s \in local[t].doomed \/ who \in overtaken
  BY <1>1, Underway DEF AskTyped, AskOK, Redeeming, Resetting
<1>3. record \in Account /\ record # Nobody /\ record.pw \in Passwords
  BY <1>2, NewRow
<1>4. /\ secret' \in [Accounts -> Account \cup {Nobody}]
      /\ \A a \in Accounts \ {who} : secret'[a] = secret[a]
      /\ secret'[who] = record
  BY <1>1, <1>2, <1>3 DEF AuthInv, AuthTyped
<1>5. /\ invites' \in [Invites -> {"fresh", "used", "gone"}] /\ invites'[k] = "used"
      /\ \A j \in Invites \ {k} : invites'[j] = invites[j]
  BY <1>1, <1>2 DEF AuthInv, AuthTyped
<1>6. DataMoves
  BY <1>1, <1>3, <1>4, <1>5 DEF DataMoves
<1>7. AuthTyped'
  <2>1. /\ belongs' \in [Accounts -> {"none", "invited", "accepted"}]
        /\ sessions' \subseteq SessionRows /\ overtaken' \subseteq Accounts
        /\ founded' \in [Labels -> Accounts \cup {Nobody}]
    BY <1>1, <1>2 DEF AuthInv, AuthTyped
  <2>2. secret' \in [Accounts -> Account \cup {Nobody}]
    BY <1>4
  <2>3. invites' \in [Invites -> {"fresh", "used", "gone"}]
    BY <1>5
  <2>4. Answer(t, 204) /\ UNCHANGED <<clock, ask, local>>
    BY <1>1
  <2> QED
    BY <2>1, <2>2, <2>3, <2>4, AnswerTyped
<1>8. InvitesOK'
  <2> SUFFICES ASSUME NEW j \in Invites
               PROVE  /\ secret'[InviteOf[j]] # Nobody
                      /\ invites'[j] = "used" => secret'[InviteOf[j]].pw \in Passwords
    BY DEF InvitesOK
  <2>1. CASE InviteOf[j] = who
    <3>1. secret'[InviteOf[j]] = record
      BY <1>4, <2>1
    <3> QED
      BY <1>3, <3>1
  <2>2. CASE InviteOf[j] # who
    <3>1. InviteOf[j] \in Accounts /\ j # k
      BY <1>2, <2>2, AuthAssumption
    <3> QED
      BY <1>4, <1>5, <2>2, <3>1 DEF AuthInv, InvitesOK
  <2> QED
    BY <2>1, <2>2
<1>9. SessionsOK'
  <2> SUFFICES ASSUME NEW s \in sessions'
               PROVE  secret'[s.user] # Nobody /\ (s.user \notin overtaken => s.pw = secret'[s.user].pw)
    BY <1>1 DEF SessionsOK
  <2>1. s \in sessions /\ s \notin local[t].doomed /\ s.user \in Accounts
    BY <1>1 DEF AuthInv, AuthTyped, SessionRows
  <2> QED
    BY <1>2, <1>3, <1>4, <2>1 DEF AuthInv, SessionsOK
<1>10. \A s \in AuthRequests \ {t} : \A j \in Invites :
         <<"invite", j>> \in holds[s] => invites'[j] = invites[j]
  BY <1>2, <1>5 DEF AuthInv, LocksExclusive
<1> QED
  BY <1>1, <1>2, <1>5, <1>6, <1>7, <1>8, <1>9, <1>10, DataAnswer

LEMMA RemoveMemberOK == ASSUME AuthInv, NEW t \in AuthRequests, RemoveMember(t) PROVE AuthInv'
<1> DEFINE who == ask[t].who
<1>1. /\ ask[t].kind = "remove" /\ at[t] = "locked" /\ CanLock(t) /\ Answer(t, 204)
      /\ belongs' = [belongs EXCEPT ![who] = "none"]
      /\ invites' = [k \in Invites |-> IF InviteOf[k] = who THEN "gone" ELSE invites[k]]
      /\ UNCHANGED <<clock, secret, sessions, founded, ask, local, overtaken>>
  BY DEF RemoveMember, Doing, Mine
<1>2. \A k \in Invites : InviteOf[k] = who /\ invites[k] # "gone" => <<"invite", k>> \in Needed(t)
  BY <1>1 DEF Needed, Mine
<1>3. \A s \in AuthRequests \ {t} : \A k \in Invites :
        <<"invite", k>> \in holds[s] => invites'[k] = invites[k]
  BY <1>1, <1>2 DEF CanLock, Obstructs
<1>4. DataMoves /\ InvitesOK' /\ SessionsOK'
  BY <1>1 DEF DataMoves, AuthInv, InvitesOK, SessionsOK
<1>5. AuthTyped'
  <2>1. /\ belongs' \in [Accounts -> {"none", "invited", "accepted"}]
        /\ invites' \in [Invites -> {"fresh", "used", "gone"}]
    BY <1>1 DEF AuthInv, AuthTyped
  <2> QED
    BY <1>1, <2>1, AnswerTyped DEF AuthInv, AuthTyped
<1> QED
  BY <1>1, <1>3, <1>4, <1>5, DataAnswer

LEMMA FoundTenantOK == ASSUME AuthInv, NEW t \in AuthRequests, FoundTenant(t) PROVE AuthInv'
<1> DEFINE who == ask[t].who
           opened == [by |-> t, user |-> who, pw |-> ask[t].pw]
           record == [pw |-> ask[t].pw, weak |-> FALSE]
<1>1. ask[t].kind = "signup" /\ at[t] = "registered"
  BY DEF FoundTenant, Doing
<1>2. CASE secret[who] # Nobody
  BY <1>1, <1>2, FailOK DEF FoundTenant, Mine
<1>3. CASE secret[who] = Nobody
  <2>1. /\ secret' = [secret EXCEPT ![who] = record]
        /\ founded' = [founded EXCEPT ![ask[t].what] = who]
        /\ sessions' = sessions \cup {opened} /\ Answer(t, 201)
        /\ UNCHANGED <<clock, invites, belongs, ask, local, overtaken>>
    BY <1>3 DEF FoundTenant, Mine, SessionRow
  <2>2. /\ who \in Accounts /\ ask[t].pw \in Passwords /\ ask[t].what \in Labels
        /\ record \in Account /\ record # Nobody /\ opened \in SessionRows
    BY <1>1, Underway, NewRow DEF AskTyped, SessionRows
  <2>3. /\ secret' \in [Accounts -> Account \cup {Nobody}] /\ secret'[who] = record
        /\ \A a \in Accounts \ {who} : secret'[a] = secret[a]
    BY <2>1, <2>2 DEF AuthInv, AuthTyped
  <2>4. /\ founded' \in [Labels -> Accounts \cup {Nobody}] /\ founded'[ask[t].what] = who
        /\ \A l \in Labels \ {ask[t].what} : founded'[l] = founded[l]
    BY <2>1, <2>2 DEF AuthInv, AuthTyped
  <2>5. DataMoves
    BY <2>1, <2>2, <2>3 DEF DataMoves
  <2>6. AuthTyped'
    <3>1. sessions' \subseteq SessionRows
      BY <2>1, <2>2 DEF AuthInv, AuthTyped
    <3> QED
      BY <2>1, <2>3, <2>4, <3>1, AnswerTyped DEF AuthInv, AuthTyped
  <2>7. InvitesOK'
    BY <1>3, <2>1, <2>3, AuthAssumption DEF AuthInv, InvitesOK
  <2>8. SessionsOK'
    <3> SUFFICES ASSUME NEW s \in sessions'
                 PROVE  secret'[s.user] # Nobody
                        /\ (s.user \notin overtaken => s.pw = secret'[s.user].pw)
      BY <2>1 DEF SessionsOK
    <3>1. CASE s = opened
      BY <2>2, <2>3, <3>1
    <3>2. CASE s \in sessions
      <4>1. s.user \in Accounts
        BY <3>2 DEF AuthInv, AuthTyped, SessionRows
      <4>2. s.user # who
        BY <1>3, <3>2 DEF AuthInv, SessionsOK
      <4> QED
        BY <2>3, <3>2, <4>1, <4>2 DEF AuthInv, SessionsOK
    <3> QED
      BY <2>1, <3>1, <3>2
  <2>9. \A s \in AuthRequests \ {t} : at[s] \in Resetting => ask[s].who # who
    <3> SUFFICES ASSUME NEW s \in AuthRequests, at[s] \in Resetting PROVE ask[s].who # who
      OBVIOUS
    <3>1. ask[s].kind = "set"
      BY Underway DEF AskOK, AskTyped, StagesOf, Resetting, Redeeming, AskKinds
    <3>2. ask[s].what \in Invites /\ InviteOf[ask[s].what] = ask[s].who
      BY <3>1, Underway DEF AskTyped
    <3> QED
      BY <1>3, <3>2 DEF AuthInv, InvitesOK
  <2> QED
    BY <1>1, <2>1, <2>2, <2>3, <2>4, <2>5, <2>6, <2>7, <2>8, <2>9, DataAnswer
<1> QED
  BY <1>2, <1>3

LEMMA PassOK == ASSUME AuthInv, Pass PROVE AuthInv'
<1>1. clock' \in Nat /\ UNCHANGED <<authData, holds, at, ask, local, reply, overtaken>>
  BY DEF Pass, AuthInv, AuthTyped
<1>2. AuthTyped' /\ LocksExclusive'
  BY <1>1 DEF AuthInv, AuthTyped, AskTyped, LocksExclusive, authData
<1>3. InvitesOK' /\ SessionsOK' /\ InvitesSingleUse' /\ SignupsWhole'
  BY <1>1 DEF AuthInv, InvitesOK, SessionsOK, InvitesSingleUse, SignupsWhole, Mine, authData
<1>4. \A t \in AuthRequests : AskOK(t)'
  BY <1>1 DEF AuthInv, AskOK, authData
<1> QED
  BY <1>2, <1>3, <1>4 DEF AuthInv

LEMMA AuthNextOK == AuthInv /\ [AuthNext]_authVars => AuthInv'
<1> SUFFICES ASSUME AuthInv, [AuthNext]_authVars PROVE AuthInv'
  OBVIOUS
<1>1. ASSUME NEW t \in AuthRequests, AuthStep(t) PROVE AuthInv'
  BY <1>1, VerifyOK, CommitLoginOK, LogoutOK, RedeemOK, DeleteSessionsOK, FlushOK,
     CommitPasswordOK, LockMemberOK, RemoveMemberOK, PreCheckOK, RegisterFoundedOK, FoundTenantOK
     DEF AuthStep, Login, SetPassword, Removal, Signup
<1>2. CASE UNCHANGED authVars
  <2>1. AuthTyped' /\ LocksExclusive'
    BY <1>2 DEF authVars, authData, AuthInv, AuthTyped, AskTyped, LocksExclusive
  <2>2. InvitesOK' /\ SessionsOK' /\ InvitesSingleUse' /\ SignupsWhole'
    BY <1>2 DEF authVars, authData, AuthInv, InvitesOK, SessionsOK, InvitesSingleUse,
                SignupsWhole, Mine
  <2>3. \A t \in AuthRequests : AskOK(t)'
    BY <1>2 DEF authVars, authData, AuthInv, AskOK
  <2> QED
    BY <2>1, <2>2, <2>3 DEF AuthInv
<1> QED
  BY <1>1, <1>2, BeginOK, BreakDeadlockOK, PassOK DEF AuthNext

LEMMA AuthInvHolds == AuthSpec => []AuthInv
  BY AuthInitOK, AuthNextOK, PTL DEF AuthSpec

-----------------------------------------------------------------------------
\* The variables of authentication keep their types, and an invite that was used
\* has given its account a password (routes/auth.py, set-password).
THEOREM AuthTypes == AuthSpec => []AuthTypeOK
<1>1. AuthInv => AuthTypeOK
  BY AuthAssumption DEF AuthInv, AuthTyped, InvitesOK, AuthTypeOK, Replies
<1> QED
  BY <1>1, AuthInvHolds, PTL

\* However many requests present one invite at once, one is answered 204, and no
\* collision of signups leaves a tenant without the account that founded it.
THEOREM RequestsWhole == AuthSpec => []RequestsAreWhole
<1>1. AuthInv => RequestsAreWhole
  BY DEF AuthInv, RequestsAreWhole
<1> QED
  BY <1>1, AuthInvHolds, PTL

\* A reset ends every session of the account, but those of a login it has
\* overtaken: every other session was opened with the password the account has.
THEOREM ResetsEndSessions == AuthSpec => []ResetEndsSessions
<1>1. AuthInv => ResetEndsSessions
  BY DEF AuthInv, SessionsOK, ResetEndsSessions
<1> QED
  BY <1>1, AuthInvHolds, PTL
-----------------------------------------------------------------------------
\* Of AuthzSeed: the phases in which a transaction is open, and those in which it
\* has taken its snapshot of the permissions.
Open == {"perms", "unlist", "roles", "bundle", "delist", "reconcile"}
Past == Open \ {"perms"}

PermEntry == [name : PermNames, domain : Domains, live : BOOLEAN]
RoleEntry == [name : RoleNames, domain : Domains, bundle : SUBSET PermNames]
PermTable == [PermNames -> TableRow \cup {Absent}]
RoleTable == [RoleNames -> TableRow \cup {Absent}]
SeedKeys  == ({"permission"} \X PermNames) \cup ({"role"} \X RoleNames) \cup (RoleNames \X PermNames)

SeedTyped ==
  /\ SeedTypeOK
  /\ Compatible(release)
  /\ own \in [Replicas -> [perm : PermTable, role : RoleTable, rows : SUBSET (RoleNames \X PermNames)]]
  /\ keys \in [Replicas -> SUBSET SeedKeys]
  /\ DOMAIN todo = Replicas

Exclusive == \A s, o \in Replicas : s # o => keys[s] \cap keys[o] = {}

\* What is left to do is of the phase's kind and of the replica's catalog.
TodoOK(s) ==
  /\ phase[s] = "perms" =>
       todo[s] \in Seq(PermEntry)
       /\ \A j \in DOMAIN todo[s] : \E i \in DOMAIN release[s].perms : todo[s][j] = release[s].perms[i]
  /\ phase[s] = "unlist" => todo[s] \subseteq {n \in PermNames \ CatalogNames(release[s]) : perm[n] # Absent}
  /\ phase[s] \in {"roles", "bundle"} =>
       todo[s] \in Seq(RoleEntry) /\ \A j \in DOMAIN todo[s] : todo[s][j] \in RoleEntries(release[s])
  /\ phase[s] = "bundle" => todo[s] # <<>>
  /\ phase[s] = "delist" => todo[s] \subseteq {r \in RoleNames \ CatalogRoles(release[s]) : role[r] # Absent}

\* A replica that is outside holds nothing; one inside holds the first
\* permission of its catalog before any other row.
HoldsFirst(s) ==
  /\ phase[s] \notin Open => keys[s] = {} /\ own[s] = Nothing
  /\ phase[s] \in Open =>
       \/ phase[s] = "perms" /\ keys[s] = {} /\ todo[s] = release[s].perms
       \/ PermKey(release[s].perms[1].name) \in keys[s]

\* Each permission of the catalog is still to do, or written and locked.
PermsOK(s) ==
  phase[s] \in Open =>
    \A i \in DOMAIN release[s].perms :
      LET e == release[s].perms[i] IN
      \/ phase[s] = "perms" /\ \E j \in DOMAIN todo[s] : todo[s][j] = e
      \/ /\ own[s].perm[e.name] = [domain |-> e.domain, live |-> e.live]
         /\ PermKey(e.name) \in keys[s]

\* A row of a table that the catalog does not name is in neither view, or is
\* switched off, or is still to be.
Handled(mine, theirs, left) ==
  \/ mine = Absent /\ theirs = Absent
  \/ mine # Absent /\ mine.live = FALSE
  \/ mine = Absent /\ theirs # Absent /\ left

UnlistedOK(s) ==
  \A n \in PermNames \ CatalogNames(release[s]) :
    /\ phase[s] = "perms" => own[s].perm[n] = Absent
    /\ phase[s] \in Past => Handled(own[s].perm[n], perm[n], phase[s] = "unlist" /\ n \in todo[s])

Seeded(s, e) ==
  /\ own[s].role[e.name] # Absent /\ own[s].role[e.name].live = TRUE
  /\ \A p \in e.bundle : SeesRow(s, <<e.name, p>>)

RolesOK(s) ==
  /\ phase[s] \in {"roles", "bundle", "delist", "reconcile"} =>
       \A e \in RoleEntries(release[s]) :
         \/ phase[s] \in {"roles", "bundle"} /\ \E j \in DOMAIN todo[s] : todo[s][j] = e
         \/ Seeded(s, e)
  /\ phase[s] = "bundle" =>
       own[s].role[todo[s][1].name] # Absent /\ own[s].role[todo[s][1].name].live = TRUE

DelistedOK(s) ==
  \A r \in RoleNames \ CatalogRoles(release[s]) :
    /\ phase[s] \in Open \ {"delist", "reconcile"} => own[s].role[r] = Absent
    /\ phase[s] \in {"delist", "reconcile"} =>
         Handled(own[s].role[r], role[r], phase[s] = "delist" /\ r \in todo[s])

\* The rows it has inserted refer to rows that it sees.
RowsOK(s) ==
  \A rp \in own[s].rows : own[s].role[rp[1]] # Absent /\ (own[s].perm[rp[2]] # Absent \/ perm[rp[2]] # Absent)

ReplicaOK(s) ==
  /\ TodoOK(s) /\ HoldsFirst(s) /\ PermsOK(s) /\ UnlistedOK(s)
  /\ RolesOK(s) /\ DelistedOK(s) /\ RowsOK(s)

SeedInv ==
  /\ SeedTyped /\ Exclusive /\ LastSeedWins /\ BundlesInForce
  /\ \A s \in Replicas : ReplicaOK(s)
-----------------------------------------------------------------------------
SeedTables == <<perm, role, rows, release, last>>

\* Nobody but s changes.
SeedMoves(s) ==
  /\ phase' = [phase EXCEPT ![s] = phase'[s]]
  /\ DOMAIN todo' = Replicas /\ \A o \in Replicas \ {s} : todo'[o] = todo[o]
  /\ own' = [own EXCEPT ![s] = own'[s]] /\ keys' = [keys EXCEPT ![s] = keys'[s]]

OwnTyped == [perm : PermTable, role : RoleTable, rows : SUBSET (RoleNames \X PermNames)]

LEMMA SeedCatalog ==
  ASSUME SeedInv, NEW s \in Replicas
  PROVE  /\ release[s].perms \in Seq(PermEntry) /\ release[s].roles \in Seq(RoleEntry)
         /\ \A i \in DOMAIN release[s].perms : release[s].perms[i] \in PermEntry
         /\ \A i \in DOMAIN release[s].roles : release[s].roles[i] \in RoleEntry
<1>1. release[s] \in Catalogs
  BY DEF SeedInv, SeedTyped, Compatible
<1>2. release[s].perms \in Seq(PermEntry) /\ release[s].roles \in Seq(RoleEntry)
  BY <1>1 DEF Catalogs, PermEntry, RoleEntry
<1> QED BY <1>2

\* A step of s that leaves the tables alone has only s to answer for.
LEMMA SeedFrame ==
  ASSUME SeedInv, NEW s \in Replicas, UNCHANGED SeedTables, SeedMoves(s),
         phase'[s] \in Phases, own'[s] \in OwnTyped, keys'[s] \in SUBSET SeedKeys,
         \A o \in Replicas \ {s} : keys'[s] \cap keys[o] = {},
         ReplicaOK(s)'
  PROVE  SeedInv'
<1>1. SeedTyped'
  BY DEF SeedInv, SeedTyped, SeedTypeOK, SeedMoves, SeedTables, OwnTyped
<1>2. Exclusive'
  BY DEF SeedInv, SeedTyped, Exclusive, SeedMoves
<1>3. LastSeedWins' /\ BundlesInForce'
  BY DEF SeedInv, SeedTables, LastSeedWins, BundlesInForce
<1>4. ASSUME NEW o \in Replicas PROVE ReplicaOK(o)'
  <2>1. CASE o = s
    BY <2>1
  <2>2. CASE o # s
    <3>1. phase'[o] = phase[o] /\ todo'[o] = todo[o] /\ own'[o] = own[o] /\ keys'[o] = keys[o]
      BY <2>2 DEF SeedMoves, SeedInv, SeedTyped, SeedTypeOK
    <3>2. ReplicaOK(o)
      BY DEF SeedInv
    <3>3. HoldsFirst(o)' /\ PermsOK(o)'
      BY <3>1, <3>2 DEF ReplicaOK, HoldsFirst, PermsOK, SeedTables
    <3>6. TodoOK(o)'
      BY <3>1, <3>2 DEF ReplicaOK, TodoOK, SeedTables
    <3>4. UnlistedOK(o)' /\ DelistedOK(o)' /\ RowsOK(o)'
      BY <3>1, <3>2 DEF ReplicaOK, UnlistedOK, DelistedOK, RowsOK, Handled, SeedTables
    <3>5. RolesOK(o)'
      BY <3>1, <3>2 DEF ReplicaOK, RolesOK, Seeded, SeesRow, SeedTables
    <3> QED BY <3>3, <3>4, <3>5, <3>6 DEF ReplicaOK
  <2> QED BY <2>1, <2>2
<1> QED BY <1>1, <1>2, <1>3, <1>4 DEF SeedInv

LEMMA SeedInitial == SeedInit => SeedInv
<1> SUFFICES ASSUME SeedInit PROVE SeedInv
  OBVIOUS
<1>1. PICK start \in SeedStarts : perm = start.perm /\ role = start.role /\ rows = start.rows
  BY DEF SeedInit
<1>2. /\ perm \in PermTable /\ role \in RoleTable /\ rows \subseteq RoleNames \X PermNames
      /\ \A rp \in rows : role[rp[1]] # Absent /\ perm[rp[2]] # Absent
  BY <1>1, SeedAssumption DEF References, PermTable, RoleTable
<1>3. Nothing \in OwnTyped
  BY DEF Nothing, OwnTyped, PermTable, RoleTable
<1>4. SeedTyped
  BY <1>2, <1>3, SeedAssumption DEF SeedInit, SeedTyped, SeedTypeOK, PermTable, RoleTable, OwnTyped, Phases
<1>5. Exclusive /\ LastSeedWins /\ BundlesInForce
  BY DEF SeedInit, Exclusive, LastSeedWins, BundlesInForce
<1>6. ASSUME NEW s \in Replicas PROVE ReplicaOK(s)
  <2>1. phase[s] = "shadow" /\ own[s] = Nothing /\ keys[s] = {}
    BY DEF SeedInit
  <2>2. Nothing.rows = {}
    BY DEF Nothing
  <2> QED
    BY <2>1, <2>2 DEF ReplicaOK, TodoOK, HoldsFirst, PermsOK, UnlistedOK, RolesOK, DelistedOK, RowsOK,
                      Open, Past
<1> QED BY <1>4, <1>5, <1>6 DEF SeedInv

LEMMA SeedRollsBack == ASSUME SeedInv, NEW s \in Replicas, Rollback(s) PROVE SeedInv'
<1>1. /\ phase'[s] = "failed" /\ own'[s] = Nothing /\ keys'[s] = {} /\ SeedMoves(s)
      /\ UNCHANGED SeedTables
  BY DEF SeedInv, SeedTyped, SeedTypeOK, Rollback, Enter, SeedMoves, SeedTables, tables
<1>2. Nothing \in OwnTyped /\ Nothing.rows = {}
  BY DEF Nothing, OwnTyped, PermTable, RoleTable
<1>3. ReplicaOK(s)'
  BY <1>1, <1>2 DEF ReplicaOK, TodoOK, HoldsFirst, PermsOK, UnlistedOK, RolesOK, DelistedOK, RowsOK,
                    Open, Past
<1> QED BY <1>1, <1>2, <1>3, SeedFrame DEF Phases

LEMMA SeedShadow == ASSUME SeedInv, NEW s \in Replicas, ShadowGuard(s) PROVE SeedInv'
<1>1. CASE Rollback(s)
  BY <1>1, SeedRollsBack
<1>2. CASE Enter(s, "perms", release[s].perms) /\ UNCHANGED <<tables, release, own, keys, last>>
  <2>1. /\ phase[s] = "shadow" /\ phase'[s] = "perms" /\ todo'[s] = release[s].perms
        /\ SeedMoves(s) /\ UNCHANGED SeedTables /\ own' = own /\ keys' = keys
    BY <1>2 DEF SeedInv, SeedTyped, SeedTypeOK, ShadowGuard, Enter, SeedMoves, SeedTables, tables
  <2>2. own[s] = Nothing /\ keys[s] = {} /\ release[s].perms \in Seq(PermEntry)
    BY <2>1 DEF SeedInv, ReplicaOK, HoldsFirst, Open, SeedTyped, Compatible, Catalogs, PermEntry
  <2>3. TodoOK(s)' /\ HoldsFirst(s)' /\ PermsOK(s)'
    BY <2>1, <2>2 DEF TodoOK, HoldsFirst, PermsOK, Open, SeedTables
  <2>4. UnlistedOK(s)' /\ RolesOK(s)' /\ DelistedOK(s)' /\ RowsOK(s)'
    BY <2>1, <2>2 DEF UnlistedOK, RolesOK, DelistedOK, RowsOK, Open, Past, Nothing, SeedTables
  <2>5. own'[s] \in OwnTyped /\ keys'[s] \in SUBSET SeedKeys
        /\ \A o \in Replicas \ {s} : keys'[s] \cap keys[o] = {}
    BY <2>1 DEF SeedInv, SeedTyped, OwnTyped, Exclusive
  <2> QED BY <2>1, <2>3, <2>4, <2>5, SeedFrame DEF Phases, ReplicaOK
<1> QED BY <1>1, <1>2 DEF ShadowGuard

\* A lock that is granted is nobody else's.
LEMMA SeedLocks ==
  ASSUME SeedInv, NEW s \in Replicas, NEW key \in SeedKeys, Unlocked(s, key), Lock(s, key)
  PROVE  /\ keys' = [keys EXCEPT ![s] = keys'[s]] /\ keys'[s] = keys[s] \cup {key}
         /\ keys'[s] \in SUBSET SeedKeys
         /\ \A o \in Replicas \ {s} : keys'[s] \cap keys[o] = {}
<1>1. keys' = [keys EXCEPT ![s] = keys'[s]] /\ keys'[s] = keys[s] \cup {key} /\ keys[s] \in SUBSET SeedKeys
  BY DEF SeedInv, SeedTyped, Lock
<1>2. \A o \in Replicas \ {s} : keys[s] \cap keys[o] = {} /\ key \notin keys[o]
  BY DEF SeedInv, Exclusive, Unlocked
<1> QED BY <1>1, <1>2

LEMMA SeedUpserts == ASSUME SeedInv, NEW s \in Replicas, UpsertPermission(s) PROVE SeedInv'
<1> DEFINE p == Head(todo[s])
           record == [domain |-> p.domain, live |-> p.live]
           c == release[s]
<1>1. /\ phase[s] = "perms" /\ phase'[s] = "perms" /\ todo[s] # <<>> /\ todo'[s] = Tail(todo[s])
      /\ own'[s] = [own[s] EXCEPT !.perm[p.name] = record] /\ SeedMoves(s) /\ UNCHANGED SeedTables
      /\ Unlocked(s, PermKey(p.name)) /\ Lock(s, PermKey(p.name))
  BY DEF SeedInv, SeedTyped, SeedTypeOK, UpsertPermission, Enter, Lock, SeedMoves, SeedTables, tables
<1>2. todo[s] \in Seq(PermEntry)
      /\ \A j \in DOMAIN todo[s] : \E i \in DOMAIN c.perms : todo[s][j] = c.perms[i]
  BY <1>1 DEF SeedInv, ReplicaOK, TodoOK
<1>3. p = todo[s][1] /\ p \in PermEntry /\ 1 \in DOMAIN todo[s]
  BY <1>1, <1>2
<1>4. PICK k \in DOMAIN c.perms : p = c.perms[k]
  BY <1>2, <1>3
<1>5. /\ c.perms \in Seq(PermEntry) /\ DOMAIN c.perms = 1..Len(c.perms)
      /\ \A i, j \in DOMAIN c.perms : c.perms[i].name = c.perms[j].name => i = j
  <2>1. c \in Catalogs /\ \A i, j \in DOMAIN c.perms : c.perms[i].name = c.perms[j].name => i = j
    BY DEF SeedInv, SeedTyped, Compatible
  <2>2. c.perms \in Seq(PermEntry)
    BY <2>1 DEF Catalogs, PermEntry
  <2> HIDE DEF c
  <2> QED BY <2>1, <2>2
<1>6. PermKey(p.name) \in SeedKeys /\ record \in TableRow
  BY <1>3 DEF PermKey, SeedKeys, PermEntry, TableRow
<1>7. /\ keys'[s] = keys[s] \cup {PermKey(p.name)} /\ keys'[s] \in SUBSET SeedKeys
      /\ \A o \in Replicas \ {s} : keys'[s] \cap keys[o] = {}
  BY <1>1, <1>6, SeedLocks
<1>8. own[s] \in OwnTyped /\ DOMAIN own[s].perm = PermNames
  BY DEF SeedInv, SeedTyped, OwnTyped, PermTable
<1>9. /\ own'[s] \in OwnTyped /\ own'[s].role = own[s].role /\ own'[s].rows = own[s].rows
      /\ own'[s].perm[p.name] = record /\ \A n \in PermNames \ {p.name} : own'[s].perm[n] = own[s].perm[n]
  BY <1>1, <1>3, <1>6, <1>8 DEF OwnTyped, PermEntry, PermTable
<1>10. /\ todo'[s] \in Seq(PermEntry) /\ \A j \in DOMAIN todo'[s] : j + 1 \in DOMAIN todo[s]
                                                                        /\ todo'[s][j] = todo[s][j+1]
       /\ \A j \in DOMAIN todo[s] : j # 1 => j - 1 \in DOMAIN todo'[s]
  BY <1>1, <1>2
<1>11. TodoOK(s)'
  BY <1>1, <1>2, <1>10 DEF TodoOK, SeedTables
<1>12. PermsOK(s)'
  <2> SUFFICES ASSUME NEW i \in DOMAIN c.perms
               PROVE  \/ \E j \in DOMAIN todo'[s] : todo'[s][j] = c.perms[i]
                      \/ /\ own'[s].perm[c.perms[i].name]
                              = [domain |-> c.perms[i].domain, live |-> c.perms[i].live]
                         /\ PermKey(c.perms[i].name) \in keys'[s]
    BY <1>1 DEF PermsOK, SeedTables
  <2>1. CASE i = k
    BY <2>1, <1>4, <1>7, <1>9
  <2>2. CASE i # k
    <3>1. c.perms[i].name # p.name /\ c.perms[i].name \in PermNames /\ c.perms[i] # p
      <4>1. c.perms[i] \in PermEntry /\ c.perms[i].name # c.perms[k].name
        BY <2>2, <1>5
      <4> QED BY <4>1, <1>4 DEF PermEntry
    <3>2. \/ \E j \in DOMAIN todo[s] : todo[s][j] = c.perms[i]
          \/ /\ own[s].perm[c.perms[i].name] = [domain |-> c.perms[i].domain, live |-> c.perms[i].live]
             /\ PermKey(c.perms[i].name) \in keys[s]
      BY <1>1 DEF SeedInv, ReplicaOK, PermsOK, Open
    <3>3. ASSUME NEW j \in DOMAIN todo[s], todo[s][j] = c.perms[i]
          PROVE  \E h \in DOMAIN todo'[s] : todo'[s][h] = c.perms[i]
      <4>1. j # 1
        BY <3>1, <3>3, <1>3
      <4>2. j \in Nat /\ (j - 1) + 1 = j
        BY <1>2
      <4> QED BY <4>1, <4>2, <3>3, <1>10
    <3> QED BY <3>1, <3>2, <3>3, <1>7, <1>9
  <2> QED BY <2>1, <2>2
<1>13. HoldsFirst(s)'
  <2>1. PermKey(c.perms[1].name) \in keys'[s]
    <3>1. CASE PermKey(c.perms[1].name) \in keys[s]
      BY <3>1, <1>7
    <3>2. CASE todo[s] = c.perms
      BY <3>2, <1>3, <1>7
    <3> QED BY <3>1, <3>2, <1>1 DEF SeedInv, ReplicaOK, HoldsFirst, Open
  <2> QED BY <2>1, <1>1 DEF HoldsFirst, Open, SeedTables
<1>14. UnlistedOK(s)'
  <2>1. p.name \in CatalogNames(c)
    BY <1>4 DEF CatalogNames
  <2>2. \A n \in PermNames \ CatalogNames(c) : own[s].perm[n] = Absent
    BY <1>1 DEF SeedInv, ReplicaOK, UnlistedOK
  <2> QED BY <2>1, <2>2, <1>1, <1>9 DEF UnlistedOK, Past, SeedTables
<1>15. RolesOK(s)'
  BY <1>1 DEF RolesOK
<1>16. DelistedOK(s)'
  BY <1>1, <1>9 DEF SeedInv, ReplicaOK, DelistedOK, SeedTables
<1>17. RowsOK(s)'
  <2>1. record # Absent
    BY <1>6, SeedAssumption
  <2>2. RowsOK(s) /\ own[s].rows \subseteq RoleNames \X PermNames
    BY <1>8 DEF SeedInv, ReplicaOK, OwnTyped
  <2> QED BY <2>1, <2>2, <1>1, <1>9 DEF RowsOK, SeedTables
<1> HIDE DEF p, record, c
<1> QED BY <1>1, <1>7, <1>9, <1>11, <1>12, <1>13, <1>14, <1>15, <1>16, <1>17, SeedFrame DEF ReplicaOK, Phases

LEMMA SeedSweeps == ASSUME SeedInv, NEW s \in Replicas, SweepPermissions(s) PROVE SeedInv'
<1>1. /\ phase[s] = "perms" /\ todo[s] = <<>> /\ phase'[s] = "unlist"
      /\ todo'[s] = {n \in PermNames \ CatalogNames(release[s]) : perm[n] # Absent}
      /\ SeedMoves(s) /\ UNCHANGED SeedTables /\ own' = own /\ keys' = keys
  BY DEF SeedInv, SeedTyped, SeedTypeOK, SweepPermissions, Enter, SeedMoves, SeedTables, tables
<1>2. ReplicaOK(s) /\ release' = release /\ perm' = perm /\ role' = role /\ rows' = rows
  BY <1>1 DEF SeedInv, SeedTables
<1>3. TodoOK(s)' /\ PermsOK(s)' /\ RolesOK(s)'
  BY <1>1, <1>2 DEF ReplicaOK, TodoOK, PermsOK, RolesOK, Open
<1>4. HoldsFirst(s)'
  <2>1. release[s].perms # <<>>
    BY DEF SeedInv, SeedTyped, Compatible, CatalogNames
  <2> QED BY <2>1, <1>1, <1>2 DEF ReplicaOK, HoldsFirst, Open
<1>5. UnlistedOK(s)' /\ DelistedOK(s)' /\ RowsOK(s)'
  BY <1>1, <1>2 DEF ReplicaOK, UnlistedOK, DelistedOK, RowsOK, Handled, Open, Past
<1>6. own'[s] \in OwnTyped /\ keys'[s] \in SUBSET SeedKeys
      /\ \A o \in Replicas \ {s} : keys'[s] \cap keys[o] = {}
  BY <1>1 DEF SeedInv, SeedTyped, OwnTyped, Exclusive
<1> QED BY <1>1, <1>3, <1>4, <1>5, <1>6, SeedFrame DEF Phases, ReplicaOK

LEMMA SeedDeactivates ==
  ASSUME SeedInv, NEW s \in Replicas, NEW n \in PermNames, DeactivatePermission(s, n) PROVE SeedInv'
<1> DEFINE off == [perm[n] EXCEPT !.live = FALSE]
<1>1. /\ phase[s] = "unlist" /\ phase'[s] = "unlist" /\ n \in todo[s] /\ todo'[s] = todo[s] \ {n}
      /\ own'[s] = [own[s] EXCEPT !.perm[n] = off] /\ SeedMoves(s) /\ UNCHANGED SeedTables
      /\ Unlocked(s, PermKey(n)) /\ Lock(s, PermKey(n))
  BY DEF SeedInv, SeedTyped, SeedTypeOK, DeactivatePermission, Enter, Lock, SeedMoves, SeedTables, tables
<1>2. ReplicaOK(s) /\ release' = release /\ perm' = perm /\ role' = role /\ rows' = rows
  BY <1>1 DEF SeedInv, SeedTables
<1>3. todo[s] \subseteq {m \in PermNames \ CatalogNames(release[s]) : perm[m] # Absent}
  BY <1>1, <1>2 DEF ReplicaOK, TodoOK
<1>4. off \in TableRow /\ off.live = FALSE /\ off # Absent
  <2>1. perm[n] \in TableRow
    BY <1>1, <1>3 DEF SeedInv, SeedTyped, SeedTypeOK
  <2>2. off \in TableRow /\ off.live = FALSE
    BY <2>1 DEF TableRow
  <2> QED BY <2>2, SeedAssumption
<1>5. PermKey(n) \in SeedKeys
  BY DEF PermKey, SeedKeys
<1>6. /\ keys'[s] = keys[s] \cup {PermKey(n)} /\ keys'[s] \in SUBSET SeedKeys
      /\ \A o \in Replicas \ {s} : keys'[s] \cap keys[o] = {}
  BY <1>1, <1>5, SeedLocks
<1>7. own[s] \in OwnTyped /\ DOMAIN own[s].perm = PermNames
  BY DEF SeedInv, SeedTyped, OwnTyped, PermTable
<1> HIDE DEF off
<1>8. /\ own'[s] \in OwnTyped /\ own'[s].role = own[s].role /\ own'[s].rows = own[s].rows
      /\ own'[s].perm[n] = off /\ \A m \in PermNames \ {n} : own'[s].perm[m] = own[s].perm[m]
  BY <1>1, <1>4, <1>7 DEF OwnTyped, PermTable
<1>9. TodoOK(s)' /\ HoldsFirst(s)' /\ RolesOK(s)'
  BY <1>1, <1>2, <1>3, <1>6 DEF ReplicaOK, TodoOK, HoldsFirst, RolesOK, Open
<1>10. PermsOK(s)'
  <2>1. \A i \in DOMAIN release[s].perms : release[s].perms[i].name # n
    BY <1>1, <1>3 DEF CatalogNames
  <2>2. \A i \in DOMAIN release[s].perms : release[s].perms[i].name \in PermNames
    BY SeedCatalog DEF PermEntry
  <2> QED BY <2>1, <2>2, <1>1, <1>2, <1>6, <1>8 DEF ReplicaOK, PermsOK, Open
<1>11. UnlistedOK(s)'
  BY <1>1, <1>2, <1>4, <1>8 DEF ReplicaOK, UnlistedOK, Handled, Past, Open
<1>12. DelistedOK(s)'
  BY <1>1, <1>2, <1>8 DEF ReplicaOK, DelistedOK, Open
<1>13. RowsOK(s)'
  BY <1>2, <1>4, <1>7, <1>8 DEF ReplicaOK, RowsOK, OwnTyped
<1> QED BY <1>1, <1>6, <1>8, <1>9, <1>10, <1>11, <1>12, <1>13, SeedFrame DEF ReplicaOK, Phases

LEMMA SeedBeginsRoles == ASSUME SeedInv, NEW s \in Replicas, BeginRoles(s) PROVE SeedInv'
<1>1. /\ phase[s] = "unlist" /\ todo[s] = {} /\ phase'[s] = "roles" /\ todo'[s] = release[s].roles
      /\ SeedMoves(s) /\ UNCHANGED SeedTables /\ own' = own /\ keys' = keys
  BY DEF SeedInv, SeedTyped, SeedTypeOK, BeginRoles, Enter, SeedMoves, SeedTables, tables
<1>2. ReplicaOK(s) /\ release' = release /\ perm' = perm /\ role' = role /\ rows' = rows
  BY <1>1 DEF SeedInv, SeedTables
<1>3. release[s].roles \in Seq(RoleEntry)
  BY DEF SeedInv, SeedTyped, Compatible, Catalogs, RoleEntry
<1>4. TodoOK(s)' /\ RolesOK(s)'
  BY <1>1, <1>2, <1>3 DEF TodoOK, RolesOK, RoleEntries
<1>5. HoldsFirst(s)' /\ PermsOK(s)'
  BY <1>1, <1>2 DEF ReplicaOK, HoldsFirst, PermsOK, Open
<1>6. UnlistedOK(s)' /\ DelistedOK(s)' /\ RowsOK(s)'
  BY <1>1, <1>2 DEF ReplicaOK, UnlistedOK, DelistedOK, RowsOK, Handled, Open, Past
<1>7. own'[s] \in OwnTyped /\ keys'[s] \in SUBSET SeedKeys
      /\ \A o \in Replicas \ {s} : keys'[s] \cap keys[o] = {}
  BY <1>1 DEF SeedInv, SeedTyped, OwnTyped, Exclusive
<1> QED BY <1>1, <1>4, <1>5, <1>6, <1>7, SeedFrame DEF Phases, ReplicaOK

LEMMA SeedUpsertsRole == ASSUME SeedInv, NEW s \in Replicas, UpsertRole(s) PROVE SeedInv'
<1> DEFINE r == Head(todo[s])
           on == [domain |-> IF role[r.name] = Absent THEN r.domain ELSE role[r.name].domain, live |-> TRUE]
<1>1. /\ phase[s] = "roles" /\ phase'[s] = "bundle" /\ todo[s] # <<>> /\ todo'[s] = todo[s]
      /\ own'[s] = [own[s] EXCEPT !.role[r.name] = on] /\ SeedMoves(s) /\ UNCHANGED SeedTables
      /\ Unlocked(s, RoleKey(r.name)) /\ Lock(s, RoleKey(r.name))
  BY DEF SeedInv, SeedTyped, SeedTypeOK, UpsertRole, Enter, Lock, SeedMoves, SeedTables, tables
<1>2. ReplicaOK(s) /\ release' = release /\ perm' = perm /\ role' = role /\ rows' = rows
  BY <1>1 DEF SeedInv, SeedTables
<1>3. todo[s] \in Seq(RoleEntry) /\ \A j \in DOMAIN todo[s] : todo[s][j] \in RoleEntries(release[s])
  BY <1>1, <1>2 DEF ReplicaOK, TodoOK
<1>4. r = todo[s][1] /\ r \in RoleEntry /\ r \in RoleEntries(release[s])
  BY <1>1, <1>3
<1>5. r.name \in RoleNames /\ r.name \in CatalogRoles(release[s])
  BY <1>4 DEF RoleEntry, CatalogRoles
<1>6. on \in TableRow /\ on.live = TRUE /\ on # Absent
  <2>1. role[r.name] # Absent => role[r.name] \in TableRow
    BY <1>5 DEF SeedInv, SeedTyped, SeedTypeOK
  <2>2. on \in TableRow /\ on.live = TRUE
    BY <2>1, <1>4 DEF TableRow, RoleEntry
  <2> QED BY <2>2, SeedAssumption
<1>7. RoleKey(r.name) \in SeedKeys
  BY <1>5 DEF RoleKey, SeedKeys
<1>8. /\ keys'[s] = keys[s] \cup {RoleKey(r.name)} /\ keys'[s] \in SUBSET SeedKeys
      /\ \A o \in Replicas \ {s} : keys'[s] \cap keys[o] = {}
  BY <1>1, <1>7, SeedLocks
<1>9. own[s] \in OwnTyped /\ DOMAIN own[s].role = RoleNames
  BY DEF SeedInv, SeedTyped, OwnTyped, RoleTable
<1> HIDE DEF on
<1>10. /\ own'[s] \in OwnTyped /\ own'[s].perm = own[s].perm /\ own'[s].rows = own[s].rows
       /\ own'[s].role[r.name] = on /\ \A m \in RoleNames \ {r.name} : own'[s].role[m] = own[s].role[m]
  BY <1>1, <1>5, <1>6, <1>9 DEF OwnTyped, RoleTable
<1> HIDE DEF r
<1>11. TodoOK(s)' /\ HoldsFirst(s)' /\ PermsOK(s)'
  BY <1>1, <1>2, <1>3, <1>8, <1>10 DEF ReplicaOK, TodoOK, HoldsFirst, PermsOK, Open
<1>12. UnlistedOK(s)'
  BY <1>1, <1>2, <1>10 DEF ReplicaOK, UnlistedOK, Handled, Past, Open
<1>13. RolesOK(s)'
  <2>1. \A e \in RoleEntries(release[s]) : (\E j \in DOMAIN todo[s] : todo[s][j] = e) \/ Seeded(s, e)
    BY <1>1, <1>2 DEF ReplicaOK, RolesOK
  <2>2. \A e \in RoleEntries(release[s]) : e.name \in RoleNames
    BY SeedCatalog DEF RoleEntry, RoleEntries
  <2>3. \A e \in RoleEntries(release[s]) : Seeded(s, e) => Seeded(s, e)'
    BY <2>2, <1>2, <1>6, <1>10 DEF Seeded, SeesRow
  <2> QED BY <2>1, <2>3, <1>1, <1>2, <1>4, <1>6, <1>10 DEF RolesOK
<1>14. DelistedOK(s)'
  BY <1>1, <1>2, <1>5, <1>10 DEF ReplicaOK, DelistedOK, Open
<1>15. RowsOK(s)'
  BY <1>2, <1>6, <1>9, <1>10 DEF ReplicaOK, RowsOK, OwnTyped
<1> QED BY <1>1, <1>8, <1>10, <1>11, <1>12, <1>13, <1>14, <1>15, SeedFrame DEF ReplicaOK, Phases

LEMMA SeedInsertsRow ==
  ASSUME SeedInv, NEW s \in Replicas, NEW p \in PermNames, InsertBundleRow(s, p) PROVE SeedInv'
<1> DEFINE r == Head(todo[s])
           rp == <<r.name, p>>
<1>1. CASE Rollback(s)
  BY <1>1, SeedRollsBack
<1>2. CASE Sees(s, "perm", p) # Absent
  <2>1. /\ phase[s] = "bundle" /\ phase' = phase /\ todo' = todo
        /\ own'[s] = [own[s] EXCEPT !.rows = @ \cup {rp}]
        /\ SeedMoves(s) /\ UNCHANGED SeedTables /\ Unlocked(s, rp) /\ Lock(s, rp)
    BY <1>2 DEF SeedInv, SeedTyped, SeedTypeOK, InsertBundleRow, Lock, SeedMoves, SeedTables, tables
  <2>2. ReplicaOK(s) /\ release' = release /\ perm' = perm /\ role' = role /\ rows' = rows
    BY <2>1 DEF SeedInv, SeedTables
  <2>3. r = todo[s][1] /\ r \in RoleEntry
    BY <2>1, <2>2 DEF ReplicaOK, TodoOK
  <2>4. rp \in RoleNames \X PermNames /\ rp \in SeedKeys
    BY <2>3 DEF RoleEntry, SeedKeys
  <2>5. keys[s] \subseteq keys'[s] /\ keys'[s] \in SUBSET SeedKeys
        /\ \A o \in Replicas \ {s} : keys'[s] \cap keys[o] = {}
    BY <2>1, <2>4, SeedLocks
  <2>6. own[s] \in OwnTyped
    BY DEF SeedInv, SeedTyped, OwnTyped
  <2>7. /\ own'[s] \in OwnTyped /\ own'[s].perm = own[s].perm /\ own'[s].role = own[s].role
        /\ own'[s].rows = own[s].rows \cup {rp}
    BY <2>1, <2>4, <2>6 DEF OwnTyped
  <2>8. TodoOK(s)' /\ HoldsFirst(s)' /\ PermsOK(s)'
    BY <2>1, <2>2, <2>5, <2>7 DEF ReplicaOK, TodoOK, HoldsFirst, PermsOK, Open
  <2>9. UnlistedOK(s)' /\ DelistedOK(s)'
    BY <2>1, <2>2, <2>7 DEF ReplicaOK, UnlistedOK, DelistedOK, Handled, Past, Open
  <2>10. RolesOK(s)'
    BY <2>1, <2>2, <2>7 DEF ReplicaOK, RolesOK, Seeded, SeesRow
  <2>11. RowsOK(s)'
    <3>1. own[s].role[r.name] # Absent
      BY <2>1, <2>2, <2>3 DEF ReplicaOK, RolesOK
    <3>2. own[s].perm[p] # Absent \/ perm[p] # Absent
      BY <1>2 DEF Sees
    <3> QED BY <3>1, <3>2, <2>2, <2>7 DEF ReplicaOK, RowsOK
  <2> QED BY <2>1, <2>5, <2>7, <2>8, <2>9, <2>10, <2>11, SeedFrame
         DEF ReplicaOK, SeedInv, SeedTyped, SeedTypeOK
<1> QED BY <1>1, <1>2 DEF InsertBundleRow

LEMMA SeedNextRole == ASSUME SeedInv, NEW s \in Replicas, NextRole(s) PROVE SeedInv'
<1> DEFINE r == Head(todo[s])
<1>1. /\ phase[s] = "bundle" /\ Missing(s) = {} /\ phase'[s] = "roles" /\ todo'[s] = Tail(todo[s])
      /\ SeedMoves(s) /\ UNCHANGED SeedTables /\ own' = own /\ keys' = keys
  BY DEF SeedInv, SeedTyped, SeedTypeOK, NextRole, Enter, SeedMoves, SeedTables, tables
<1>2. ReplicaOK(s) /\ release' = release /\ perm' = perm /\ role' = role /\ rows' = rows
  BY <1>1 DEF SeedInv, SeedTables
<1>3. /\ todo[s] \in Seq(RoleEntry) /\ todo[s] # <<>>
      /\ \A j \in DOMAIN todo[s] : todo[s][j] \in RoleEntries(release[s])
  BY <1>1, <1>2 DEF ReplicaOK, TodoOK
<1>4. /\ r = todo[s][1] /\ todo'[s] \in Seq(RoleEntry)
      /\ \A j \in DOMAIN todo'[s] : j + 1 \in DOMAIN todo[s] /\ todo'[s][j] = todo[s][j+1]
      /\ \A j \in DOMAIN todo[s] : j # 1 => j - 1 \in DOMAIN todo'[s] /\ todo'[s][j-1] = todo[s][j]
  BY <1>1, <1>3
<1>5. TodoOK(s)'
  BY <1>1, <1>2, <1>3, <1>4 DEF TodoOK
<1>6. RolesOK(s)'
  <2>1. Seeded(s, r)
    <3>1. own[s].role[r.name] # Absent /\ own[s].role[r.name].live = TRUE
      BY <1>1, <1>2, <1>4 DEF ReplicaOK, RolesOK
    <3>2. \A p \in r.bundle : SeesRow(s, <<r.name, p>>)
      BY <1>1 DEF Missing
    <3> QED BY <3>1, <3>2 DEF Seeded
  <2>2. \A e \in RoleEntries(release[s]) : (\E j \in DOMAIN todo[s] : todo[s][j] = e) \/ Seeded(s, e)
    BY <1>1, <1>2 DEF ReplicaOK, RolesOK
  <2>3. \A e \in RoleEntries(release[s]) : Seeded(s, e) => Seeded(s, e)'
    BY <1>1, <1>2 DEF Seeded, SeesRow
  <2>4. \A e \in RoleEntries(release[s]) :
           (\E j \in DOMAIN todo'[s] : todo'[s][j] = e) \/ Seeded(s, e)'
    BY <2>1, <2>2, <2>3, <1>4
  <2> QED BY <2>4, <1>1, <1>2 DEF RolesOK
<1>7. HoldsFirst(s)' /\ PermsOK(s)'
  BY <1>1, <1>2 DEF ReplicaOK, HoldsFirst, PermsOK, Open
<1>8. UnlistedOK(s)' /\ DelistedOK(s)' /\ RowsOK(s)'
  BY <1>1, <1>2 DEF ReplicaOK, UnlistedOK, DelistedOK, RowsOK, Handled, Open, Past
<1>9. own'[s] \in OwnTyped /\ keys'[s] \in SUBSET SeedKeys
      /\ \A o \in Replicas \ {s} : keys'[s] \cap keys[o] = {}
  BY <1>1 DEF SeedInv, SeedTyped, OwnTyped, Exclusive
<1> QED BY <1>1, <1>5, <1>6, <1>7, <1>8, <1>9, SeedFrame DEF Phases, ReplicaOK

LEMMA SeedRetires == ASSUME SeedInv, NEW s \in Replicas, RetireRoles(s) PROVE SeedInv'
<1>1. /\ phase[s] = "roles" /\ todo[s] = <<>> /\ phase'[s] = "delist"
      /\ todo'[s] = {r \in RoleNames \ CatalogRoles(release[s]) : role[r] # Absent}
      /\ SeedMoves(s) /\ UNCHANGED SeedTables /\ own' = own /\ keys' = keys
  BY DEF SeedInv, SeedTyped, SeedTypeOK, RetireRoles, Enter, SeedMoves, SeedTables, tables
<1>2. ReplicaOK(s) /\ release' = release /\ perm' = perm /\ role' = role /\ rows' = rows
  BY <1>1 DEF SeedInv, SeedTables
<1>3. TodoOK(s)' /\ PermsOK(s)' /\ HoldsFirst(s)'
  BY <1>1, <1>2 DEF ReplicaOK, TodoOK, PermsOK, HoldsFirst, Open
<1>4. RolesOK(s)'
  BY <1>1, <1>2 DEF ReplicaOK, RolesOK, Seeded, SeesRow
<1>5. UnlistedOK(s)' /\ DelistedOK(s)' /\ RowsOK(s)'
  BY <1>1, <1>2 DEF ReplicaOK, UnlistedOK, DelistedOK, RowsOK, Handled, Open, Past
<1>6. own'[s] \in OwnTyped /\ keys'[s] \in SUBSET SeedKeys
      /\ \A o \in Replicas \ {s} : keys'[s] \cap keys[o] = {}
  BY <1>1 DEF SeedInv, SeedTyped, OwnTyped, Exclusive
<1> QED BY <1>1, <1>3, <1>4, <1>5, <1>6, SeedFrame DEF Phases, ReplicaOK

LEMMA SeedDelists ==
  ASSUME SeedInv, NEW s \in Replicas, NEW r \in RoleNames, DeactivateRole(s, r) PROVE SeedInv'
<1> DEFINE off == [role[r] EXCEPT !.live = FALSE]
<1>1. /\ phase[s] = "delist" /\ phase'[s] = "delist" /\ r \in todo[s] /\ todo'[s] = todo[s] \ {r}
      /\ own'[s] = [own[s] EXCEPT !.role[r] = off] /\ SeedMoves(s) /\ UNCHANGED SeedTables
      /\ Unlocked(s, RoleKey(r)) /\ Lock(s, RoleKey(r))
  BY DEF SeedInv, SeedTyped, SeedTypeOK, DeactivateRole, Enter, Lock, SeedMoves, SeedTables, tables
<1>2. ReplicaOK(s) /\ release' = release /\ perm' = perm /\ role' = role /\ rows' = rows
  BY <1>1 DEF SeedInv, SeedTables
<1>3. todo[s] \subseteq {m \in RoleNames \ CatalogRoles(release[s]) : role[m] # Absent}
  BY <1>1, <1>2 DEF ReplicaOK, TodoOK
<1>4. off \in TableRow /\ off.live = FALSE /\ off # Absent
  <2>1. role[r] \in TableRow
    BY <1>1, <1>3 DEF SeedInv, SeedTyped, SeedTypeOK
  <2>2. off \in TableRow /\ off.live = FALSE
    BY <2>1 DEF TableRow
  <2> QED BY <2>2, SeedAssumption
<1>5. RoleKey(r) \in SeedKeys
  BY DEF RoleKey, SeedKeys
<1>6. /\ keys'[s] = keys[s] \cup {RoleKey(r)} /\ keys'[s] \in SUBSET SeedKeys
      /\ \A o \in Replicas \ {s} : keys'[s] \cap keys[o] = {}
  BY <1>1, <1>5, SeedLocks
<1>7. own[s] \in OwnTyped /\ DOMAIN own[s].role = RoleNames
  BY DEF SeedInv, SeedTyped, OwnTyped, RoleTable
<1> HIDE DEF off
<1>8. /\ own'[s] \in OwnTyped /\ own'[s].perm = own[s].perm /\ own'[s].rows = own[s].rows
      /\ own'[s].role[r] = off /\ \A m \in RoleNames \ {r} : own'[s].role[m] = own[s].role[m]
  BY <1>1, <1>4, <1>7 DEF OwnTyped, RoleTable
<1>9. TodoOK(s)' /\ HoldsFirst(s)' /\ PermsOK(s)'
  BY <1>1, <1>2, <1>3, <1>6, <1>8 DEF ReplicaOK, TodoOK, HoldsFirst, PermsOK, Open
<1>10. UnlistedOK(s)'
  BY <1>1, <1>2, <1>8 DEF ReplicaOK, UnlistedOK, Handled, Past, Open
<1>11. RolesOK(s)'
  <2>1. \A e \in RoleEntries(release[s]) : Seeded(s, e)
    BY <1>1, <1>2 DEF ReplicaOK, RolesOK
  <2>2. \A e \in RoleEntries(release[s]) : e.name \in RoleNames /\ e.name # r
    BY <1>1, <1>3, SeedCatalog DEF RoleEntry, RoleEntries, CatalogRoles
  <2>3. \A e \in RoleEntries(release[s]) : Seeded(s, e)'
    BY <2>1, <2>2, <1>2, <1>8 DEF Seeded, SeesRow
  <2> QED BY <2>3, <1>1, <1>2 DEF RolesOK
<1>12. DelistedOK(s)'
  BY <1>1, <1>2, <1>4, <1>8 DEF ReplicaOK, DelistedOK, Handled, Open
<1>13. RowsOK(s)'
  BY <1>2, <1>4, <1>7, <1>8 DEF ReplicaOK, RowsOK, OwnTyped
<1> QED BY <1>1, <1>6, <1>8, <1>9, <1>10, <1>11, <1>12, <1>13, SeedFrame DEF ReplicaOK, Phases

LEMMA SeedBeginsReconcile == ASSUME SeedInv, NEW s \in Replicas, BeginReconcile(s) PROVE SeedInv'
<1>1. /\ phase[s] = "delist" /\ todo[s] = {} /\ phase'[s] = "reconcile"
      /\ SeedMoves(s) /\ UNCHANGED SeedTables /\ own' = own /\ keys' = keys
  BY DEF SeedInv, SeedTyped, SeedTypeOK, BeginReconcile, Enter, SeedMoves, SeedTables, tables
<1>2. ReplicaOK(s) /\ release' = release /\ perm' = perm /\ role' = role /\ rows' = rows
  BY <1>1 DEF SeedInv, SeedTables
<1>3. TodoOK(s)' /\ PermsOK(s)' /\ HoldsFirst(s)'
  BY <1>1, <1>2 DEF ReplicaOK, TodoOK, PermsOK, HoldsFirst, Open
<1>4. RolesOK(s)'
  BY <1>1, <1>2 DEF ReplicaOK, RolesOK, Seeded, SeesRow
<1>5. UnlistedOK(s)' /\ DelistedOK(s)' /\ RowsOK(s)'
  BY <1>1, <1>2 DEF ReplicaOK, UnlistedOK, DelistedOK, RowsOK, Handled, Open, Past
<1>6. own'[s] \in OwnTyped /\ keys'[s] \in SUBSET SeedKeys
      /\ \A o \in Replicas \ {s} : keys'[s] \cap keys[o] = {}
  BY <1>1 DEF SeedInv, SeedTyped, OwnTyped, Exclusive
<1> QED BY <1>1, <1>3, <1>4, <1>5, <1>6, SeedFrame DEF Phases, ReplicaOK

\* From its snapshot to its commit a replica is alone: it holds the permission
\* its catalog has in common with anyone's.
LEMMA SeedsAlone == ASSUME SeedInv, NEW s \in Replicas, NEW o \in Replicas,
                phase[s] \in Past, phase[o] \in Past
                    PROVE  s = o
<1>1. \A n \in CatalogNames(release[s]) : PermKey(n) \in keys[s]
  BY DEF SeedInv, ReplicaOK, PermsOK, CatalogNames, Past, Open
<1>2. \A n \in CatalogNames(release[o]) : PermKey(n) \in keys[o]
  BY DEF SeedInv, ReplicaOK, PermsOK, CatalogNames, Past, Open
<1>3. PICK n : n \in CatalogNames(release[s]) /\ n \in CatalogNames(release[o])
  BY DEF SeedInv, SeedTyped, Compatible
<1> QED BY <1>1, <1>2, <1>3 DEF SeedInv, Exclusive

LEMMA SeedCommits == ASSUME SeedInv, NEW s \in Replicas, Reconcile(s) PROVE SeedInv'
<1> DEFINE c == release[s]
<1>1. CASE Rollback(s)
  BY <1>1, SeedRollsBack
<1>2. CASE ~Rollback(s)
  <2>1. /\ phase[s] = "reconcile" /\ phase' = [phase EXCEPT ![s] = "seeded"]
        /\ phase'[s] = "seeded" /\ DOMAIN todo' = Replicas
        /\ own' = [own EXCEPT ![s] = Nothing] /\ keys' = [keys EXCEPT ![s] = {}]
        /\ perm' = Merge(own[s].perm, perm) /\ role' = Merge(own[s].role, role)
        /\ rows' = rows \cup own[s].rows /\ last' = s /\ release' = release
        /\ \A o \in Replicas \ {s} : /\ phase'[o] = phase[o] /\ todo'[o] = todo[o]
                                     /\ own'[o] = own[o] /\ keys'[o] = keys[o]
        /\ own'[s] = Nothing /\ keys'[s] = {}
    BY <1>2 DEF SeedInv, SeedTyped, SeedTypeOK, Reconcile, Enter
  <2>2. \A r \in RoleEntries(c) : \A p \in r.bundle : Sound(s, r, p)
    BY <1>2 DEF Reconcile
  <2>3. ReplicaOK(s) /\ own[s] \in OwnTyped /\ perm \in PermTable /\ role \in RoleTable
    BY DEF SeedInv, SeedTyped, SeedTypeOK, OwnTyped, PermTable, RoleTable
  <2>4. \A n \in PermNames : perm'[n] = IF own[s].perm[n] # Absent THEN own[s].perm[n] ELSE perm[n]
    BY <2>1, <2>3 DEF Merge, PermTable
  <2>5. \A r \in RoleNames : role'[r] = IF own[s].role[r] # Absent THEN own[s].role[r] ELSE role[r]
    BY <2>1, <2>3 DEF Merge, RoleTable
  <2>6. perm' \in PermTable /\ role' \in RoleTable /\ rows' \subseteq RoleNames \X PermNames
    BY <2>1, <2>3 DEF Merge, PermTable, RoleTable, OwnTyped, SeedInv, SeedTyped, SeedTypeOK
  <2>7. \A rp \in rows' : perm'[rp[2]] # Absent /\ role'[rp[1]] # Absent
    <3>1. \A rp \in rows : perm[rp[2]] # Absent /\ role[rp[1]] # Absent
      BY DEF SeedInv, SeedTyped, SeedTypeOK
    <3>2. \A rp \in own[s].rows : own[s].role[rp[1]] # Absent
          /\ (own[s].perm[rp[2]] # Absent \/ perm[rp[2]] # Absent)
      BY <2>3 DEF ReplicaOK, RowsOK
    <3>3. \A rp \in rows' : rp[1] \in RoleNames /\ rp[2] \in PermNames
      BY <2>6
    <3> QED BY <3>1, <3>2, <3>3, <2>1, <2>4, <2>5
  <2>8. Nothing \in OwnTyped /\ Nothing.rows = {}
    BY DEF Nothing, OwnTyped, PermTable, RoleTable
  <2>9. SeedTyped'
    <3>1. phase' \in [Replicas -> Phases] /\ last' \in Replicas \cup {Absent}
      BY <2>1 DEF SeedInv, SeedTyped, SeedTypeOK, Phases
    <3>2. SeedTypeOK'
      BY <3>1, <2>6, <2>7 DEF SeedTypeOK, PermTable, RoleTable
    <3>3. own' \in [Replicas -> OwnTyped] /\ keys' \in [Replicas -> SUBSET SeedKeys]
      BY <2>1, <2>8 DEF SeedInv, SeedTyped, OwnTyped
    <3>4. Compatible(release)'
      BY <2>1 DEF SeedInv, SeedTyped, Compatible
    <3> QED BY <3>2, <3>3, <3>4, <2>1 DEF SeedTyped, OwnTyped
  <2>10. Exclusive'
    BY <2>1 DEF SeedInv, SeedTyped, Exclusive
  <2>11. \A n \in PermNames : (perm'[n] # Absent /\ perm'[n].live)
                              <=> \E i \in DOMAIN c.perms : c.perms[i].live /\ c.perms[i].name = n
    <3> SUFFICES ASSUME NEW n \in PermNames
                 PROVE  (perm'[n] # Absent /\ perm'[n].live)
                        <=> \E i \in DOMAIN c.perms : c.perms[i].live /\ c.perms[i].name = n
      OBVIOUS
    <3>1. CASE n \in CatalogNames(c)
      <4>1. PICK i \in DOMAIN c.perms : c.perms[i].name = n
        BY <3>1 DEF CatalogNames
      <4>2. own[s].perm[n] = [domain |-> c.perms[i].domain, live |-> c.perms[i].live]
        BY <4>1, <2>1, <2>3 DEF ReplicaOK, PermsOK, Open
      <4>3. own[s].perm[n] \in TableRow
        BY <4>2, SeedCatalog DEF PermEntry, TableRow
      <4>4. perm'[n] # Absent /\ (perm'[n].live <=> c.perms[i].live)
        BY <4>2, <4>3, <2>4, SeedAssumption
      <4>5. \A j \in DOMAIN c.perms : c.perms[j].name = n => j = i
        BY <4>1 DEF SeedInv, SeedTyped, Compatible
      <4> QED BY <4>1, <4>4, <4>5
    <3>2. CASE n \notin CatalogNames(c)
      <4>1. Handled(own[s].perm[n], perm[n], FALSE)
        BY <3>2, <2>1, <2>3 DEF ReplicaOK, UnlistedOK, Past, Open, Handled
      <4>2. ~(perm'[n] # Absent /\ perm'[n].live)
        BY <4>1, <2>4 DEF Handled
      <4> QED BY <4>2, <3>2 DEF CatalogNames
    <3> QED BY <3>1, <3>2
  <2>12. \A e \in RoleEntries(c) : Seeded(s, e) /\ e.name \in RoleNames
    BY <2>1, <2>3, SeedCatalog DEF ReplicaOK, RolesOK, RoleEntries, RoleEntry
  <2>13. \A r \in RoleNames : (role'[r] # Absent /\ role'[r].live) <=> r \in CatalogRoles(c)
    <3> SUFFICES ASSUME NEW r \in RoleNames
                 PROVE  (role'[r] # Absent /\ role'[r].live) <=> r \in CatalogRoles(c)
      OBVIOUS
    <3>1. CASE r \in CatalogRoles(c)
      BY <3>1, <2>5, <2>12 DEF CatalogRoles, Seeded
    <3>2. CASE r \notin CatalogRoles(c)
      <4>1. Handled(own[s].role[r], role[r], FALSE)
        BY <3>2, <2>1, <2>3 DEF ReplicaOK, DelistedOK, Open, Handled
      <4> QED BY <4>1, <3>2, <2>5 DEF Handled
    <3> QED BY <3>1, <3>2
  <2>14. \A e \in RoleEntries(c) : {e.name} \X e.bundle \subseteq rows'
    BY <2>1, <2>12 DEF Seeded, SeesRow
  <2>15. LastSeedWins'
    <3>1. {n \in PermNames : perm'[n] # Absent /\ perm'[n].live}
            = {p.name : p \in {c.perms[i] : i \in {j \in DOMAIN c.perms : c.perms[j].live}}}
      <4>1. \A i \in DOMAIN c.perms : c.perms[i].name \in PermNames
        BY SeedCatalog DEF PermEntry
      <4> QED BY <4>1, <2>11
    <3>2. {r \in RoleNames : role'[r] # Absent /\ role'[r].live} = CatalogRoles(c)
      BY <2>12, <2>13 DEF CatalogRoles
    <3> QED BY <3>1, <3>2, <2>1, <2>14 DEF LastSeedWins, CatalogNames, CatalogRoles, RoleEntries
  <2>16. BundlesInForce'
    <3> SUFFICES ASSUME NEW r \in RoleEntries(c), NEW p \in PermNames, p \in r.bundle
                 PROVE  perm'[p] # Absent /\ perm'[p].live /\ perm'[p].domain = r.domain
      BY <2>1 DEF BundlesInForce, RoleEntries
    <3>1. Sound(s, r, p)
      BY <2>2
    <3> QED BY <3>1, <2>4 DEF Sound, Sees
  <2>17. ASSUME NEW o \in Replicas PROVE ReplicaOK(o)'
    <3>1. CASE o = s
      BY <3>1, <2>1, <2>8 DEF ReplicaOK, TodoOK, HoldsFirst, PermsOK, UnlistedOK, RolesOK, DelistedOK, RowsOK,
                              Open, Past
    <3>2. CASE o # s
      <4>1. phase'[o] = phase[o] /\ todo'[o] = todo[o] /\ own'[o] = own[o] /\ keys'[o] = keys[o]
        BY <3>2, <2>1
      <4>2. phase[o] \notin Past /\ ReplicaOK(o)
        BY <3>2, <2>1, SeedsAlone DEF SeedInv, Past, Open
      <4>3. TodoOK(o)' /\ HoldsFirst(o)' /\ PermsOK(o)'
        BY <4>1, <4>2, <2>1 DEF ReplicaOK, TodoOK, HoldsFirst, PermsOK, Past, Open
      <4>4. UnlistedOK(o)' /\ RolesOK(o)' /\ DelistedOK(o)'
        BY <4>1, <4>2, <2>1 DEF ReplicaOK, UnlistedOK, RolesOK, DelistedOK, Past, Open
      <4>5. RowsOK(o)'
        <5>1. \A rp \in own[o].rows : rp[2] \in PermNames
          BY DEF SeedInv, SeedTyped
        <5> QED BY <5>1, <4>1, <4>2, <2>4 DEF ReplicaOK, RowsOK
      <4> QED BY <4>3, <4>4, <4>5 DEF ReplicaOK
    <3> QED BY <3>1, <3>2
  <2> QED BY <2>9, <2>10, <2>15, <2>16, <2>17 DEF SeedInv
<1> QED BY <1>1, <1>2

LEMMA SeedSteps == SeedInv /\ [SeedNext]_seedVars => SeedInv'
<1> SUFFICES ASSUME SeedInv, [SeedNext]_seedVars PROVE SeedInv'
  OBVIOUS
<1>1. CASE UNCHANGED seedVars
  <2>1. /\ UNCHANGED <<perm, role, rows, release, phase>>
        /\ UNCHANGED <<todo, own, keys, last>>
    BY <1>1 DEF seedVars, tables
  <2>2. SeedTyped' /\ Exclusive' /\ LastSeedWins' /\ BundlesInForce'
    BY <2>1 DEF SeedInv, SeedTyped, SeedTypeOK, Exclusive, LastSeedWins, BundlesInForce
  <2>3. ASSUME NEW s \in Replicas PROVE ReplicaOK(s)'
    <3>1. ReplicaOK(s)
      BY DEF SeedInv
    <3>2. TodoOK(s)' /\ HoldsFirst(s)'
      BY <2>1, <3>1 DEF ReplicaOK, TodoOK, HoldsFirst
    <3>3. PermsOK(s)' /\ UnlistedOK(s)' /\ DelistedOK(s)' /\ RowsOK(s)'
      BY <2>1, <3>1 DEF ReplicaOK, PermsOK, UnlistedOK, DelistedOK, RowsOK
    <3>4. RolesOK(s)'
      BY <2>1, <3>1 DEF ReplicaOK, RolesOK, Seeded, SeesRow
    <3> QED BY <3>2, <3>3, <3>4 DEF ReplicaOK
  <2> QED BY <2>2, <2>3 DEF SeedInv
<1>2. CASE SeedNext
  <2>1. PICK s \in Replicas : SeedAuthz(s) \/ SeedDeadlock(s) \/ Kill(s)
    BY <1>2 DEF SeedNext
  <2>2. CASE SeedDeadlock(s) \/ Kill(s)
    BY <2>2, SeedRollsBack DEF SeedDeadlock, Kill
  <2>3. CASE ShadowGuard(s) \/ SeedPermissions(s) \/ Reconcile(s)
    BY <2>3, SeedShadow, SeedUpserts, SeedSweeps, SeedDeactivates, SeedCommits DEF SeedPermissions
  <2>4. CASE SeedRoles(s)
    BY <2>4, SeedBeginsRoles, SeedUpsertsRole, SeedNextRole, SeedInsertsRow, SeedRetires, SeedBeginsReconcile,
       SeedDelists DEF SeedRoles, SeedRole
  <2> QED BY <2>1, <2>2, <2>3, <2>4 DEF SeedAuthz
<1> QED BY <1>1, <1>2

-----------------------------------------------------------------------------
\* What seed_authz keeps between its statements, for any number of replicas of
\* releases that declare one permission in common.
THEOREM SeedInvariance == SeedSpec => []SeedInv
<1> QED BY SeedInitial, SeedSteps, PTL DEF SeedSpec

\* The tables keep their types and their foreign keys.
THEOREM SeedTypes == SeedSpec => []SeedTypeOK
<1>1. SeedInv => SeedTypeOK
  BY DEF SeedInv, SeedTyped
<1> QED BY <1>1, SeedInvariance, PTL

\* Whatever seeds run side by side and whichever are killed, the flags, the roles
\* and the bundles in force are those of the release that committed last.
THEOREM SeedsTheorem == SeedSpec => []SeedsConverge
<1>1. SeedInv => SeedsConverge
  BY DEF SeedInv, SeedsConverge
<1> QED BY <1>1, SeedInvariance, PTL

\* Replicas of one release never wait for each other in a circle: none holds a
\* row before the catalog's first permission, which only one can hold.
THEOREM NoDeadlockTheorem == SeedSpec => []OneReleaseNeverDeadlocks
<1>1. SeedInv => OneReleaseNeverDeadlocks
  <2> SUFFICES ASSUME SeedInv, \A s, o \in Replicas : release[s] = release[o],
                      NEW S \in SUBSET Replicas, Entangled(S)
               PROVE  FALSE
    BY DEF OneReleaseNeverDeadlocks
  <2>1. \A s \in S : \E o \in S : o # s /\ keys[o] # {}
    BY DEF Entangled, Delays
  <2>2. \A o \in S : keys[o] # {} => PermKey(release[o].perms[1].name) \in keys[o]
    BY DEF SeedInv, ReplicaOK, HoldsFirst
  <2>3. PICK s \in S : keys[s] # {}
    BY <2>1 DEF Entangled
  <2>4. PICK o \in S : o # s /\ keys[o] # {}
    BY <2>1
  <2>5. release[s] = release[o] /\ keys[s] \cap keys[o] = {}
    BY <2>4 DEF SeedInv, Exclusive
  <2> QED BY <2>2, <2>3, <2>4, <2>5
<1> QED BY <1>1, SeedInvariance, PTL
-----------------------------------------------------------------------------
\* Of RouteGuard: the reads in their order.
Begun   == {"user", "tenant", "membership", "roles", "perms", "platform", "factory", "evaluate"}
Within  == {"tenant", "membership", "roles", "perms"}
PastRow == {"membership", "roles", "perms", "platform", "factory", "evaluate"}
Entered == {"roles", "perms", "platform", "factory", "evaluate"}
Granted == {"platform", "factory", "evaluate"}

Granting(scope, n, fs) == Holds(scope, n) \in fs /\ Alive(n) \in fs

\* What a request has been told was so at some moment while it was served.
ToldOK ==
  /\ stop \in Begun => Credential = "live" /\ SessionValid \in before
  /\ stop \in Begun \ {"user"} => AccountEnabled \in before
  /\ stop \in Within => NeedsTenant
  /\ stop \in PastRow /\ NeedsTenant => "tenant_id" \in shape.params /\ TenantActive \in before
  /\ stop \in Entered /\ NeedsTenant => Membership \in before

\* The permits it has collected were granted at some moment, each in its scope.
PermitsOK ==
  /\ stop \notin Granted \cup {"perms", "done"} => permits.tenant = {}
  /\ \A n \in permits.tenant : Holds("tenant", n) \in before
  /\ stop \in Granted => \A n \in permits.tenant : Granting("tenant", n, before)
  /\ \A n \in permits.platform : Granting("platform", n, before)

\* Where it has got to: an answer ends it, and the resolver is the last it asks for.
PlaceOK ==
  /\ status = 0 <=> stop # "done"
  /\ stop \notin {"evaluate", "done"} => grants = "none"
  /\ stop = "evaluate" => grants = Resolver
  /\ stop # "csrf" /\ ~(stop = "done" /\ status = 403 /\ grants = "none") =>
       (shape.mutating /\ Checked => shape.origin \in {"host", "listed"})

\* While nothing has changed, they are all there is.
QuietOK ==
  changes = 0 =>
    /\ before = facts
    /\ stop = "perms" => permits.tenant = Held("tenant")
    /\ stop \in Granted /\ NeedsTenant =>
         permits.tenant = {n \in Names : Granting("tenant", n, facts)}
    /\ stop \in {"factory", "evaluate"} =>
         permits.platform = {n \in Names : Granting("platform", n, facts)}

GuardInv == /\ GuardTypeOK /\ ToldOK /\ PermitsOK /\ PlaceOK /\ QuietOK
            /\ AllowedWasEntitled /\ StrangersLearnNothing /\ QuietAnswer
-----------------------------------------------------------------------------
\* Every set of places in a sequence has a last one.
LEMMA LastPlace ==
  ASSUME NEW n \in Nat, NEW S \in SUBSET (1 .. n), S # {}
  PROVE  \E i \in S : \A j \in S : j <= i
<1> DEFINE Below == OpToRel(<, Nat)
           T == {n - i : i \in S}
<1>1. \A x, y \in Nat : <<y, x>> \in Below <=> y < x
  BY DEF OpToRel
<1>2. IsWellFoundedOn(Below, Nat)
  BY NatLessThanWellFounded
<1>3. \A i \in S : i \in Nat /\ n - i \in Nat /\ n - i \in T
  OBVIOUS
<1>4. T \in SUBSET Nat /\ T # {}
  BY <1>3
<1>5. PICK x \in T : \A y \in T : ~(<<y, x>> \in Below)
  <2> HIDE DEF T, Below
  <2> QED BY <1>2, <1>4, WFMin
<1>6. PICK i \in S : x = n - i
  OBVIOUS
<1> HIDE DEF T, Below
<1>7. ASSUME NEW j \in S PROVE j <= i
  <2>1. ~(n - j < n - i)
    BY <1>1, <1>3, <1>5, <1>6
  <2> QED BY <2>1, <1>3
<1> QED BY <1>7

\* What evaluate_async makes of a node, v being the verdicts of its children.
NodeVerdict(e, c, v, i) ==
  CASE e[i].op = "perm" -> LeafHolds(e[i], c)
    [] e[i].op = "any"  -> \E k \in e[i].kids : v[k]
    [] OTHER            -> e[i].kids # {} /\ \A k \in e[i].kids : v[k]

\* It looks at the children only.
LEMMA NodeVerdictLocal ==
  ASSUME NEW e, NEW c, NEW v, NEW w, NEW i, \A k \in e[i].kids : v[k] = w[k]
  PROVE  NodeVerdict(e, c, v, i) = NodeVerdict(e, c, w, i)
<1>1. CASE e[i].op = "perm"
  BY <1>1 DEF NodeVerdict
<1>2. CASE e[i].op = "any"
  <2>1. (\E k \in e[i].kids : v[k]) <=> (\E k \in e[i].kids : w[k])
    OBVIOUS
  <2> QED BY <1>2, <2>1 DEF NodeVerdict
<1>3. CASE e[i].op # "perm" /\ e[i].op # "any"
  <2>1. (\A k \in e[i].kids : v[k]) <=> (\A k \in e[i].kids : w[k])
    OBVIOUS
  <2> QED BY <1>3, <2>1 DEF NodeVerdict
<1> QED BY <1>1, <1>2, <1>3

LEMMA NodesTyped ==
  ASSUME NEW e, WellFormed(e)
  PROVE  /\ Len(e) \in Nat /\ DOMAIN e = 1 .. Len(e) /\ 1 \in DOMAIN e
         /\ \A i \in DOMAIN e : e[i].op \in {"perm", "all", "any"}
         /\ \A i \in DOMAIN e : e[i].kids \subseteq (i + 1) .. Len(e)
         /\ \A i \in DOMAIN e : e[i].kids \subseteq DOMAIN e
         /\ \A i \in DOMAIN e : e[i].op # "perm" => e[i].kids # {}
         /\ \A i \in DOMAIN e : e[i].op = "perm" => e[i].name \in Names /\ e[i].on \in Scopes
<1>1. e \in Seq(NodeType) /\ e # <<>>
  BY DEF WellFormed
<1>2. Len(e) \in Nat /\ DOMAIN e = 1 .. Len(e) /\ 1 \in DOMAIN e /\ \A i \in DOMAIN e : e[i] \in NodeType
  BY <1>1
<1>3. \A i \in DOMAIN e : e[i].op \in {"perm", "all", "any"}
  BY <1>2 DEF NodeType
<1>4. /\ \A i \in DOMAIN e : e[i].kids \subseteq (i + 1) .. Len(e)
      /\ \A i \in DOMAIN e : e[i].op # "perm" => e[i].kids # {}
      /\ \A i \in DOMAIN e : e[i].op = "perm" => e[i].name \in Names /\ e[i].on \in Scopes
  BY DEF WellFormed
<1>5. \A i \in DOMAIN e : (i + 1) .. Len(e) \subseteq DOMAIN e
  BY <1>2
<1> QED BY <1>2, <1>3, <1>4, <1>5

\* v has the verdicts from the j-th node on.
FromNode(e, c, j, v) ==
  /\ v = [i \in DOMAIN e |-> v[i]]
  /\ \A i \in DOMAIN e : i >= j => v[i] = NodeVerdict(e, c, v, i)

\* The evaluation is defined: children come after their parent, so the verdicts
\* can be had from the last node to the first.
LEMMA VerdictsDefined ==
  ASSUME NEW e, NEW c, WellFormed(e)
  PROVE  /\ DOMAIN Verdicts(e, c) = DOMAIN e
         /\ \A i \in DOMAIN e : Verdicts(e, c)[i] = NodeVerdict(e, c, Verdicts(e, c), i)
<1> DEFINE S == {j \in 1 .. (Len(e) + 1) : ~ \E v : FromNode(e, c, j, v)}
<1>1. /\ Len(e) \in Nat /\ DOMAIN e = 1 .. Len(e)
      /\ \A i \in DOMAIN e : e[i].kids \subseteq (i + 1) .. Len(e)
  BY NodesTyped
<1>2. S = {}
  <2> SUFFICES ASSUME S # {} PROVE FALSE
    OBVIOUS
  <2>1. Len(e) + 1 \in Nat /\ S \in SUBSET (1 .. (Len(e) + 1))
    BY <1>1
  <2>2. PICK g \in S : \A j \in S : j <= g
    <3> HIDE DEF S
    <3> QED BY <2>1, LastPlace
  <2>3. g \in 1 .. (Len(e) + 1) /\ ~ \E v : FromNode(e, c, g, v)
    OBVIOUS
  <2>4. FromNode(e, c, Len(e) + 1, [i \in DOMAIN e |-> FALSE])
    <3> DEFINE v0 == [i \in DOMAIN e |-> FALSE]
    <3>1. v0 = [i \in DOMAIN e |-> v0[i]]
      OBVIOUS
    <3>2. \A i \in DOMAIN e : ~(i >= Len(e) + 1)
      BY <1>1
    <3> HIDE DEF v0
    <3>3. FromNode(e, c, Len(e) + 1, v0)
      BY <3>1, <3>2 DEF FromNode
    <3> QED BY <3>3 DEF v0
  <2>5. g \in DOMAIN e /\ g + 1 \in 1 .. (Len(e) + 1)
    BY <1>1, <2>3, <2>4
  <2>6. g + 1 \notin S
    BY <1>1, <2>2, <2>5
  <2>7. PICK v : FromNode(e, c, g + 1, v)
    BY <2>5, <2>6
  <2> DEFINE w == [v EXCEPT ![g] = NodeVerdict(e, c, v, g)]
  <2>8. /\ w = [i \in DOMAIN e |-> w[i]] /\ w[g] = NodeVerdict(e, c, v, g)
        /\ \A k \in DOMAIN e : k # g => w[k] = v[k]
    BY <2>5, <2>7 DEF FromNode
  <2> HIDE DEF w
  <2>9. ASSUME NEW i \in DOMAIN e, i >= g PROVE w[i] = NodeVerdict(e, c, w, i)
    <3>1. \A k \in e[i].kids : k \in DOMAIN e /\ k # g
      BY <1>1, <2>5, <2>9
    <3>2. NodeVerdict(e, c, w, i) = NodeVerdict(e, c, v, i)
      BY <2>8, <3>1, NodeVerdictLocal
    <3>3. CASE i = g
      BY <3>2, <3>3, <2>8
    <3>4. CASE i # g
      <4>1. i >= g + 1
        BY <1>1, <2>5, <2>9, <3>4
      <4>2. v[i] = NodeVerdict(e, c, v, i)
        BY <4>1, <2>7 DEF FromNode
      <4> QED BY <4>2, <2>8, <3>2, <3>4
    <3> QED BY <3>3, <3>4
  <2>10. FromNode(e, c, g, w)
    BY <2>8, <2>9 DEF FromNode
  <2> QED BY <2>3, <2>10
<1>3. PICK v : FromNode(e, c, 1, v)
  BY <1>1, <1>2
<1>4. v = [i \in DOMAIN e |-> NodeVerdict(e, c, v, i)]
  <2>1. \A i \in DOMAIN e : v[i] = NodeVerdict(e, c, v, i)
    BY <1>1, <1>3 DEF FromNode
  <2> QED BY <2>1, <1>3 DEF FromNode
<1>5. Verdicts(e, c) = [i \in DOMAIN e |-> NodeVerdict(e, c, Verdicts(e, c), i)]
  <2>1. Verdicts(e, c) = CHOOSE f : f = [i \in DOMAIN e |-> NodeVerdict(e, c, f, i)]
    BY DEF Verdicts, NodeVerdict
  <2> QED BY <1>4, <2>1
<1> QED BY <1>5

\* An expression that is satisfied is so for a reason, if each leaf that holds is
\* entitled to.
LEMMA SatisfiedIsEntitled ==
  ASSUME NEW e, NEW c, NEW fs, WellFormed(e), Evaluate(e, c),
         \A i \in LeafNodes(e) : LeafHolds(e[i], c) => LeafEntitled(e[i], fs)
  PROVE  Entitles(e, fs)
<1> DEFINE S == {i \in DOMAIN e : Verdicts(e, c)[i]}
<1>1. \A i \in DOMAIN e : Verdicts(e, c)[i] = NodeVerdict(e, c, Verdicts(e, c), i)
  BY VerdictsDefined
<1>2. 1 \in DOMAIN e /\ \A i \in DOMAIN e : e[i].kids \subseteq DOMAIN e
  BY NodesTyped
<1>3. 1 \in S
  BY <1>2 DEF Evaluate
<1>4. ASSUME NEW i \in S, e[i].op = "all" PROVE e[i].kids \subseteq S
  BY <1>1, <1>2, <1>4 DEF NodeVerdict
<1>5. ASSUME NEW i \in S, e[i].op = "any" PROVE e[i].kids \cap S # {}
  BY <1>1, <1>2, <1>5 DEF NodeVerdict
<1>6. ASSUME NEW i \in S, e[i].op # "all", e[i].op # "any" PROVE LeafEntitled(e[i], fs)
  <2>1. e[i].op = "perm"
    BY <1>6, NodesTyped
  <2> QED BY <2>1, <1>1 DEF NodeVerdict, LeafNodes
<1> HIDE DEF S
<1>7. \A i \in S : CASE e[i].op = "all" -> e[i].kids \subseteq S
                     [] e[i].op = "any" -> e[i].kids \cap S # {}
                     [] OTHER           -> LeafEntitled(e[i], fs)
  BY <1>4, <1>5, <1>6
<1>8. S \in SUBSET DOMAIN e
  BY DEF S
<1> QED BY <1>3, <1>7, <1>8 DEF Entitles

\* And one that is entitled to is satisfied, if each leaf that is entitled to
\* holds.
LEMMA EntitledIsSatisfied ==
  ASSUME NEW e, NEW c, NEW fs, WellFormed(e), Entitles(e, fs),
         \A i \in LeafNodes(e) : LeafEntitled(e[i], fs) => LeafHolds(e[i], c)
  PROVE  Evaluate(e, c)
<1> DEFINE V == Verdicts(e, c)
<1>1. \A i \in DOMAIN e : V[i] = NodeVerdict(e, c, V, i)
  BY VerdictsDefined
<1>2. PICK S \in SUBSET DOMAIN e :
        /\ 1 \in S
        /\ \A i \in S : CASE e[i].op = "all" -> e[i].kids \subseteq S
                          [] e[i].op = "any" -> e[i].kids \cap S # {}
                          [] OTHER           -> LeafEntitled(e[i], fs)
  BY DEF Entitles
<1>3. /\ Len(e) \in Nat /\ DOMAIN e = 1 .. Len(e)
      /\ \A i \in DOMAIN e : e[i].kids \subseteq (i + 1) .. Len(e)
      /\ \A i \in DOMAIN e : e[i].op \in {"perm", "all", "any"}
      /\ \A i \in DOMAIN e : e[i].op # "perm" => e[i].kids # {}
  BY NodesTyped
<1> DEFINE T == {i \in S : ~ V[i]}
<1> HIDE DEF V
<1>4. T = {}
  <2> SUFFICES ASSUME T # {} PROVE FALSE
    OBVIOUS
  <2>1. PICK g \in T : \A j \in T : j <= g
    <3>1. T \in SUBSET (1 .. Len(e))
      BY <1>2, <1>3
    <3> HIDE DEF T
    <3> QED BY <1>3, <3>1, LastPlace
  <2>2. g \in S /\ ~ V[g] /\ g \in DOMAIN e /\ g \in Nat
    BY <1>2, <1>3
  <2>3. \A k \in e[g].kids : k \in S => V[k]
    BY <1>2, <1>3, <2>1, <2>2
  <2>4. CASE e[g].op = "perm"
    <3>1. LeafEntitled(e[g], fs)
      BY <1>2, <2>2, <2>4
    <3>2. LeafHolds(e[g], c)
      BY <3>1, <2>2, <2>4 DEF LeafNodes
    <3> QED BY <3>2, <1>1, <2>2, <2>4 DEF NodeVerdict
  <2>5. CASE e[g].op = "all"
    <3>1. e[g].kids \subseteq S /\ e[g].kids # {}
      BY <1>2, <1>3, <2>2, <2>5
    <3>2. NodeVerdict(e, c, V, g) = TRUE
      BY <2>3, <2>5, <3>1 DEF NodeVerdict
    <3> QED BY <3>2, <1>1, <2>2
  <2>6. CASE e[g].op = "any"
    <3>1. e[g].kids \cap S # {}
      BY <1>2, <2>2, <2>6
    <3>2. NodeVerdict(e, c, V, g) = TRUE
      BY <2>3, <2>6, <3>1 DEF NodeVerdict
    <3> QED BY <3>2, <1>1, <2>2
  <2> QED BY <1>3, <2>2, <2>4, <2>5, <2>6
<1>5. V[1]
  BY <1>2, <1>4
<1> QED BY <1>5 DEF Evaluate, V

-----------------------------------------------------------------------------
LEMMA GuardStart == GuardInit => GuardInv
<1> SUFFICES ASSUME GuardInit PROVE GuardInv
  OBVIOUS
<1>1. PICK s \in Situations :
        /\ shape = s.shape /\ expr = s.expr /\ facts = s.facts
        /\ before = s.facts
        /\ stop = "csrf" /\ permits = [tenant |-> {}, platform |-> {}] /\ grants = "none"
        /\ status = 0 /\ changes = 0
  BY DEF GuardInit
<1>2. /\ s.shape \in Shapes /\ WellFormed(s.expr) /\ s.facts \subseteq Facts
      /\ \A f \in s.facts : Dependent(f) => Membership \in s.facts
  BY GuardAssumption
<1>3. GuardTypeOK
  BY <1>1, <1>2 DEF GuardTypeOK, Stops
<1>4. ToldOK /\ PermitsOK /\ PlaceOK /\ QuietOK
  BY <1>1 DEF ToldOK, PermitsOK, PlaceOK, QuietOK, Begun, Within, PastRow, Entered, Granted
<1>5. AllowedWasEntitled /\ StrangersLearnNothing /\ QuietAnswer
  BY <1>1 DEF AllowedWasEntitled, StrangersLearnNothing, QuietAnswer
<1> QED BY <1>3, <1>4, <1>5 DEF GuardInv

\* A read that answers the request: of the invariant, only the answer's own
\* conjuncts are left to show.
LEMMA RefusalKeeps ==
  ASSUME GuardInv, NEW code \in {401, 403, 404}, Refuse(code), grants = "none",
         changes = 0 /\ shape.origin = "host" => ~(Credential = "live" /\ Reachable(facts)),
         code = 403 \/ (shape.mutating /\ Checked => shape.origin \in {"host", "listed"})
  PROVE  GuardInv'
<1> USE DEF Refuse, Move
<1>1. GuardTypeOK'
  BY DEF GuardInv, GuardTypeOK, Stops
<1>2. ToldOK'
  BY DEF ToldOK, Begun, Within, PastRow, Entered
<1>3. PermitsOK'
  BY DEF GuardInv, PermitsOK, Granted, Granting
<1>4. PlaceOK'
  BY DEF GuardInv, PlaceOK, Checked
<1>5. QuietOK'
  BY DEF GuardInv, QuietOK, Granted
<1>6. AllowedWasEntitled' /\ StrangersLearnNothing'
  BY DEF AllowedWasEntitled, StrangersLearnNothing
<1>7. QuietAnswer'
  BY DEF QuietAnswer, Credential, FromCookie, Reachable, NeedsTenant
<1> QED BY <1>1, <1>2, <1>3, <1>4, <1>5, <1>6, <1>7 DEF GuardInv

\* While a request is served it has no answer to be right or wrong.
LEMMA ServedKeeps ==
  ASSUME PlaceOK', stop' # "done"
  PROVE  AllowedWasEntitled' /\ StrangersLearnNothing' /\ QuietAnswer'
BY DEF PlaceOK, AllowedWasEntitled, StrangersLearnNothing, QuietAnswer

LEMMA CSRFMiddlewareKeeps == GuardInv /\ CSRFMiddleware => GuardInv'
<1> SUFFICES ASSUME GuardInv, CSRFMiddleware PROVE GuardInv'
  OBVIOUS
<1> DEFINE ok == shape.mutating /\ Checked => shape.origin \in {"host", "listed"}
<1>1. grants = "none" /\ stop = "csrf"
  BY DEF GuardInv, PlaceOK, CSRFMiddleware
<1>2. CASE ~ ok
  BY <1>1, <1>2, RefusalKeeps DEF CSRFMiddleware, ReadThen
<1>3. CASE ok
  <2>1. Proceed("session")
    BY <1>3 DEF CSRFMiddleware, ReadThen
  <2>2. GuardTypeOK'
    BY <2>1 DEF GuardInv, GuardTypeOK, Stops, Proceed, Move
  <2>3. ToldOK' /\ PermitsOK' /\ QuietOK'
    BY <1>1, <2>1 DEF GuardInv, Proceed, Move, ToldOK, PermitsOK, QuietOK, Begun, Within, PastRow, Entered,
                Granted, Granting
  <2>4. PlaceOK'
    BY <1>1, <1>3, <2>1 DEF GuardInv, Proceed, Move, PlaceOK, Checked
  <2> QED BY <2>1, <2>2, <2>3, <2>4, ServedKeeps DEF GuardInv, Proceed, Move
<1> QED BY <1>2, <1>3

LEMMA ReadSessionKeeps == GuardInv /\ ReadSession => GuardInv'
<1> SUFFICES ASSUME GuardInv, ReadSession PROVE GuardInv'
  OBVIOUS
<1> DEFINE ok == Credential = "live" /\ SessionValid \in facts
<1>1. /\ grants = "none" /\ stop = "session" /\ facts \subseteq before
      /\ shape.mutating /\ Checked => shape.origin \in {"host", "listed"}
  BY DEF GuardInv, GuardTypeOK, PlaceOK, ReadSession
<1>2. CASE ~ ok
  BY <1>1, <1>2, RefusalKeeps DEF ReadSession, ReadThen, Reachable
<1>3. CASE ok
  <2>1. Proceed("user")
    BY <1>3 DEF ReadSession, ReadThen
  <2>2. GuardTypeOK'
    BY <2>1 DEF GuardInv, GuardTypeOK, Stops, Proceed, Move
  <2>3. ToldOK'
    BY <1>1, <1>3, <2>1 DEF GuardInv, Proceed, Move, ToldOK, Begun, Within, PastRow, Entered,
                            Credential, FromCookie
  <2>4. PermitsOK' /\ QuietOK'
    BY <1>1, <2>1 DEF GuardInv, Proceed, Move, PermitsOK, QuietOK, Granted, Granting, NeedsTenant
  <2>5. PlaceOK'
    BY <1>1, <2>1 DEF GuardInv, Proceed, Move, PlaceOK, Checked
  <2> QED BY <2>1, <2>2, <2>3, <2>4, <2>5, ServedKeeps DEF GuardInv, Proceed, Move
<1> QED BY <1>2, <1>3

LEMMA ReadUserKeeps == GuardInv /\ ReadUser => GuardInv'
<1> SUFFICES ASSUME GuardInv, ReadUser PROVE GuardInv'
  OBVIOUS
<1>1. /\ grants = "none" /\ stop = "user" /\ facts \subseteq before
      /\ shape.mutating /\ Checked => shape.origin \in {"host", "listed"}
  BY DEF GuardInv, GuardTypeOK, PlaceOK, ReadUser
<1>2. CASE AccountEnabled \notin facts
  BY <1>1, <1>2, RefusalKeeps DEF ReadUser, ReadThen, Reachable
<1>3. CASE AccountEnabled \in facts
  <2>1. Proceed(IF NeedsTenant THEN "tenant" ELSE "platform")
    BY <1>3 DEF ReadUser, ReadThen
  <2>2. GuardTypeOK'
    BY <2>1 DEF GuardInv, GuardTypeOK, Stops, Proceed, Move
  <2>3. ToldOK'
    BY <1>1, <1>3, <2>1 DEF GuardInv, Proceed, Move, ToldOK, Begun, Within, PastRow, Entered,
                            Credential, FromCookie, NeedsTenant
  <2>4. PermitsOK' /\ QuietOK'
    BY <1>1, <2>1 DEF GuardInv, Proceed, Move, PermitsOK, QuietOK, Granted, Granting, NeedsTenant
  <2>5. PlaceOK'
    BY <1>1, <2>1 DEF GuardInv, Proceed, Move, PlaceOK, Checked
  <2> QED BY <2>1, <2>2, <2>3, <2>4, <2>5, ServedKeeps DEF GuardInv, Proceed, Move
<1> QED BY <1>2, <1>3


LEMMA LoadTenantRowKeeps == GuardInv /\ LoadTenantRow => GuardInv'
<1> SUFFICES ASSUME GuardInv, LoadTenantRow PROVE GuardInv'
  OBVIOUS
<1> DEFINE ok == "tenant_id" \in shape.params /\ TenantActive \in facts
<1>1. /\ grants = "none" /\ stop = "tenant" /\ facts \subseteq before /\ NeedsTenant
      /\ shape.mutating /\ Checked => shape.origin \in {"host", "listed"}
  BY DEF GuardInv, GuardTypeOK, PlaceOK, LoadTenantRow, ToldOK, Within
<1>2. CASE ~ ok
  BY <1>1, <1>2, RefusalKeeps DEF LoadTenantRow, ReadThen, Reachable
<1>3. CASE ok
  <2>1. Proceed("membership")
    BY <1>3 DEF LoadTenantRow, ReadThen
  <2>2. GuardTypeOK'
    BY <2>1 DEF GuardInv, GuardTypeOK, Stops, Proceed, Move
  <2>3. ToldOK'
    BY <1>1, <1>3, <2>1 DEF GuardInv, Proceed, Move, ToldOK, Begun, Within, PastRow, Entered,
                            Credential, FromCookie, NeedsTenant
  <2>4. PermitsOK' /\ QuietOK'
    BY <1>1, <2>1 DEF GuardInv, Proceed, Move, PermitsOK, QuietOK, Granted, Granting
  <2>5. PlaceOK'
    BY <1>1, <2>1 DEF GuardInv, Proceed, Move, PlaceOK, Checked
  <2> QED BY <2>1, <2>2, <2>3, <2>4, <2>5, ServedKeeps DEF GuardInv, Proceed, Move
<1> QED BY <1>2, <1>3

LEMMA HasMembershipKeeps == GuardInv /\ HasMembership => GuardInv'
<1> SUFFICES ASSUME GuardInv, HasMembership PROVE GuardInv'
  OBVIOUS
<1>1. /\ grants = "none" /\ stop = "membership" /\ facts \subseteq before /\ NeedsTenant
      /\ shape.mutating /\ Checked => shape.origin \in {"host", "listed"}
  BY DEF GuardInv, GuardTypeOK, PlaceOK, HasMembership, ToldOK, Within
<1>2. CASE ~ IsMember
  BY <1>1, <1>2, RefusalKeeps DEF HasMembership, ReadThen, Reachable, IsMember
<1>3. CASE IsMember
  <2>1. Proceed("roles")
    BY <1>3 DEF HasMembership, ReadThen
  <2>2. GuardTypeOK'
    BY <2>1 DEF GuardInv, GuardTypeOK, Stops, Proceed, Move
  <2>3. ToldOK'
    BY <1>1, <1>3, <2>1 DEF GuardInv, Proceed, Move, ToldOK, Begun, Within, PastRow, Entered,
                            Credential, FromCookie, NeedsTenant, IsMember
  <2>4. PermitsOK' /\ QuietOK'
    BY <1>1, <2>1 DEF GuardInv, Proceed, Move, PermitsOK, QuietOK, Granted, Granting
  <2>5. PlaceOK'
    BY <1>1, <2>1 DEF GuardInv, Proceed, Move, PlaceOK, Checked
  <2> QED BY <2>1, <2>2, <2>3, <2>4, <2>5, ServedKeeps DEF GuardInv, Proceed, Move
<1> QED BY <1>2, <1>3

LEMMA ReadRolesKeeps == GuardInv /\ ReadRoles => GuardInv'
<1> SUFFICES ASSUME GuardInv, ReadRoles PROVE GuardInv'
  OBVIOUS
<1> USE DEF ReadRoles, Move
<1>1. /\ permits \in [tenant : SUBSET Names, platform : SUBSET Names] /\ facts \subseteq before
      /\ permits' = [permits EXCEPT !.tenant = Held("tenant")]
  BY DEF GuardInv, GuardTypeOK
<1>2. /\ permits'.tenant = Held("tenant") /\ permits'.platform = permits.platform
      /\ permits' \in [tenant : SUBSET Names, platform : SUBSET Names]
  BY <1>1 DEF Held
<1>3. GuardTypeOK'
  BY <1>2 DEF GuardInv, GuardTypeOK, Stops
<1>4. ToldOK'
  BY DEF GuardInv, ToldOK, Begun, Within, PastRow, Entered, Credential, FromCookie, NeedsTenant
<1>5. PermitsOK'
  BY <1>1, <1>2 DEF GuardInv, PermitsOK, Granted, Granting, Held
<1>6. QuietOK'
  BY <1>2 DEF GuardInv, QuietOK, Granted, Granting, Held
<1>7. PlaceOK'
  BY DEF GuardInv, PlaceOK, Checked
<1> QED BY <1>3, <1>4, <1>5, <1>6, <1>7, ServedKeeps DEF GuardInv

LEMMA ReadPermissionsKeeps == GuardInv /\ ReadPermissions => GuardInv'
<1> SUFFICES ASSUME GuardInv, ReadPermissions PROVE GuardInv'
  OBVIOUS
<1> USE DEF ReadPermissions, Move
<1>1. /\ permits \in [tenant : SUBSET Names, platform : SUBSET Names] /\ facts \subseteq before
      /\ permits' = [permits EXCEPT !.tenant = {n \in @ : Alive(n) \in facts}]
  BY DEF GuardInv, GuardTypeOK
<1>2. /\ permits'.tenant = {n \in permits.tenant : Alive(n) \in facts}
      /\ permits'.platform = permits.platform
      /\ permits' \in [tenant : SUBSET Names, platform : SUBSET Names]
  BY <1>1
<1>3. GuardTypeOK'
  BY <1>2 DEF GuardInv, GuardTypeOK, Stops
<1>4. ToldOK'
  BY DEF GuardInv, ToldOK, Begun, Within, PastRow, Entered, Credential, FromCookie, NeedsTenant
<1>5. PermitsOK'
  BY <1>1, <1>2 DEF GuardInv, PermitsOK, Granted, Granting
<1>6. QuietOK'
  BY <1>2 DEF GuardInv, QuietOK, Granted, Granting, Held
<1>7. PlaceOK'
  BY DEF GuardInv, PlaceOK, Checked
<1> QED BY <1>3, <1>4, <1>5, <1>6, <1>7, ServedKeeps DEF GuardInv

LEMMA PlatformPermissionsKeeps == GuardInv /\ PlatformPermissions => GuardInv'
<1> SUFFICES ASSUME GuardInv, PlatformPermissions PROVE GuardInv'
  OBVIOUS
<1> USE DEF PlatformPermissions, Move
<1> DEFINE live == {n \in Held("platform") : Alive(n) \in facts}
<1>1. /\ permits \in [tenant : SUBSET Names, platform : SUBSET Names] /\ facts \subseteq before
      /\ permits' = [permits EXCEPT !.platform = live]
  BY DEF GuardInv, GuardTypeOK
<1>2. /\ permits'.platform = live /\ permits'.tenant = permits.tenant
      /\ permits' \in [tenant : SUBSET Names, platform : SUBSET Names]
  BY <1>1 DEF Held
<1>3. GuardTypeOK'
  BY <1>2 DEF GuardInv, GuardTypeOK, Stops
<1>4. ToldOK'
  BY DEF GuardInv, ToldOK, Begun, Within, PastRow, Entered, Credential, FromCookie, NeedsTenant
<1>5. PermitsOK'
  BY <1>1, <1>2 DEF GuardInv, PermitsOK, Granted, Granting, Held
<1>6. QuietOK'
  BY <1>2 DEF GuardInv, QuietOK, Granted, Granting, Held, NeedsTenant
<1>7. PlaceOK'
  BY DEF GuardInv, PlaceOK, Checked
<1> QED BY <1>3, <1>4, <1>5, <1>6, <1>7, ServedKeeps DEF GuardInv

LEMMA CallFactoryKeeps == GuardInv /\ CallFactory => GuardInv'
<1> SUFFICES ASSUME GuardInv, CallFactory PROVE GuardInv'
  OBVIOUS
<1> USE DEF CallFactory, Move
<1>1. GuardTypeOK'
  BY DEF GuardInv, GuardTypeOK, Stops, Resolver
<1>2. ToldOK'
  BY DEF GuardInv, ToldOK, Begun, Within, PastRow, Entered, Credential, FromCookie, NeedsTenant
<1>3. PermitsOK'
  BY DEF GuardInv, PermitsOK, Granted, Granting
<1>4. QuietOK'
  BY DEF GuardInv, QuietOK, Granted, Granting, Held, NeedsTenant
<1>5. PlaceOK'
  BY DEF GuardInv, PlaceOK, Checked, Resolver, NeedsTenant
<1> QED BY <1>1, <1>2, <1>3, <1>4, <1>5, ServedKeeps DEF GuardInv


\* A leaf that holds when the request is decided was entitled to while it was
\* served, and while nothing changes the two are the same.
LEMMA LeafAgrees ==
  ASSUME GuardInv, stop = "evaluate", NEW i \in LeafNodes(expr)
  PROVE  LET c == [tenant |-> permits.tenant, platform |-> permits.platform,
                   resource |-> ResourceGrants, path |-> shape.params]
         IN  /\ LeafHolds(expr[i], c) => LeafEntitled(expr[i], before)
             /\ changes = 0 /\ LeafEntitled(expr[i], facts) => LeafHolds(expr[i], c)
<1> DEFINE c == [tenant |-> permits.tenant, platform |-> permits.platform,
                 resource |-> ResourceGrants, path |-> shape.params]
           l == expr[i]
<1>1. /\ WellFormed(expr) /\ facts \subseteq before
      /\ permits \in [tenant : SUBSET Names, platform : SUBSET Names]
  BY DEF GuardInv, GuardTypeOK
<1>2. i \in DOMAIN expr /\ l.op = "perm" /\ l.name \in Names /\ l.on \in Scopes
  BY <1>1, NodesTyped DEF LeafNodes
<1>3. l.on # "platform" => NeedsTenant
  <2>1. l.on # "platform" => "tenant_id" \in Params(l.on)
    BY <1>2 DEF Params, Scopes
  <2>2. l \in Leaves(expr)
    BY DEF Leaves
  <2> HIDE DEF l
  <2> QED BY <2>1, <2>2 DEF NeedsTenant, ResourceParams
<1>4. /\ \A n \in permits.tenant : Granting("tenant", n, before)
      /\ \A n \in permits.platform : Granting("platform", n, before)
      /\ changes = 0 /\ NeedsTenant =>
           permits.tenant = {n \in Names : Granting("tenant", n, facts)}
      /\ changes = 0 => permits.platform = {n \in Names : Granting("platform", n, facts)}
  BY DEF GuardInv, PermitsOK, QuietOK, Granted
<1>5. grants = Resolver
  BY DEF GuardInv, PlaceOK
<1>6. /\ c.tenant = permits.tenant /\ c.platform = permits.platform
      /\ c.resource = ResourceGrants /\ c.path = shape.params
  OBVIOUS
<1> HIDE DEF c, l
<1>7. CASE l.on = "platform"
  <2>1. Params(l.on) = {}
    BY <1>7 DEF Params
  <2>2. LeafHolds(l, c) <=> l.name \in permits.platform
    BY <1>6, <1>7, <2>1 DEF LeafHolds
  <2>3. \A fs : LeafEntitled(l, fs) <=> Granting("platform", l.name, fs)
    BY <1>7, <2>1 DEF LeafEntitled, Granting
  <2> QED BY <1>2, <1>4, <2>2, <2>3 DEF c, l
<1>8. CASE l.on = "wildcard"
  <2>1. ~ LeafHolds(l, c)
    BY <1>8 DEF LeafHolds
  <2>2. \A fs : ~ LeafEntitled(l, fs)
    BY <1>8 DEF LeafEntitled
  <2> QED BY <2>1, <2>2 DEF c, l
<1>9. CASE l.on = "tenant"
  <2>1. LeafHolds(l, c) <=> Params(l.on) \subseteq shape.params /\ l.name \in permits.tenant
    BY <1>6, <1>9 DEF LeafHolds
  <2>2. \A fs : LeafEntitled(l, fs) <=>
                  Params(l.on) \subseteq shape.params /\ Granting("tenant", l.name, fs)
    BY <1>9 DEF LeafEntitled, Granting
  <2>3. NeedsTenant
    BY <1>3, <1>9
  <2> QED BY <1>2, <1>4, <2>1, <2>2, <2>3 DEF c, l
<1>10. CASE l.on = "resource"
  <2>1. LeafHolds(l, c) <=> Params(l.on) \subseteq shape.params /\ l.name \in ResourceGrants
    BY <1>6, <1>10 DEF LeafHolds
  <2>2. \A fs : LeafEntitled(l, fs) <=>
                  /\ Params(l.on) \subseteq shape.params
                  /\ IF shape.factory # "none" THEN shape.factory = "grants"
                     ELSE Granting("resource", l.name, fs)
    BY <1>10 DEF LeafEntitled, Granting
  <2>3. NeedsTenant
    BY <1>3, <1>10
  <2>4. CASE shape.factory = "none"
    <3>1. ResourceGrants = {n \in Names : Granting("resource", n, facts)}
      BY <1>5, <2>4 DEF Resolver, ResourceGrants, Held, Granting
    <3>2. \A n : Granting("resource", n, facts) => Granting("resource", n, before)
      BY <1>1 DEF Granting
    <3> QED BY <1>2, <2>1, <2>2, <2>4, <3>1, <3>2 DEF c, l
  <2>5. CASE shape.factory # "none"
    <3>1. ResourceGrants = IF shape.factory = "grants" THEN Names ELSE {}
      BY <1>5, <2>3, <2>5 DEF Resolver, ResourceGrants
    <3> QED BY <1>2, <2>1, <2>2, <2>5, <3>1 DEF c, l
  <2> QED BY <2>4, <2>5
<1> QED BY <1>2, <1>7, <1>8, <1>9, <1>10 DEF Scopes

LEMMA DecideKeeps == GuardInv /\ Decide => GuardInv'
<1> SUFFICES ASSUME GuardInv, Decide PROVE GuardInv'
  OBVIOUS
<1> DEFINE c == [tenant |-> permits.tenant, platform |-> permits.platform,
                 resource |-> ResourceGrants, path |-> shape.params]
<1>1. stop = "evaluate" /\ Refuse(IF Evaluate(expr, c) THEN 200 ELSE 403)
  BY DEF Decide
<1>2. /\ UNCHANGED <<facts, shape, expr, permits, grants, before, changes>> /\ stop' = "done"
      /\ status' = IF Evaluate(expr, c) THEN 200 ELSE 403
  BY <1>1 DEF Refuse, Move
<1>3. Evaluate(expr, c) => Entitles(expr, before)
  <2> HIDE DEF c
  <2> QED BY <1>1, LeafAgrees, SatisfiedIsEntitled DEF c, GuardInv, GuardTypeOK
<1>4. changes = 0 /\ Entitles(expr, facts) => Evaluate(expr, c)
  BY <1>1, LeafAgrees, EntitledIsSatisfied DEF GuardInv, GuardTypeOK
<1> HIDE DEF c
<1>5. Credential = "live" /\ Reachable(before)
  BY <1>1 DEF GuardInv, ToldOK, Begun, PastRow, Entered, Reachable
<1>6. GuardTypeOK'
  BY <1>2 DEF GuardInv, GuardTypeOK, Stops
<1>7. ToldOK' /\ PermitsOK' /\ QuietOK'
  BY <1>2 DEF GuardInv, ToldOK, PermitsOK, QuietOK, Begun, Within, PastRow, Entered, Granted, Granting
<1>8. PlaceOK'
  BY <1>1, <1>2 DEF GuardInv, PlaceOK, Checked, Resolver
<1>9. Entitles(expr, before)' <=> Entitles(expr, before)
  BY <1>2 DEF Entitles, LeafEntitled
<1>10. Entitles(expr, facts)' <=> Entitles(expr, facts)
  BY <1>2 DEF Entitles, LeafEntitled
<1>11. (Reachable(before)' <=> Reachable(before)) /\ (Reachable(facts)' <=> Reachable(facts))
  BY <1>2 DEF Reachable, NeedsTenant
<1>12. AllowedWasEntitled'
  BY <1>2, <1>3, <1>5, <1>9, <1>11 DEF AllowedWasEntitled
<1>13. StrangersLearnNothing'
  BY <1>2, <1>5 DEF StrangersLearnNothing, Reachable, NeedsTenant
<1>14. QuietAnswer'
  <2>1. changes = 0 => before = facts
    BY DEF GuardInv, QuietOK
  <2>2. Credential' = Credential
    BY <1>2 DEF Credential, FromCookie
  <2>3. changes = 0 => (status' = 200 <=> Entitles(expr, facts))
    BY <1>2, <1>3, <1>4, <2>1
  <2>4. changes = 0 => Reachable(facts) /\ Credential = "live"
    BY <1>5, <2>1
  <2> QED BY <1>2, <1>10, <1>11, <2>2, <2>3, <2>4 DEF QuietAnswer
<1> QED BY <1>6, <1>7, <1>8, <1>12, <1>13, <1>14 DEF GuardInv

\* What the others do to the facts.
LEMMA ChangeKeeps ==
  ASSUME GuardInv, NEW now, Changed(now), now \subseteq Facts,
         \A f \in now \cap Named : Dependent(f) => Membership \in now
  PROVE  GuardInv'
<1> USE DEF Changed
<1>1. /\ changes \in Nat /\ facts \subseteq before /\ before \subseteq Facts
      /\ before \subseteq before' /\ facts' \subseteq before' /\ before' \subseteq Facts
  BY DEF GuardInv, GuardTypeOK
<1>2. changes' \in Nat /\ changes' # 0
  BY <1>1
<1>3. GuardTypeOK'
  BY <1>1, <1>2 DEF GuardInv, GuardTypeOK
<1>4. ToldOK'
  BY <1>1 DEF GuardInv, ToldOK, Begun, Within, PastRow, Entered, Credential, FromCookie, NeedsTenant
<1>5. PermitsOK'
  BY <1>1 DEF GuardInv, PermitsOK, Granted, Granting
<1>6. PlaceOK'
  BY DEF GuardInv, PlaceOK, Checked, Resolver, NeedsTenant
<1>7. QuietOK'
  BY <1>2 DEF QuietOK
<1> QED BY <1>3, <1>4, <1>5, <1>6, <1>7, ServedKeeps DEF GuardInv

LEMMA EndFactKeeps == ASSUME GuardInv, NEW f \in Facts, EndFact(f) PROVE GuardInv'
<1> DEFINE now == facts \ (IF f = Membership THEN {f} \cup {g \in Named : Dependent(g)} ELSE {f})
<1>1. facts \subseteq Facts /\ \A g \in facts \cap Named : Dependent(g) => Membership \in facts
  BY DEF GuardInv, GuardTypeOK
<1>2. now \subseteq Facts /\ \A g \in now \cap Named : Dependent(g) => Membership \in now
  BY <1>1
<1> QED BY <1>2, ChangeKeeps DEF EndFact

LEMMA BeginFactKeeps == ASSUME GuardInv, NEW f \in Facts, BeginFact(f) PROVE GuardInv'
<1>1. facts \subseteq Facts /\ \A g \in facts \cap Named : Dependent(g) => Membership \in facts
  BY DEF GuardInv, GuardTypeOK
<1>2. Changed(facts \cup {f}) /\ (f \in Named /\ Dependent(f) => Membership \in facts)
  BY DEF BeginFact
<1>3. \A g \in (facts \cup {f}) \cap Named : Dependent(g) => Membership \in facts \cup {f}
  BY <1>1, <1>2
<1> QED BY <1>1, <1>2, <1>3, ChangeKeeps

LEMMA GuardStill == GuardInv /\ UNCHANGED guardVars => GuardInv'
<1> SUFFICES ASSUME GuardInv, UNCHANGED guardVars PROVE GuardInv'
  OBVIOUS
<1> USE DEF guardVars
<1>1. GuardTypeOK'
  BY DEF GuardInv, GuardTypeOK
<1>2. ToldOK'
  BY DEF GuardInv, ToldOK, Credential, FromCookie, NeedsTenant
<1>3. PermitsOK'
  BY DEF GuardInv, PermitsOK, Granting
<1>4. PlaceOK' /\ QuietOK'
  BY DEF GuardInv, PlaceOK, QuietOK, Checked, Resolver, NeedsTenant, Held, Granting
<1>5. AllowedWasEntitled' /\ StrangersLearnNothing' /\ QuietAnswer'
  <2>1. /\ Entitles(expr, before)' <=> Entitles(expr, before)
        /\ Entitles(expr, facts)' <=> Entitles(expr, facts)
    BY DEF Entitles, LeafEntitled
  <2>2. (Reachable(before)' <=> Reachable(before)) /\ (Reachable(facts)' <=> Reachable(facts))
    BY DEF Reachable, NeedsTenant
  <2> QED BY <2>1, <2>2 DEF GuardInv, AllowedWasEntitled, StrangersLearnNothing, QuietAnswer, NeedsTenant,
                            Credential, FromCookie
<1> QED BY <1>1, <1>2, <1>3, <1>4, <1>5 DEF GuardInv

LEMMA GuardInvariance == GuardSpec => []GuardInv
<1>1. ASSUME GuardInv, [GuardNext]_guardVars PROVE GuardInv'
  <2>1. CASE Precondition
    BY <1>1, <2>1, CSRFMiddlewareKeeps, ReadSessionKeeps, ReadUserKeeps, LoadTenantRowKeeps,
       HasMembershipKeeps DEF Precondition
  <2>2. CASE Authorization
    BY <1>1, <2>2, ReadRolesKeeps, ReadPermissionsKeeps, PlatformPermissionsKeeps, CallFactoryKeeps,
       DecideKeeps DEF Authorization
  <2>3. ASSUME NEW f \in Facts, EndFact(f) \/ BeginFact(f) PROVE GuardInv'
    BY <1>1, <2>3, EndFactKeeps, BeginFactKeeps
  <2>4. CASE UNCHANGED guardVars
    BY <1>1, <2>4, GuardStill
  <2> QED BY <1>1, <2>1, <2>2, <2>3, <2>4 DEF GuardNext
<1> QED BY <1>1, GuardStart, PTL DEF GuardSpec

\* The types of one request: RouteGuard's state.
THEOREM GuardTypes == GuardSpec => []GuardTypeOK
<1>1. GuardInv => GuardTypeOK
  BY DEF GuardInv
<1> QED BY <1>1, GuardInvariance, PTL

\* A request that is let through was entitled to it by what the database said
\* while it was served, a stranger gets 404, and a cookie that counts was checked
\* for where it comes from: guard, current_user and the CSRF middleware, whatever
\* the expression and whatever changes between the reads.
THEOREM GuardTheorem == GuardSpec => []GuardSound
<1>1. GuardInv => GuardSound
  BY DEF GuardInv, GuardSound, PlaceOK, CookieWritesAreOwn, Authenticated, Checked, FromCookie
<1> QED BY <1>1, GuardInvariance, PTL

\* While nothing changes, the answer is the one the facts call for: the order in
\* which guard reads them does not show.
THEOREM QuietTheorem == GuardSpec => []QuietAnswer
<1>1. GuardInv => QuietAnswer
  BY DEF GuardInv
<1> QED BY <1>1, GuardInvariance, PTL

-----------------------------------------------------------------------------
\* Of MCAccess: a behaviour of the four parts side by side is one of each.
LEMMA AccessStarts == AccessInit => AuthInit /\ GuardInit /\ SeedInit /\ Init
BY DEF AccessInit, AuthIdle, GuardIdle, SeedIdle, RoleIdle

LEMMA AccessSteps ==
  [AccessNext]_AccessVars =>
    [AuthNext]_authVars /\ [GuardNext]_guardVars /\ [SeedNext]_seedVars /\ [Next]_vars
<1>1. CASE AccessNext
  BY <1>1 DEF AccessNext
<1>2. CASE UNCHANGED AccessVars
  BY <1>2 DEF AccessVars
<1> QED BY <1>1, <1>2

LEMMA AccessParts == AccessSpec => AuthSpec /\ GuardSpec /\ SeedSpec /\ Spec
BY AccessStarts, AccessSteps, PTL DEF AccessSpec, AuthSpec, GuardSpec, SeedSpec, Spec

\* Every variable of the authentication routes, the route guard, the seeds and the
\* role service keeps its type, in the composition that the run checks.
THEOREM AccessTypesTheorem == AccessSpec => []AccessTypes
<1>1. TypeOK /\ AuthTypeOK /\ GuardTypeOK /\ SeedTypeOK => AccessTypes
  BY DEF AccessTypes
<1> QED BY <1>1, AccessParts, TypeCorrect, AuthTypes, GuardTypes, SeedTypes, PTL

\* What the four parts promise, they promise side by side.
THEOREM AccessTheorem ==
  AccessSpec => /\ [](EveryRemovalAudited /\ RequestsAreWhole /\ ResetEndsSessions)
                /\ [](GuardSound /\ QuietAnswer /\ SeedsConverge /\ OneReleaseNeverDeadlocks)
                /\ CountedRemovalsKeepAnAdmin
BY AccessParts, RemovalsAudited, RequestsWhole, ResetsEndSessions, GuardTheorem, QuietTheorem,
   SeedsTheorem, NoDeadlockTheorem, CountedRemovals, PTL
=============================================================================
