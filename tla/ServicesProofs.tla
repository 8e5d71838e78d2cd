----------------------------- MODULE ServicesProofs -----------------------------
(***************************************************************************)
(* Proofs about what a deployed project runs and what brings it up:        *)
(* Deliveries, Deployment, Worktrees and Connections, for any deliveries,  *)
(* workers, hosts, releases, worktrees, sockets and bounds; and, with the  *)
(* registry of engines, about the five of them together.                   *)
(***************************************************************************)
EXTENDS MCServices, EngineRegistryProofs, WellFoundedInduction

-----------------------------------------------------------------------------
(* Deliveries                                                              *)

PostStates == {"none", "recording", "dispatching", "committing",
               "accepted", "duplicate", "failed"}

MessageType == [task : sent, retries : 0..MaxRetries, life : 0..losses]

\* The worker has a message it has not dealt with; what "done" has left is dealt
\* with, and only not acknowledged.
Dealing(w) == worker[w].step \in {"running", "burying"}

\* A token: one chance of task d to end.  Task d has a token of life l at the
\* broker or in a worker's hands.
Token(d, l) == \/ \E m \in broker : m.task = d /\ m.life = l
               \/ \E w \in Workers : /\ Dealing(w)
                                     /\ worker[w].message.task = d /\ worker[w].message.life = l

Lives(d) == {l \in 0..losses : Token(d, l)}

DeliveriesTyped ==
  /\ post \in [Posts -> PostStates]
  /\ inbox \subseteq Events /\ sent \subseteq Posts
  /\ broker \subseteq MessageType
  /\ DOMAIN worker = Workers /\ worker = [w \in Workers |-> worker[w]]
  /\ \A w \in Workers : \/ worker[w] = Asleep
                        \/ worker[w] \in [step : {"running", "burying", "done"},
                                          message : MessageType]
  /\ losses \in 0..MaxLosses /\ succeeded \subseteq sent /\ unburied \subseteq sent
  /\ rows \in [Posts -> Nat]

\* What a delivery's stage says of its task, of its event's key, and of the other
\* deliveries of the event.
PostOK(d) ==
  /\ d \in sent => post[d] \in {"committing", "accepted", "failed"}
  /\ post[d] = "committing" => d \in sent
  /\ post[d] = "accepted" => EventOf[d] \in inbox
  /\ post[d] \in {"dispatching", "committing"} => EventOf[d] \notin inbox /\ ~Held(d)

InboxOK == (\A d \in Posts : PostOK(d)) /\ RecordedWasSent /\ TwiceOnlyAfterFailure

\* A token is in one place.
TokensDiffer ==
  /\ \A m, n \in broker : m.task = n.task /\ m.life = n.life => m = n
  /\ \A w \in Workers : Dealing(w) =>
       /\ \A m \in broker : m.task = worker[w].message.task => m.life # worker[w].message.life
       /\ \A v \in Workers : /\ Dealing(v) /\ worker[v].message.task = worker[w].message.task
                             /\ worker[v].message.life = worker[w].message.life
                             => v = w

\* A task that was sent has a token, or its end.
Accounted == \A d \in sent : Lives(d) # {} \/ d \in succeeded \/ rows[d] > 0 \/ d \in unburied

Ends(d) == rows[d] + (IF d \in succeeded THEN 1 ELSE 0)

\* Every end of a task has used up a token, and only lost workers make new ones.
Counted == \A d \in Posts : Ends(d) + Cardinality(Lives(d)) <= 1 + losses

UnsentHaveNothing == \A d \in Posts \ sent : rows[d] = 0

TasksOK == TokensDiffer /\ Accounted /\ Counted /\ UnsentHaveNothing

DeliveriesInv == DeliveriesTyped /\ InboxOK /\ TasksOK

-----------------------------------------------------------------------------
LEMMA LivesFinite ==
  ASSUME DeliveriesTyped, NEW d
  PROVE  /\ IsFiniteSet(Lives(d)) /\ Cardinality(Lives(d)) \in Nat
         /\ losses \in Nat
         /\ \A l \in Lives(d) : l <= losses
<1>1. losses \in Nat /\ 0..losses = 0..losses
  BY DeliveriesAssumption DEF DeliveriesTyped
<1>2. IsFiniteSet(0..losses) /\ Lives(d) \subseteq 0..losses
  BY <1>1, FS_Interval DEF Lives
<1>3. IsFiniteSet(Lives(d))
  BY <1>2, FS_Subset
<1> QED
  BY <1>1, <1>2, <1>3, FS_CardinalityType

LEMMA DeliveriesInitOK == DeliveriesInit => DeliveriesInv
<1> SUFFICES ASSUME DeliveriesInit PROVE DeliveriesInv
  OBVIOUS
<1>1. DeliveriesTyped
  BY DeliveriesAssumption DEF DeliveriesInit, DeliveriesTyped, PostStates
<1>2. InboxOK
  BY DEF DeliveriesInit, InboxOK, PostOK, RecordedWasSent, TwiceOnlyAfterFailure
<1>3. \A w \in Workers : ~Dealing(w)
  BY DEF DeliveriesInit, Dealing, Asleep
<1>4. \A d : Lives(d) = {}
  BY <1>3 DEF DeliveriesInit, Lives, Token
<1>5. TasksOK
  BY <1>3, <1>4, FS_EmptySet
     DEF DeliveriesInit, TasksOK, TokensDiffer, Accounted, Counted, UnsentHaveNothing, Ends
<1> QED
  BY <1>1, <1>2, <1>5 DEF DeliveriesInv

-----------------------------------------------------------------------------
(* The inbox                                                               *)

\* A step of a delivery that sends nothing leaves the tasks as they are.
LEMMA TasksRest ==
  ASSUME DeliveriesInv, UNCHANGED <<sent, taskVars>>
  PROVE  TasksOK'
<1>1. \A d : Lives(d)' = Lives(d)
  BY DEF Lives, Token, Dealing, taskVars
<1>2. Accounted' /\ Counted'
  BY <1>1 DEF DeliveriesInv, TasksOK, Accounted, Counted, Ends, taskVars
<1>3. TokensDiffer' /\ UnsentHaveNothing'
  BY DEF DeliveriesInv, TasksOK, TokensDiffer, UnsentHaveNothing, Dealing, taskVars
<1> QED
  BY <1>2, <1>3 DEF TasksOK

LEMMA PostTyped ==
  ASSUME DeliveriesInv, NEW d \in Posts, NEW code \in PostStates, Answer(d, code)
  PROVE  /\ post' \in [Posts -> PostStates] /\ post'[d] = code
         /\ \A e \in Posts \ {d} : post'[e] = post[e]
BY DEF DeliveriesInv, DeliveriesTyped, Answer

\* A delivery that goes on to no stage that holds its event's key.
LEMMA LetGo ==
  ASSUME DeliveriesInv, NEW d \in Posts, NEW code \in PostStates, Answer(d, code),
         UNCHANGED <<inbox, sent, taskVars>>,
         code \notin {"dispatching", "committing", "accepted"},
         d \in sent => code = "failed"
  PROVE  DeliveriesInv'
<1>1. /\ post' \in [Posts -> PostStates] /\ post'[d] = code
      /\ \A e \in Posts \ {d} : post'[e] = post[e]
  BY PostTyped
<1>2. DeliveriesTyped'
  BY <1>1 DEF DeliveriesInv, DeliveriesTyped, MessageType, taskVars, Events, Asleep, FirstTry
<1>3. \A e \in Posts : PostOK(e)'
  BY <1>1 DEF DeliveriesInv, InboxOK, PostOK, Held
<1>4. RecordedWasSent'
  BY DEF DeliveriesInv, InboxOK, RecordedWasSent
<1>5. TwiceOnlyAfterFailure'
  BY <1>1 DEF DeliveriesInv, DeliveriesTyped, InboxOK, TwiceOnlyAfterFailure
<1> QED
  BY <1>2, <1>3, <1>4, <1>5, TasksRest DEF DeliveriesInv, InboxOK

LEMMA ReceiveOK == ASSUME DeliveriesInv, NEW d \in Posts, Receive(d) PROVE DeliveriesInv'
<1>1. d \notin sent
  BY DEF DeliveriesInv, InboxOK, PostOK, Receive
<1> QED
  BY <1>1, LetGo DEF Receive, PostStates

LEMMA FailPostOK == ASSUME DeliveriesInv, NEW d \in Posts, FailPost(d) PROVE DeliveriesInv'
BY LetGo DEF FailPost, PostStates

LEMMA RecordOK == ASSUME DeliveriesInv, NEW d \in Posts, Record(d) PROVE DeliveriesInv'
<1>1. d \notin sent
  BY DEF DeliveriesInv, InboxOK, PostOK, Record
<1>2. CASE EventOf[d] \in inbox
  BY <1>1, <1>2, LetGo DEF Record, PostStates
<1>3. CASE EventOf[d] \notin inbox
  <2>1. Answer(d, "dispatching") /\ UNCHANGED <<inbox, sent, taskVars>> /\ ~Held(d)
    BY <1>3 DEF Record
  <2>2. /\ post' \in [Posts -> PostStates] /\ post'[d] = "dispatching"
        /\ \A e \in Posts \ {d} : post'[e] = post[e]
    BY <2>1, PostTyped DEF PostStates
  <2>3. DeliveriesTyped'
    BY <2>1, <2>2 DEF DeliveriesInv, DeliveriesTyped, MessageType, taskVars, Events, Asleep, FirstTry
  <2>4. \A e \in Posts : PostOK(e)'
    BY <1>1, <1>3, <2>1, <2>2 DEF DeliveriesInv, InboxOK, PostOK, Held
  <2>5. RecordedWasSent'
    BY <2>1 DEF DeliveriesInv, InboxOK, RecordedWasSent
  <2>6. TwiceOnlyAfterFailure'
    BY <1>1, <2>1, <2>2 DEF DeliveriesInv, DeliveriesTyped, InboxOK, TwiceOnlyAfterFailure
  <2> QED
    BY <2>1, <2>3, <2>4, <2>5, <2>6, TasksRest DEF DeliveriesInv, InboxOK
<1> QED
  BY <1>2, <1>3

LEMMA CommitEventOK == ASSUME DeliveriesInv, NEW d \in Posts, CommitEvent(d) PROVE DeliveriesInv'
<1>1. PICK code \in {"accepted", "failed"} : Answer(d, code)
  BY DEF CommitEvent
<1>2. /\ post' \in [Posts -> PostStates] /\ post'[d] = code
      /\ \A e \in Posts \ {d} : post'[e] = post[e]
  BY <1>1, PostTyped DEF PostStates
<1>3. UNCHANGED <<sent, taskVars>> /\ inbox' = inbox \cup {EventOf[d]} /\ post[d] = "committing"
  BY DEF CommitEvent
<1>4. d \in sent
  BY <1>3 DEF DeliveriesInv, InboxOK, PostOK
<1>5. DeliveriesTyped'
  BY <1>2, <1>3 DEF DeliveriesInv, DeliveriesTyped, MessageType, taskVars, Events, Asleep, FirstTry
<1>6. \A e \in Posts : PostOK(e)'
  <2> SUFFICES ASSUME NEW e \in Posts PROVE PostOK(e)'
    OBVIOUS
  <2>1. CASE e = d
    BY <1>2, <1>3, <1>4, <2>1 DEF PostOK
  <2>2. CASE e # d
    <3>1. PostOK(e) /\ PostOK(d)
      BY DEF DeliveriesInv, InboxOK
    <3>2. EventOf[e] # EventOf[d] \/ post[e] \notin {"dispatching", "committing"}
      BY <1>3, <2>2, <3>1 DEF PostOK, Held
    <3>3. ~Held(e) => ~Held(e)'
      BY <1>1, <1>2, <1>3 DEF Held
    <3> QED
      BY <1>2, <1>3, <2>2, <3>1, <3>2, <3>3 DEF PostOK
  <2> QED
    BY <2>1, <2>2
<1>7. RecordedWasSent'
  BY <1>3, <1>4 DEF DeliveriesInv, InboxOK, RecordedWasSent
<1>8. TwiceOnlyAfterFailure'
  BY <1>1, <1>2, <1>3 DEF DeliveriesInv, DeliveriesTyped, InboxOK, TwiceOnlyAfterFailure
<1> QED
  BY <1>3, <1>5, <1>6, <1>7, <1>8, TasksRest DEF DeliveriesInv, InboxOK

-----------------------------------------------------------------------------
(* The tasks                                                               *)

\* A step of the tasks alone leaves the inbox as it is.
LEMMA InboxRests ==
  ASSUME DeliveriesInv, UNCHANGED inboxVars
  PROVE  InboxOK'
BY DEF DeliveriesInv, InboxOK, PostOK, Held, RecordedWasSent, TwiceOnlyAfterFailure, inboxVars

\* What a worker that is dealing with a message holds.
LEMMA InHands ==
  ASSUME DeliveriesTyped, NEW w \in Workers, worker[w].step \in {"running", "burying", "done"}
  PROVE  /\ worker[w].message \in MessageType
         /\ worker[w].message.task \in sent /\ worker[w].message.task \in Posts
         /\ worker[w].message.life \in 0..losses
         /\ Dealing(w) => worker[w].message.life \in Lives(worker[w].message.task)
<1>1. worker[w].message \in MessageType
  BY DEF DeliveriesTyped, Asleep
<1>2. worker[w].message.task \in sent /\ worker[w].message.life \in 0..losses
  BY <1>1 DEF MessageType
<1> QED
  BY <1>1, <1>2 DEF DeliveriesTyped, Lives, Token

LEMMA HandleEventOK == ASSUME DeliveriesInv, NEW d \in Posts, HandleEvent(d) PROVE DeliveriesInv'
<1>1. /\ post' \in [Posts -> PostStates] /\ post'[d] = "committing"
      /\ \A e \in Posts \ {d} : post'[e] = post[e]
  BY PostTyped DEF HandleEvent, PostStates
<1>2. /\ sent' = sent \cup {d} /\ broker' = broker \cup {FirstTry(d)}
      /\ UNCHANGED <<inbox, worker, losses, succeeded, rows, unburied>>
      /\ post[d] = "dispatching" /\ EventOf[d] \notin inbox /\ ~Held(d)
  BY DEF HandleEvent, Ready, DeliveriesInv, InboxOK, PostOK
<1>3. d \notin sent
  BY <1>2 DEF DeliveriesInv, InboxOK, PostOK
<1>4. losses \in Nat /\ FirstTry(d) \in MessageType' /\ MessageType \subseteq MessageType'
  BY <1>2, DeliveriesAssumption DEF DeliveriesInv, DeliveriesTyped, MessageType, FirstTry
<1>5. DeliveriesTyped'
  BY <1>1, <1>2, <1>4 DEF DeliveriesInv, DeliveriesTyped, Events, Asleep
<1>6. InboxOK'
  <2>1. \A e \in Posts : PostOK(e)'
    BY <1>1, <1>2 DEF DeliveriesInv, InboxOK, PostOK, Held
  <2>2. RecordedWasSent'
    BY <1>2 DEF DeliveriesInv, InboxOK, RecordedWasSent
  <2>3. TwiceOnlyAfterFailure'
    <3> SUFFICES ASSUME NEW e \in sent, e # d, EventOf[e] = EventOf[d]
                 PROVE  post[e] = "failed"
      BY <1>1, <1>2 DEF DeliveriesInv, DeliveriesTyped, InboxOK, TwiceOnlyAfterFailure
    <3>1. e \in Posts /\ PostOK(e)
      BY DEF DeliveriesInv, DeliveriesTyped, InboxOK
    <3> QED
      BY <1>2, <3>1 DEF PostOK, Held
  <2> QED
    BY <2>1, <2>2, <2>3 DEF InboxOK
<1>7. \A m \in broker : m.task # d
  BY <1>3 DEF DeliveriesInv, DeliveriesTyped, MessageType
<1>8. \A w \in Workers : /\ Dealing(w)' <=> Dealing(w)
                         /\ Dealing(w) => worker[w].message.task # d
  BY <1>2, <1>3, InHands DEF DeliveriesInv, Dealing
<1>9. FirstTry(d).task = d /\ FirstTry(d).life = 0
  BY DEF FirstTry
<1>10. Lives(d)' = {0}
  BY <1>2, <1>4, <1>7, <1>8, <1>9 DEF Lives, Token
<1>11. \A e \in Posts \ {d} : Lives(e)' = Lives(e)
  BY <1>2, <1>8, <1>9 DEF Lives, Token
<1>12. TokensDiffer'
  BY <1>2, <1>7, <1>8, <1>9 DEF DeliveriesInv, TasksOK, TokensDiffer
<1>13. Accounted'
  BY <1>2, <1>10, <1>11 DEF DeliveriesInv, DeliveriesTyped, TasksOK, Accounted
<1>14. Counted'
  <2>1. rows[d] = 0 /\ d \notin succeeded /\ Cardinality({0}) = 1
    BY <1>3, FS_Singleton DEF DeliveriesInv, DeliveriesTyped, TasksOK, UnsentHaveNothing
  <2>2. \A e \in Posts : Ends(e)' = Ends(e)
    BY <1>2 DEF Ends
  <2>3. Ends(d) = 0
    BY <2>1 DEF Ends
  <2>4. Ends(d)' + Cardinality(Lives(d)') <= 1 + losses'
    BY <1>2, <1>4, <1>10, <2>1, <2>2, <2>3
  <2> QED
    BY <1>2, <1>11, <2>2, <2>4 DEF DeliveriesInv, TasksOK, Counted
<1>15. UnsentHaveNothing'
  BY <1>2 DEF DeliveriesInv, TasksOK, UnsentHaveNothing
<1> QED
  BY <1>5, <1>6, <1>12, <1>13, <1>14, <1>15 DEF DeliveriesInv, TasksOK

\* What the steps of a worker have in common: they touch its own state only.
LEMMA WorkerTyped ==
  ASSUME DeliveriesTyped, NEW w \in Workers, NEW rec, worker' = [worker EXCEPT ![w] = rec]
  PROVE  /\ DOMAIN worker' = Workers /\ worker' = [v \in Workers |-> worker'[v]]
         /\ worker'[w] = rec /\ \A v \in Workers \ {w} : worker'[v] = worker[v]
BY DEF DeliveriesTyped

\* Steps that leave every token where it is or move it on.
LEMMA SameLives ==
  ASSUME DeliveriesInv, DeliveriesTyped', TokensDiffer', UNCHANGED inboxVars,
         \A d \in Posts : Lives(d)' = Lives(d),
         UNCHANGED <<losses, succeeded, rows, unburied>>
  PROVE  DeliveriesInv'
<1>1. Accounted'
  BY DEF DeliveriesInv, DeliveriesTyped, TasksOK, Accounted, inboxVars
<1>2. \A d \in Posts : Ends(d)' = Ends(d)
  BY DEF Ends
<1>3. Counted'
  BY <1>2 DEF DeliveriesInv, TasksOK, Counted
<1>4. UnsentHaveNothing'
  BY DEF DeliveriesInv, TasksOK, UnsentHaveNothing, inboxVars
<1> QED
  BY <1>1, <1>3, <1>4, InboxRests DEF DeliveriesInv, TasksOK

LEMMA TakeOK == ASSUME DeliveriesInv, NEW w \in Workers, Take(w) PROVE DeliveriesInv'
<1>1. PICK m \in broker : /\ worker[w].step = "idle" /\ broker' = broker \ {m}
                          /\ worker' = [worker EXCEPT ![w] = [step |-> "running", message |-> m]]
                          /\ UNCHANGED <<inboxVars, losses, succeeded, rows, unburied>>
  BY DEF Take, Works
<1>2. /\ DOMAIN worker' = Workers /\ worker' = [v \in Workers |-> worker'[v]]
      /\ worker'[w] = [step |-> "running", message |-> m]
      /\ \A v \in Workers \ {w} : worker'[v] = worker[v]
  BY <1>1, WorkerTyped DEF DeliveriesInv
<1>3. m \in MessageType /\ MessageType' = MessageType
  BY <1>1 DEF DeliveriesInv, DeliveriesTyped, MessageType, inboxVars
<1>4. DeliveriesTyped'
  BY <1>1, <1>2, <1>3 DEF DeliveriesInv, DeliveriesTyped, Events, inboxVars, Asleep
<1>5. /\ ~Dealing(w) /\ Dealing(w)' /\ worker'[w].message = m
      /\ \A v \in Workers \ {w} : Dealing(v)' <=> Dealing(v)
  BY <1>1, <1>2 DEF Dealing
<1>6. \A d, l : Token(d, l)' <=> Token(d, l)
  BY <1>1, <1>2, <1>5 DEF Token
<1>7. \A d : Lives(d)' = Lives(d)
  BY <1>1, <1>6 DEF Lives
<1>8. TokensDiffer'
  BY <1>1, <1>2, <1>5 DEF DeliveriesInv, TasksOK, TokensDiffer
<1> QED
  BY <1>1, <1>4, <1>7, <1>8, SameLives
LEMMA SucceedOK == ASSUME DeliveriesInv, NEW w \in Workers, Succeed(w) PROVE DeliveriesInv'
<1> PICK m : m = worker[w].message
  OBVIOUS
<1> DEFINE t == m.task
<1>1. /\ worker' = [worker EXCEPT ![w] = [step |-> "done", message |-> m]]
      /\ succeeded' = succeeded \cup {t} /\ worker[w].step = "running"
      /\ UNCHANGED <<inboxVars, broker, losses, rows, unburied>>
  BY DEF Succeed, Works
<1>2. /\ DOMAIN worker' = Workers /\ worker' = [v \in Workers |-> worker'[v]]
      /\ worker'[w] = [step |-> "done", message |-> m]
      /\ \A v \in Workers \ {w} : worker'[v] = worker[v]
  BY <1>1, WorkerTyped DEF DeliveriesInv
<1>3. /\ m \in MessageType /\ t \in sent /\ t \in Posts /\ MessageType' = MessageType
      /\ m.life \in Lives(t)
  BY <1>1, InHands DEF DeliveriesInv, MessageType, inboxVars, Dealing
<1>4. DeliveriesTyped'
  BY <1>1, <1>2, <1>3 DEF DeliveriesInv, DeliveriesTyped, Events, inboxVars, Asleep
<1>5. /\ Dealing(w) /\ ~Dealing(w)'
      /\ \A v \in Workers \ {w} : Dealing(v)' <=> Dealing(v)
  BY <1>1, <1>2 DEF Dealing
<1>6. Lives(t)' = Lives(t) \ {m.life}
  BY <1>1, <1>2, <1>5 DEF Lives, Token, DeliveriesInv, TasksOK, TokensDiffer
<1>7. \A d \in Posts \ {t} : Lives(d)' = Lives(d)
  BY <1>1, <1>2, <1>5 DEF Lives, Token
<1>8. TokensDiffer'
  BY <1>1, <1>2, <1>5 DEF DeliveriesInv, TasksOK, TokensDiffer
<1>9. Accounted'
  BY <1>1, <1>3, <1>7 DEF DeliveriesInv, DeliveriesTyped, TasksOK, Accounted, inboxVars
<1>10. Counted'
  <2>1. IsFiniteSet(Lives(t)) /\ Cardinality(Lives(t)) \in Nat /\ losses \in Nat
    BY LivesFinite DEF DeliveriesInv
  <2>2. Cardinality(Lives(t)') = Cardinality(Lives(t)) - 1
    BY <1>3, <1>6, <2>1, FS_RemoveElement
  <2>3. rows[t] \in Nat /\ Ends(t)' <= Ends(t) + 1 /\ Ends(t) \in Nat /\ Ends(t)' \in Nat
    BY <1>1, <1>3 DEF DeliveriesInv, DeliveriesTyped, Ends
  <2>4. Ends(t) + Cardinality(Lives(t)) <= 1 + losses
    BY <1>3 DEF DeliveriesInv, TasksOK, Counted
  <2>5. Ends(t)' + Cardinality(Lives(t)') <= 1 + losses'
    BY <1>1, <2>1, <2>2, <2>3, <2>4
  <2>6. \A d \in Posts \ {t} : Ends(d)' = Ends(d)
    BY <1>1 DEF Ends
  <2> QED
    BY <1>1, <1>7, <2>5, <2>6 DEF DeliveriesInv, TasksOK, Counted
<1>11. UnsentHaveNothing'
  BY <1>1 DEF DeliveriesInv, TasksOK, UnsentHaveNothing, inboxVars
<1> QED
  BY <1>1, <1>4, <1>8, <1>9, <1>10, <1>11, InboxRests DEF DeliveriesInv, TasksOK

LEMMA RaiseOK == ASSUME DeliveriesInv, NEW w \in Workers, Raise(w) PROVE DeliveriesInv'
<1> PICK m : m = worker[w].message
  OBVIOUS
<1> PICK again : again = [m EXCEPT !.retries = @ + 1]
  OBVIOUS
<1>1. worker[w].step = "running" /\ UNCHANGED <<inboxVars, losses, succeeded, rows, unburied>>
  BY DEF Raise
<1>2. /\ m \in MessageType /\ MessageType' = MessageType /\ m.task \in Posts
      /\ m.life \in Lives(m.task)
  BY <1>1, InHands DEF DeliveriesInv, MessageType, inboxVars, Dealing
<1>3. CASE m.retries < MaxRetries
  <2>1. /\ worker' = [worker EXCEPT ![w] = [step |-> "done", message |-> m]]
        /\ broker' = broker \cup {again}
    BY <1>3 DEF Raise, Works, Ready
  <2>2. /\ DOMAIN worker' = Workers /\ worker' = [v \in Workers |-> worker'[v]]
        /\ worker'[w] = [step |-> "done", message |-> m]
        /\ \A v \in Workers \ {w} : worker'[v] = worker[v]
    BY <2>1, WorkerTyped DEF DeliveriesInv
  <2>3. again \in MessageType /\ again.task = m.task /\ again.life = m.life
    BY <1>2, <1>3, DeliveriesAssumption DEF MessageType
  <2>4. DeliveriesTyped'
    BY <1>1, <1>2, <2>1, <2>2, <2>3 DEF DeliveriesInv, DeliveriesTyped, Events, inboxVars, Asleep
  <2>5. /\ Dealing(w) /\ ~Dealing(w)'
        /\ \A v \in Workers \ {w} : Dealing(v)' <=> Dealing(v)
    BY <1>1, <2>2 DEF Dealing
  <2>6. \A d, l : Token(d, l)' <=> Token(d, l)
    <3> SUFFICES ASSUME NEW d, NEW l PROVE Token(d, l)' <=> Token(d, l)
      OBVIOUS
    <3>1. CASE d = m.task /\ l = m.life
      BY <2>1, <2>3, <2>5, <3>1 DEF Token
    <3>2. CASE ~(d = m.task /\ l = m.life)
      BY <2>1, <2>2, <2>3, <2>5, <3>2 DEF Token
    <3> QED
      BY <3>1, <3>2
  <2>7. \A d : Lives(d)' = Lives(d)
    BY <1>1, <2>6 DEF Lives
  <2>8. TokensDiffer'
    <3>1. TokensDiffer
      BY DEF DeliveriesInv, TasksOK
    <3>2. \A n \in broker : n.task = m.task => n.life # m.life
      BY <2>5, <3>1 DEF TokensDiffer
    <3>3. \A n, o \in broker' : n.task = o.task /\ n.life = o.life => n = o
      <4> SUFFICES ASSUME NEW n \in broker', NEW o \in broker',
                          n.task = o.task, n.life = o.life
                   PROVE  n = o
        OBVIOUS
      <4>1. CASE n \in broker /\ o \in broker
        BY <3>1, <4>1 DEF TokensDiffer
      <4>2. CASE n = again
        BY <2>1, <2>3, <3>2, <4>2
      <4>3. CASE o = again
        BY <2>1, <2>3, <3>2, <4>3
      <4> QED
        BY <2>1, <4>1, <4>2, <4>3
    <3>4. ASSUME NEW v \in Workers, Dealing(v)'
          PROVE  /\ Dealing(v) /\ v # w /\ worker'[v] = worker[v]
                 /\ worker[v].message.task = m.task => worker[v].message.life # m.life
      <4>1. v # w /\ Dealing(v) /\ worker'[v] = worker[v]
        BY <2>2, <2>5, <3>4
      <4> QED
        BY <2>5, <3>1, <4>1 DEF TokensDiffer
    <3>5. \A v \in Workers : Dealing(v)' => \A n \in broker' :
            n.task = worker'[v].message.task => n.life # worker'[v].message.life
      <4> SUFFICES ASSUME NEW v \in Workers, Dealing(v)', NEW n \in broker',
                          n.task = worker'[v].message.task, n.life = worker'[v].message.life
                   PROVE  FALSE
        OBVIOUS
      <4>1. Dealing(v) /\ worker'[v] = worker[v] /\ n \in broker
        <5>1. Dealing(v) /\ worker'[v] = worker[v] /\ v \in Workers
          BY <3>4
        <5>2. worker[v].message.task = m.task => worker[v].message.life # m.life
          BY <3>4
        <5>3. n # again
          <6> SUFFICES ASSUME n = again PROVE FALSE
            OBVIOUS
          <6>1. n.task = m.task /\ n.life = m.life
            BY <2>3
          <6> QED
            BY <5>1, <5>2, <6>1
        <5> QED
          BY <2>1, <5>1, <5>3
      <4> QED
        BY <3>1, <4>1 DEF TokensDiffer
    <3>6. \A v, u \in Workers :
            /\ Dealing(v)' /\ Dealing(u)' /\ worker'[u].message.task = worker'[v].message.task
            /\ worker'[u].message.life = worker'[v].message.life
            => u = v
      BY <3>1, <3>4 DEF TokensDiffer
    <3> QED
      BY <3>3, <3>5, <3>6 DEF TokensDiffer
  <2> QED
    BY <1>1, <2>4, <2>7, <2>8, SameLives
<1>4. CASE ~(m.retries < MaxRetries)
  <2>1. worker' = [worker EXCEPT ![w] = [step |-> "burying", message |-> m]] /\ broker' = broker
    BY <1>4 DEF Raise, Works
  <2>2. /\ DOMAIN worker' = Workers /\ worker' = [v \in Workers |-> worker'[v]]
        /\ worker'[w] = [step |-> "burying", message |-> m]
        /\ \A v \in Workers \ {w} : worker'[v] = worker[v]
    BY <2>1, WorkerTyped DEF DeliveriesInv
  <2>3. DeliveriesTyped'
    BY <1>1, <1>2, <2>1, <2>2 DEF DeliveriesInv, DeliveriesTyped, Events, inboxVars, Asleep
  <2>4. \A v \in Workers : Dealing(v)' = Dealing(v) /\ worker'[v].message = worker[v].message
    BY <1>1, <2>2 DEF Dealing
  <2>5. \A d : Lives(d)' = Lives(d)
    BY <1>1, <2>1, <2>4 DEF Lives, Token
  <2>6. TokensDiffer'
    BY <2>1, <2>4 DEF DeliveriesInv, TasksOK, TokensDiffer
  <2> QED
    BY <1>1, <2>3, <2>5, <2>6, SameLives
<1> QED
  BY <1>3, <1>4

LEMMA OnFailureOK == ASSUME DeliveriesInv, NEW w \in Workers, OnFailure(w) PROVE DeliveriesInv'
<1> PICK m : m = worker[w].message
  OBVIOUS
<1> DEFINE t == m.task
<1>1. /\ worker' = [worker EXCEPT ![w] = [step |-> "done", message |-> m]]
      /\ worker[w].step = "burying"
      /\ UNCHANGED <<inboxVars, broker, losses, succeeded>>
      /\ \/ rows' = [rows EXCEPT ![t] = @ + 1] /\ UNCHANGED unburied
         \/ unburied' = unburied \cup {t} /\ UNCHANGED rows
  BY DEF OnFailure, Works
<1>2. /\ DOMAIN worker' = Workers /\ worker' = [v \in Workers |-> worker'[v]]
      /\ worker'[w] = [step |-> "done", message |-> m]
      /\ \A v \in Workers \ {w} : worker'[v] = worker[v]
  BY <1>1, WorkerTyped DEF DeliveriesInv
<1>3. /\ m \in MessageType /\ t \in sent /\ t \in Posts /\ MessageType' = MessageType
      /\ m.life \in Lives(t)
  BY <1>1, InHands DEF DeliveriesInv, MessageType, inboxVars, Dealing
<1>4. /\ rows' \in [Posts -> Nat] /\ unburied' \subseteq sent
      /\ rows'[t] > 0 \/ t \in unburied'
      /\ \A d \in Posts : rows'[d] >= rows[d] /\ rows[d] \in Nat
      /\ \A d \in Posts \ {t} : rows'[d] = rows[d]
      /\ rows'[t] <= rows[t] + 1 /\ unburied \subseteq unburied'
  <2>1. rows \in [Posts -> Nat] /\ unburied \subseteq sent
    BY DEF DeliveriesInv, DeliveriesTyped
  <2> QED
    BY <1>1, <1>3, <2>1
<1>5. DeliveriesTyped'
  BY <1>1, <1>2, <1>3, <1>4 DEF DeliveriesInv, DeliveriesTyped, Events, inboxVars, Asleep
<1>6. /\ Dealing(w) /\ ~Dealing(w)'
      /\ \A v \in Workers \ {w} : Dealing(v)' <=> Dealing(v)
  BY <1>1, <1>2 DEF Dealing
<1>7. Lives(t)' = Lives(t) \ {m.life}
  BY <1>1, <1>2, <1>6 DEF Lives, Token, DeliveriesInv, TasksOK, TokensDiffer
<1>8. \A d \in Posts \ {t} : Lives(d)' = Lives(d)
  BY <1>1, <1>2, <1>6 DEF Lives, Token
<1>9. TokensDiffer'
  BY <1>1, <1>2, <1>6 DEF DeliveriesInv, TasksOK, TokensDiffer
<1>10. Accounted'
  <2> SUFFICES ASSUME NEW d \in sent, d # t
               PROVE  Lives(d)' # {} \/ d \in succeeded' \/ rows'[d] > 0 \/ d \in unburied'
    BY <1>1, <1>3, <1>4 DEF Accounted, inboxVars
  <2>1. d \in Posts
    BY DEF DeliveriesInv, DeliveriesTyped
  <2>2. Lives(d) # {} \/ d \in succeeded \/ rows[d] > 0 \/ d \in unburied
    BY DEF DeliveriesInv, TasksOK, Accounted
  <2> QED
    BY <1>1, <1>4, <1>8, <2>1, <2>2
<1>11. Counted'
  <2>1. IsFiniteSet(Lives(t)) /\ Cardinality(Lives(t)) \in Nat /\ losses \in Nat
    BY LivesFinite DEF DeliveriesInv
  <2>2. Cardinality(Lives(t)') = Cardinality(Lives(t)) - 1
    BY <1>3, <1>7, <2>1, FS_RemoveElement
  <2>3. Ends(t)' <= Ends(t) + 1 /\ Ends(t) \in Nat /\ Ends(t)' \in Nat
    <3>1. rows[t] \in Nat /\ rows'[t] \in Nat /\ rows'[t] <= rows[t] + 1
      BY <1>3, <1>4 DEF DeliveriesInv, DeliveriesTyped
    <3> QED
      BY <1>1, <3>1 DEF Ends
  <2>4. Ends(t) + Cardinality(Lives(t)) <= 1 + losses
    BY <1>3 DEF DeliveriesInv, TasksOK, Counted
  <2>5. Ends(t)' + Cardinality(Lives(t)') <= 1 + losses'
    BY <1>1, <2>1, <2>2, <2>3, <2>4
  <2>6. \A d \in Posts \ {t} : Ends(d)' = Ends(d)
    BY <1>1, <1>4 DEF Ends
  <2> QED
    BY <1>1, <1>8, <2>5, <2>6 DEF DeliveriesInv, TasksOK, Counted
<1>12. UnsentHaveNothing'
  BY <1>1, <1>3, <1>4 DEF DeliveriesInv, TasksOK, UnsentHaveNothing, inboxVars
<1> QED
  BY <1>1, <1>5, <1>9, <1>10, <1>11, <1>12, InboxRests DEF DeliveriesInv, TasksOK

LEMMA AcknowledgeOK == ASSUME DeliveriesInv, NEW w \in Workers, Acknowledge(w) PROVE DeliveriesInv'
<1>1. /\ worker' = [worker EXCEPT ![w] = Asleep] /\ worker[w].step = "done"
      /\ UNCHANGED <<inboxVars, broker, losses, succeeded, rows, unburied>>
  BY DEF Acknowledge
<1>2. /\ DOMAIN worker' = Workers /\ worker' = [v \in Workers |-> worker'[v]]
      /\ worker'[w] = Asleep /\ \A v \in Workers \ {w} : worker'[v] = worker[v]
  BY <1>1, WorkerTyped DEF DeliveriesInv
<1>3. DeliveriesTyped'
  BY <1>1, <1>2 DEF DeliveriesInv, DeliveriesTyped, MessageType, Events, inboxVars, Asleep
<1>4. ~Dealing(w) /\ ~Dealing(w)' /\ \A v \in Workers \ {w} : Dealing(v)' <=> Dealing(v)
  BY <1>1, <1>2 DEF Dealing, Asleep
<1>5. \A d : Lives(d)' = Lives(d)
  BY <1>1, <1>2, <1>4 DEF Lives, Token
<1>6. TokensDiffer'
  BY <1>1, <1>2, <1>4 DEF DeliveriesInv, TasksOK, TokensDiffer
<1> QED
  BY <1>1, <1>3, <1>5, <1>6, SameLives
\* A worker that is lost moves a token to a life of its own, or makes one.
LEMMA LoseWorkerOK == ASSUME DeliveriesInv, NEW w \in Workers, LoseWorker(w) PROVE DeliveriesInv'
<1> PICK m : m = worker[w].message
  OBVIOUS
<1> PICK next : next = losses + 1
  OBVIOUS
<1> PICK back : back = [m EXCEPT !.life = next]
  OBVIOUS
<1> DEFINE t == m.task
<1>1. /\ worker' = [worker EXCEPT ![w] = Asleep] /\ broker' = broker \cup {back}
      /\ losses < MaxLosses /\ losses' = losses + 1 /\ losses' = next
      /\ UNCHANGED <<inboxVars, succeeded, rows, unburied>>
  BY DEF LoseWorker, Ready
<1>2. worker[w].step \in {"running", "burying", "done"}
  BY DEF LoseWorker, DeliveriesInv, DeliveriesTyped, Asleep
<1>3. /\ m \in MessageType /\ t \in sent /\ t \in Posts
      /\ m.life \in 0..losses /\ losses \in Nat
      /\ Dealing(w) => m.life \in Lives(t)
  BY <1>2, InHands, LivesFinite DEF DeliveriesInv
<1>4. /\ DOMAIN worker' = Workers /\ worker' = [v \in Workers |-> worker'[v]]
      /\ worker'[w] = Asleep /\ \A v \in Workers \ {w} : worker'[v] = worker[v]
  BY <1>1, WorkerTyped DEF DeliveriesInv
<1>5. back \in MessageType' /\ back.task = t /\ back.life = next
  BY <1>1, <1>3 DEF MessageType, inboxVars
<1>6. MessageType \subseteq MessageType'
  BY <1>1, <1>3 DEF MessageType, inboxVars
<1>7. DeliveriesTyped'
  <2>1. broker' \subseteq MessageType' /\ losses' \in 0..MaxLosses
    BY <1>1, <1>3, <1>5, <1>6, DeliveriesAssumption DEF DeliveriesInv, DeliveriesTyped
  <2>2. \A v \in Workers : \/ worker'[v] = Asleep'
                           \/ worker'[v] \in [step : {"running", "burying", "done"},
                                              message : MessageType']
    BY <1>4, <1>6 DEF DeliveriesInv, DeliveriesTyped, Asleep, FirstTry
  <2> QED
    BY <1>1, <1>4, <2>1, <2>2 DEF DeliveriesInv, DeliveriesTyped, Events, inboxVars
<1>8. ~Dealing(w)' /\ \A v \in Workers \ {w} : Dealing(v)' <=> Dealing(v)
  BY <1>4 DEF Dealing, Asleep, FirstTry
<1>9. /\ \A n \in broker : n.life \in 0..losses
      /\ \A v \in Workers : Dealing(v) => worker[v].message.life \in 0..losses
  BY InHands DEF DeliveriesInv, DeliveriesTyped, MessageType, Dealing
<1>10. \A d \in Posts \ {t} : Lives(d)' = Lives(d)
  <2> SUFFICES ASSUME NEW d \in Posts \ {t}, NEW l
               PROVE  l \in Lives(d)' <=> l \in Lives(d)
    BY DEF Lives
  <2>1. Token(d, l)' => Token(d, l)
    BY <1>1, <1>4, <1>5, <1>8 DEF Token
  <2>2. Token(d, l) => Token(d, l)'
    <3>1. Dealing(w) => worker[w].message.task # d
      OBVIOUS
    <3> QED
      BY <1>1, <1>4, <1>8, <3>1 DEF Token
  <2>3. Token(d, l) => l \in 0..losses
    BY <1>9 DEF Token
  <2> QED
    BY <1>1, <1>3, <2>1, <2>2, <2>3 DEF Lives
<1>11. /\ next \in Lives(t)' /\ next \notin Lives(t)
       /\ Lives(t)' \subseteq (IF Dealing(w) THEN Lives(t) \ {m.life} ELSE Lives(t)) \cup {next}
  <2>1. next \in Lives(t)' /\ next \notin Lives(t)
    <3>1. \E n \in broker' : n.task = t /\ n.life = next
      BY <1>1, <1>5
    <3>2. Token(t, next)'
      BY <1>1, <3>1 DEF Token
    <3> QED
      BY <1>1, <1>3, <3>2 DEF Lives
  <2> SUFFICES ASSUME NEW l \in Lives(t)', l # next
               PROVE  l \in Lives(t) /\ (Dealing(w) => l # m.life)
    BY <2>1
  <2>2. Token(t, l)'
    BY DEF Lives
  <2>3. \/ \E n \in broker : n.task = t /\ n.life = l
        \/ \E v \in Workers \ {w} : /\ Dealing(v) /\ worker[v].message.task = t
                                    /\ worker[v].message.life = l
    BY <1>1, <1>4, <1>5, <1>8, <2>2 DEF Token
  <2>4. Token(t, l) /\ l \in 0..losses
    BY <1>9, <2>3 DEF Token
  <2>5. Dealing(w) => l # m.life
    BY <2>3 DEF DeliveriesInv, TasksOK, TokensDiffer
  <2> QED
    BY <2>4, <2>5 DEF Lives
<1>12. TokensDiffer'
  <2>1. TokensDiffer
    BY DEF DeliveriesInv, TasksOK
  <2>2. \A n, o \in broker' : n.task = o.task /\ n.life = o.life => n = o
    <3> SUFFICES ASSUME NEW n \in broker', NEW o \in broker', n.life = o.life, n.task = o.task
                 PROVE  n = o
      OBVIOUS
    <3>1. CASE n \in broker /\ o \in broker
      BY <2>1, <3>1 DEF TokensDiffer
    <3>2. CASE n = back
      BY <1>1, <1>3, <1>5, <1>9, <3>2
    <3>3. CASE o = back
      BY <1>1, <1>3, <1>5, <1>9, <3>3
    <3> QED
      BY <1>1, <3>1, <3>2, <3>3
  <2>3. ASSUME NEW v \in Workers, Dealing(v)'
        PROVE  v # w /\ Dealing(v) /\ worker'[v] = worker[v]
               /\ worker[v].message.life # next
    BY <1>3, <1>4, <1>8, <1>9, <2>3
  <2>4. ASSUME NEW v \in Workers, Dealing(v)', NEW n \in broker',
               n.task = worker'[v].message.task, n.life = worker'[v].message.life
        PROVE  FALSE
    <3>1. Dealing(v) /\ worker'[v] = worker[v] /\ worker[v].message.life # next
      BY <2>3, <2>4
    <3>2. n # back
      BY <1>5, <2>4, <3>1
    <3> QED
      BY <1>1, <2>1, <2>4, <3>1, <3>2 DEF TokensDiffer
  <2>5. \A v, u \in Workers :
          /\ Dealing(v)' /\ Dealing(u)' /\ worker'[u].message.task = worker'[v].message.task
          /\ worker'[u].message.life = worker'[v].message.life
          => u = v
    BY <2>1, <2>3 DEF TokensDiffer
  <2> QED
    BY <2>2, <2>4, <2>5 DEF TokensDiffer
<1>13. Accounted'
  BY <1>1, <1>3, <1>10, <1>11 DEF DeliveriesInv, DeliveriesTyped, TasksOK, Accounted, inboxVars
<1>14. Counted'
  <2>1. IsFiniteSet(Lives(t)) /\ Cardinality(Lives(t)) \in Nat
    BY LivesFinite DEF DeliveriesInv
  <2>2. /\ IsFiniteSet(Lives(t) \cup {next})
        /\ Cardinality(Lives(t) \cup {next}) = Cardinality(Lives(t)) + 1
    BY <1>11, <2>1, FS_AddElement
  <2>3. Lives(t)' \subseteq Lives(t) \cup {next}
    BY <1>11
  <2>4. Cardinality(Lives(t)') \in Nat /\ Cardinality(Lives(t)') <= Cardinality(Lives(t)) + 1
    <3> HIDE DEF t
    <3> PICK L : L = Lives(t)'
      OBVIOUS
    <3>1. IsFiniteSet(L) /\ Cardinality(L) <= Cardinality(Lives(t)) + 1
      BY <2>2, <2>3, FS_Subset
    <3> QED
      BY <3>1, FS_CardinalityType
  <2>5. Ends(t) + Cardinality(Lives(t)) <= 1 + losses /\ Ends(t) \in Nat
    BY <1>3 DEF DeliveriesInv, DeliveriesTyped, TasksOK, Counted, Ends
  <2>6. \A d \in Posts : Ends(d)' = Ends(d)
    BY <1>1 DEF Ends
  <2>7. Ends(t)' + Cardinality(Lives(t)') <= 1 + losses'
    BY <1>1, <1>3, <2>1, <2>4, <2>5, <2>6
  <2>8. \A d \in Posts \ {t} : Ends(d) + Cardinality(Lives(d)) <= 1 + losses
    BY DEF DeliveriesInv, TasksOK, Counted
  <2>9. \A d \in Posts \ {t} : Ends(d) \in Nat /\ Cardinality(Lives(d)) \in Nat
    BY LivesFinite DEF DeliveriesInv, DeliveriesTyped, Ends
  <2> QED
    BY <1>1, <1>3, <1>10, <2>6, <2>7, <2>8, <2>9 DEF Counted
<1>15. UnsentHaveNothing'
  BY <1>1 DEF DeliveriesInv, TasksOK, UnsentHaveNothing, inboxVars
<1> QED
  BY <1>1, <1>7, <1>12, <1>13, <1>14, <1>15, InboxRests DEF DeliveriesInv, TasksOK

-----------------------------------------------------------------------------
LEMMA DeliveriesNextOK == DeliveriesInv /\ [DeliveriesNext]_deliveryVars => DeliveriesInv'
<1> SUFFICES ASSUME DeliveriesInv, [DeliveriesNext]_deliveryVars PROVE DeliveriesInv'
  OBVIOUS
<1>1. ASSUME NEW d \in Posts, ReceiveWebhook(d) PROVE DeliveriesInv'
  BY <1>1, ReceiveOK, RecordOK, HandleEventOK, CommitEventOK, FailPostOK DEF ReceiveWebhook
<1>2. ASSUME NEW w \in Workers, Work(w) PROVE DeliveriesInv'
  BY <1>2, TakeOK, SucceedOK, RaiseOK, OnFailureOK, AcknowledgeOK DEF Work
<1>3. ASSUME NEW w \in Workers, LoseWorker(w) PROVE DeliveriesInv'
  BY <1>3, LoseWorkerOK
<1>4. CASE UNCHANGED deliveryVars
  <2>1. DeliveriesTyped'
    BY <1>4 DEF DeliveriesInv, DeliveriesTyped, MessageType, Events, deliveryVars, inboxVars,
                taskVars, Asleep, FirstTry
  <2> QED
    BY <1>4, <2>1, InboxRests, TasksRest DEF DeliveriesInv, deliveryVars, inboxVars
<1> QED
  BY <1>1, <1>2, <1>3, <1>4 DEF DeliveriesNext

LEMMA DeliveriesInvHolds == DeliveriesSpec => []DeliveriesInv
BY DeliveriesInitOK, DeliveriesNextOK, PTL DEF DeliveriesSpec

LEMMA DeliveriesInvImplies == DeliveriesInv => DeliveriesTypeOK /\ DeliveriesSound
<1> SUFFICES ASSUME DeliveriesInv PROVE DeliveriesTypeOK /\ DeliveriesSound
  OBVIOUS
<1>1. Messages \subseteq MessageType
  BY InHands DEF DeliveriesInv, DeliveriesTyped, Messages, InHand, Asleep
<1>2. \A d \in Posts : /\ rows[d] \in Nat /\ losses \in Nat /\ losses <= MaxLosses
                       /\ Cardinality(Lives(d)) \in Nat /\ Ends(d) <= 1 + losses
                       /\ rows[d] <= Ends(d) /\ Ends(d) \in Nat
  <2> TAKE d \in Posts
  <2>1. rows[d] \in Nat /\ losses \in Nat /\ losses <= MaxLosses /\ Cardinality(Lives(d)) \in Nat
    BY LivesFinite, DeliveriesAssumption DEF DeliveriesInv, DeliveriesTyped
  <2>2. rows[d] <= Ends(d) /\ Ends(d) \in Nat
    BY <2>1 DEF Ends
  <2>3. Ends(d) + Cardinality(Lives(d)) <= 1 + losses
    BY DEF DeliveriesInv, TasksOK, Counted
  <2> QED
    BY <2>1, <2>2, <2>3
<1>3. rows \in [Posts -> 0..1 + MaxLosses]
  <2>1. rows = [d \in Posts |-> rows[d]] /\ MaxLosses \in Nat
    BY DeliveriesAssumption DEF DeliveriesInv, DeliveriesTyped
  <2>2. \A d \in Posts : rows[d] \in 0..1 + MaxLosses
    <3> TAKE d \in Posts
    <3> QED
      BY <1>2, <2>1
  <2> QED
    BY <2>1, <2>2
<1>4. DeliveriesTypeOK
  <2>1. \A w \in Workers : worker[w].step \in {"idle", "running", "burying", "done"}
    BY DEF DeliveriesInv, DeliveriesTyped, Asleep
  <2>2. Messages \subseteq [task : sent, retries : 0..MaxRetries, life : 0..losses]
    BY <1>1 DEF MessageType
  <2> QED
    BY <1>3, <2>1, <2>2 DEF DeliveriesInv, DeliveriesTyped, DeliveriesTypeOK, PostStates
<1>5. NoTaskVanishes
  <2> SUFFICES ASSUME NEW d \in sent, Lives(d) # {} PROVE Pending(d)
    BY DEF DeliveriesInv, TasksOK, Accounted, NoTaskVanishes
  <2>1. PICK l : Token(d, l)
    BY DEF Lives
  <2> QED
    BY <2>1 DEF Token, Pending, Messages, InHand, Dealing
<1>6. DeadLettersAreFinal
  BY <1>2 DEF DeadLettersAreFinal, Ends
<1> QED
  BY <1>4, <1>5, <1>6 DEF DeliveriesSound, DeliveriesInv, InboxOK

\* Every variable of the deliveries keeps its type.
THEOREM DeliveriesTypes == DeliveriesSpec => []DeliveriesTypeOK
BY DeliveriesInvHolds, DeliveriesInvImplies, PTL

\* Between the inbox, the broker, the workers and the dead letters no event and no
\* task is lost or doubled but for a failure on record, however many workers die.
THEOREM DeliveriesSafety == DeliveriesSpec => []DeliveriesSound
BY DeliveriesInvHolds, DeliveriesInvImplies, PTL

-----------------------------------------------------------------------------
(* Deployment                                                              *)

StagesIn(operation) ==
  CASE operation = "idle"     -> {"none"}
    [] operation = "deploy"   -> {"preparing", "recording", "migrating", "rolling", "checking"}
    [] operation = "rollback" -> {"choosing", "downgrading", "migrating", "rolling", "recording"}

Releases == [image : Images, rev : Nat]

DeployTyped ==
  /\ tenants \in BOOLEAN /\ schema \in Nat /\ recorded \in BOOLEAN
  /\ running \in [HostSet -> Images \cup {0}] /\ before \in Images \cup {0}
  /\ releases \in [HostSet -> Seq(Releases)]
  /\ doing \in {"idle", "deploy", "rollback"} /\ step \in StagesIn(doing)
  /\ passed \in 0..Len(Hosts)
  /\ target = Nothing \/ target \in Releases
  /\ step \notin {"none", "choosing"} => target \in Releases
  /\ checkout \in Images /\ operations \in 0..MaxOperations
  /\ last \in {"none", "deployed", "rolled back", "failed", "cancelled"}
  /\ doing # "idle" => last = "none"

\* Host h names the release that is placed as its last.
Names(h) == releases[h] # <<>> /\ Last(releases[h]) = target

\* What an operation places is in the history before it is placed: recorded on
\* every host by a deployment, found there by a rollback.
RecordsOK ==
  /\ step = "recording" => \A i \in 1..passed : Names(Hosts[i])
  /\ doing = "deploy" /\ step \in {"migrating", "rolling", "checking"} =>
       \A h \in HostSet : Names(h)
  /\ doing = "rollback" /\ step # "choosing" => \E i \in DOMAIN History : History[i] = target

PlacementOK ==
  /\ RunningIsTracked
  /\ step = "rolling" => \A i \in 1..passed : running[Hosts[i]] = target.image
  /\ step = "checking" \/ (doing = "rollback" /\ step = "recording") =>
       \A h \in HostSet : running[h] = target.image

SchemaOK == step = "rolling" /\ Honest => schema = Revision[target.image]

\* Where the release that was live when the workflow began is to be found.
UndoOK ==
  /\ doing = "deploy" /\ step = "preparing" => ~recorded
  /\ doing = "deploy" /\ step = "recording" => (recorded <=> passed > 0)
  /\ before # 0 /\ doing = "deploy" /\ ~recorded =>
       History # <<>> /\ Last(History).image = before
  /\ before # 0 /\ recorded /\ (doing = "deploy" \/ step = "choosing") =>
       Len(History) >= 2 /\ Previous.image = before
  /\ before # 0 /\ recorded /\ doing = "rollback" /\ step # "choosing" => target.image = before

\* What the operation that runs may still record on the i-th host.
Still(i) ==
  CASE doing = "idle"     -> 0
    [] doing = "deploy"   -> IF step = "preparing" \/ (step = "recording" /\ i > passed)
                             THEN 2 ELSE 1
    [] doing = "rollback" -> IF step = "recording" /\ i <= passed THEN 0 ELSE 1

CountOK == \A i \in DOMAIN Hosts : Len(releases[Hosts[i]]) + Still(i) <= 2 * operations

DeployInv == /\ DeployTyped /\ RecordsOK /\ PlacementOK /\ SchemaOK /\ UndoOK /\ CountOK
             /\ CurrentIsLive /\ RollbackUndoes

-----------------------------------------------------------------------------
(* Hosts, and the history                                                  *)

LEMMA HostFacts ==
  /\ Len(Hosts) \in Nat \ {0} /\ DOMAIN Hosts = 1..Len(Hosts)
  /\ \A i \in 1..Len(Hosts) : Hosts[i] \in HostSet
  /\ \A h \in HostSet : \E i \in 1..Len(Hosts) : h = Hosts[i]
  /\ \A i, j \in 1..Len(Hosts) : Hosts[i] = Hosts[j] => i = j
  /\ First \in HostSet /\ 0 \in 0..Len(Hosts)
<1>1. Hosts \in Seq(STRING) /\ Hosts # <<>> /\ IsInjective(Hosts)
  BY DeploymentAssumption
<1>2. Len(Hosts) \in Nat \ {0} /\ DOMAIN Hosts = 1..Len(Hosts)
  BY <1>1
<1> QED
  BY <1>1, <1>2 DEF IsInjective, HostSet, First

LEMMA RevisionFacts ==
  /\ Images = 1..Len(Revision) /\ Len(Revision) \in Nat \ {0} /\ 0 \notin Images
  /\ \A n \in Images : Revision[n] \in Nat \ {0}
  BY DeploymentAssumption DEF Images

LEMMA Counters ==
  ASSUME DeployTyped
  PROVE  /\ operations \in Nat /\ passed \in Nat /\ passed <= Len(Hosts)
         /\ schema \in Nat /\ target \in [image : Images \cup {0}, rev : Nat]
<1>1. operations \in 0..MaxOperations /\ MaxOperations \in Nat
  BY DeploymentAssumption DEF DeployTyped
<1>2. passed \in 0..Len(Hosts) /\ Len(Hosts) \in Nat
  BY HostFacts DEF DeployTyped
<1>3. schema \in Nat /\ (target = Nothing \/ target \in Releases)
  BY DEF DeployTyped
<1> QED
  BY <1>1, <1>2, <1>3 DEF Nothing, Releases

\* What recording does to the histories: one host's grows by the target.
LEMMA Recording ==
  ASSUME DeployTyped, step = "recording", passed < Len(Hosts),
         releases' = [releases EXCEPT ![Hosts[passed + 1]] = Append(@, target)]
  PROVE  /\ releases' \in [HostSet -> Seq(Releases)] /\ target \in Releases
         /\ passed + 1 \in 1..Len(Hosts)
         /\ \A h \in HostSet \ {Hosts[passed + 1]} : releases'[h] = releases[h]
         /\ releases'[Hosts[passed + 1]] = Append(releases[Hosts[passed + 1]], target)
<1>1. passed + 1 \in 1..Len(Hosts) /\ Hosts[passed + 1] \in HostSet
  BY HostFacts, Counters
<1>2. target \in Releases /\ releases \in [HostSet -> Seq(Releases)]
  BY DEF DeployTyped
<1>3. \A s \in Seq(Releases) : Append(s, target) \in Seq(Releases)
  BY <1>2
<1> QED
  BY <1>1, <1>2, <1>3

LEMMA Lengths ==
  ASSUME NEW r \in [HostSet -> Seq(Releases)]
  PROVE  \A i \in DOMAIN Hosts : r[Hosts[i]] \in Seq(Releases) /\ Len(r[Hosts[i]]) \in Nat
BY HostFacts

LEMMA NothingMore == \A x, y \in Nat : x <= 2 * y => x + 0 <= 2 * y
  OBVIOUS

LEMMA AppendFacts ==
  ASSUME NEW s \in Seq(Releases), NEW e \in Releases
  PROVE  /\ Append(s, e) # <<>> /\ Last(Append(s, e)) = e
         /\ Len(s) \in Nat /\ Len(Append(s, e)) = Len(s) + 1
         /\ DOMAIN s = 1..Len(s) /\ DOMAIN Append(s, e) = 1..Len(s) + 1
         /\ \A i \in 1..Len(s) : Append(s, e)[i] = s[i]
BY DEF Last

\* A history only grows, and what it named it names.
LEMMA HistoryGrows ==
  ASSUME DeployTyped, step = "recording", passed < Len(Hosts),
         releases' = [releases EXCEPT ![Hosts[passed + 1]] = Append(@, target)]
  PROVE  \A i \in DOMAIN History : i \in DOMAIN History' /\ History'[i] = History[i]
<1>1. releases[First] \in Seq(Releases)
  BY HostFacts DEF DeployTyped
<1>2. CASE First = Hosts[passed + 1]
  BY <1>1, <1>2, Recording, AppendFacts DEF History
<1>3. CASE First # Hosts[passed + 1]
  BY <1>3, Recording, HostFacts DEF History
<1> QED
  BY <1>2, <1>3

\* The last of a history is in it.
LEMMA LastIsThere ==
  ASSUME DeployTyped, NEW h \in HostSet, releases[h] # <<>>
  PROVE  /\ Len(releases[h]) \in DOMAIN releases[h]
         /\ Last(releases[h]) \in Releases /\ releases[h][Len(releases[h])] = Last(releases[h])
<1>1. releases[h] \in Seq(Releases)
  BY DEF DeployTyped
<1> QED
  BY <1>1 DEF Last

-----------------------------------------------------------------------------
LEMMA DeployInitOK == DeployInit => DeployInv
<1> SUFFICES ASSUME DeployInit PROVE DeployInv
  OBVIOUS
<1>1. \A h \in HostSet : releases[h] = <<>> /\ running[h] = 0
  BY DEF DeployInit
<1>2. DeployTyped
  <2>1. /\ checkout \in Images /\ passed \in 0..Len(Hosts) /\ operations \in 0..MaxOperations
        /\ running \in [HostSet -> Images \cup {0}] /\ releases \in [HostSet -> Seq(Releases)]
    BY DeploymentAssumption, RevisionFacts, HostFacts DEF DeployInit
  <2> QED
    BY <2>1 DEF DeployInit, DeployTyped, StagesIn
<1>3. CountOK
  <2>1. \A i \in DOMAIN Hosts : Len(releases[Hosts[i]]) = 0
    BY <1>1, HostFacts
  <2> QED
    BY <2>1 DEF CountOK, Still, DeployInit
<1> QED
  BY <1>1, <1>2, <1>3 DEF DeployInit, DeployInv, RecordsOK, PlacementOK, RunningIsTracked, SchemaOK,
     UndoOK, CurrentIsLive, RollbackUndoes

\* An operation ends.  Whatever it has done, what runs is tracked; when it
\* succeeded, every host runs what every history names.
LEMMA EndOK ==
  ASSUME DeployInv, doing # "idle",
         NEW result \in {"deployed", "rolled back", "failed", "cancelled"}, End(result),
         schema' \in Nat, running' \in [HostSet -> Images \cup {0}],
         releases' \in [HostSet -> Seq(Releases)], recorded' \in BOOLEAN, RunningIsTracked',
         \A i \in DOMAIN Hosts : Len(releases'[Hosts[i]]) <= 2 * operations,
         result \in {"deployed", "rolled back"} =>
           \A h, g \in HostSet : releases'[g] # <<>> /\ running'[h] = Last(releases'[g]).image,
         result = "rolled back" /\ before # 0 /\ recorded' => Live' = before
  PROVE  DeployInv'
<1>1. /\ doing' = "idle" /\ step' = "none" /\ passed' = 0 /\ target' = Nothing /\ last' = result
      /\ UNCHANGED <<checkout, operations, before, tenants>>
  BY DEF End, Enter, kept
<1>2. DeployTyped'
  <2>1. passed' \in 0..Len(Hosts)
    BY <1>1, HostFacts
  <2>2. /\ tenants' \in BOOLEAN /\ before' \in Images \cup {0} /\ checkout' \in Images
        /\ operations' \in 0..MaxOperations
    BY <1>1 DEF DeployInv, DeployTyped
  <2> QED
    BY <1>1, <2>1, <2>2 DEF DeployTyped, StagesIn
<1>3. CountOK'
  <2>1. \A i \in DOMAIN Hosts : Len(releases'[Hosts[i]]) \in Nat
    BY Lengths
  <2>2. operations \in Nat
    BY Counters DEF DeployInv
  <2>3. \A i : Still(i)' = 0 /\ operations' = operations
    BY <1>1 DEF Still
  <2> QED
    BY <2>1, <2>2, <2>3, NothingMore DEF CountOK
<1>4. CurrentIsLive' /\ RollbackUndoes'
  BY <1>1 DEF CurrentIsLive, RollbackUndoes
<1> QED
  BY <1>1, <1>2, <1>3, <1>4 DEF DeployInv, RecordsOK, PlacementOK, SchemaOK, UndoOK

\* It fails; the workflow of a deployment goes on to roll back.
LEMMA FailOK ==
  ASSUME DeployInv, doing # "idle", Fail,
         schema' \in Nat, running' \in [HostSet -> Images \cup {0}],
         releases' \in [HostSet -> Seq(Releases)], recorded' \in BOOLEAN, RunningIsTracked',
         \A i \in DOMAIN Hosts :
           Len(releases'[Hosts[i]]) <= 2 * operations - (IF doing = "deploy" THEN 1 ELSE 0),
         doing = "deploy" /\ before # 0 /\ recorded' =>
           Len(History') >= 2 /\ Previous'.image = before
  PROVE  DeployInv'
<1>1. CASE doing = "deploy"
  <2>1. /\ doing' = "rollback" /\ step' = "choosing" /\ passed' = 0 /\ target' = Nothing
        /\ UNCHANGED <<last, checkout, operations, before, tenants>>
    BY <1>1 DEF Fail, Enter, kept
  <2>2. DeployTyped' /\ last' = "none"
    BY <1>1, <2>1, HostFacts DEF DeployInv, DeployTyped, StagesIn
  <2>3. CountOK'
    <3>1. \A i \in DOMAIN Hosts : Len(releases'[Hosts[i]]) \in Nat
      BY Lengths
    <3>2. operations \in Nat
      BY Counters DEF DeployInv
    <3> QED
      BY <1>1, <2>1, <3>1, <3>2 DEF CountOK, Still
  <2> QED
    BY <1>1, <2>1, <2>2, <2>3 DEF DeployInv, RecordsOK, PlacementOK, SchemaOK, UndoOK,
       CurrentIsLive, RollbackUndoes
<1>2. CASE doing # "deploy"
  <2>1. End("failed")
    BY <1>2 DEF Fail
  <2>2. \A i \in DOMAIN Hosts : Len(releases'[Hosts[i]]) <= 2 * operations
    <3>1. operations \in Nat
      BY Counters DEF DeployInv
    <3> QED
      BY <1>2, <3>1
  <2> QED
    BY <2>1, <2>2, EndOK
<1> QED
  BY <1>1, <1>2
-----------------------------------------------------------------------------
(* What the invariant says of the plane, whatever the operation            *)

LEMMA PlaneNow ==
  ASSUME DeployInv
  PROVE  /\ schema \in Nat /\ running \in [HostSet -> Images \cup {0}]
         /\ releases \in [HostSet -> Seq(Releases)] /\ recorded \in BOOLEAN
         /\ RunningIsTracked
  BY DEF DeployInv, DeployTyped, PlacementOK

LEMMA Spare ==
  ASSUME DeployInv, NEW i \in DOMAIN Hosts
  PROVE  /\ Len(releases[Hosts[i]]) \in Nat /\ operations \in Nat
         /\ Len(releases[Hosts[i]]) + Still(i) <= 2 * operations
         /\ doing = "deploy" => Len(releases[Hosts[i]]) <= 2 * operations - 1
         /\ Len(releases[Hosts[i]]) <= 2 * operations
<1>1. Len(releases[Hosts[i]]) \in Nat
  BY PlaneNow, Lengths
<1>2. operations \in Nat
  BY Counters DEF DeployInv
<1>3. Len(releases[Hosts[i]]) + Still(i) <= 2 * operations
  BY DEF DeployInv, CountOK
<1>4. Still(i) \in {0, 1, 2} /\ (doing = "deploy" => Still(i) \in {1, 2})
  <2>1. doing \in {"idle", "deploy", "rollback"}
    BY DEF DeployInv, DeployTyped
  <2> QED
    BY <2>1 DEF Still
<1> QED
  BY <1>1, <1>2, <1>3, <1>4

LEMMA UndoNow ==
  ASSUME DeployInv, doing = "deploy", before # 0, recorded
  PROVE  Len(History) >= 2 /\ Previous.image = before
BY DEF DeployInv, UndoOK

LEMMA BreakOK == ASSUME DeployInv, Break PROVE DeployInv'
<1>1. doing # "idle" /\ Fail /\ UNCHANGED <<schema, running, releases, recorded>>
  BY DEF Break, plane
<1>2. RunningIsTracked'
  BY <1>1, PlaneNow DEF RunningIsTracked, History
<1>3. \A i \in DOMAIN Hosts :
        Len(releases'[Hosts[i]]) <= 2 * operations - (IF doing = "deploy" THEN 1 ELSE 0)
  BY <1>1, Spare
<1>4. doing = "deploy" /\ before # 0 /\ recorded' =>
        Len(History') >= 2 /\ Previous'.image = before
  BY <1>1, UndoNow DEF History, Previous
<1> QED
  BY <1>1, <1>2, <1>3, <1>4, PlaneNow, FailOK

LEMMA CancelOK == ASSUME DeployInv, Cancel PROVE DeployInv'
<1>1. doing # "idle" /\ End("cancelled") /\ UNCHANGED <<schema, running, releases, recorded>>
  BY DEF Cancel, plane
<1>2. RunningIsTracked'
  BY <1>1, PlaneNow DEF RunningIsTracked, History
<1>3. \A i \in DOMAIN Hosts : Len(releases'[Hosts[i]]) <= 2 * operations
  BY <1>1, Spare
<1> QED
  BY <1>1, <1>2, <1>3, PlaneNow, EndOK

-----------------------------------------------------------------------------
LEMMA DeployOK == ASSUME DeployInv, NEW p \in Promotions, Deploy(p) PROVE DeployInv'
<1>1. /\ doing = "idle" /\ operations < MaxOperations
      /\ doing' = "deploy" /\ step' = "preparing" /\ passed' = 0
      /\ target' = [image |-> p.image, rev |-> Revision[p.checkout]] /\ checkout' = p.checkout
      /\ operations' = operations + 1 /\ last' = "none" /\ before' = Live /\ recorded' = FALSE
      /\ UNCHANGED <<schema, running, releases, tenants>>
  BY DEF Deploy, Enter, plane
<1>2. p.image \in Images /\ p.checkout \in Images
  BY DeploymentAssumption DEF Images
<1>3. target' \in Releases /\ checkout' \in Images
  BY <1>1, <1>2, RevisionFacts DEF Releases
<1>4. operations \in Nat /\ operations' \in 0..MaxOperations
  BY <1>1, Counters, DeploymentAssumption DEF DeployInv
<1>5. RunningIsTracked'
  BY <1>1, PlaneNow DEF RunningIsTracked, History
<1>6. Live # 0 => History # <<>> /\ Last(History).image = Live
  BY DEF Live
<1>7. Live \in Images \cup {0}
  <2>1. Live # 0 => Last(History) \in Releases
    BY <1>6, LastIsThere, HostFacts DEF DeployInv, History
  <2> QED
    BY <1>6, <2>1 DEF Releases
<1>8. DeployTyped'
  <2>1. passed' \in 0..Len(Hosts)
    BY <1>1, HostFacts
  <2> QED
    BY <1>1, <1>3, <1>4, <1>7, <2>1 DEF DeployInv, DeployTyped, StagesIn
<1>9. UndoOK'
  BY <1>1, <1>6 DEF UndoOK, History
<1>10. CountOK'
  <2> SUFFICES ASSUME NEW i \in DOMAIN Hosts
               PROVE  Len(releases[Hosts[i]]) + 2 <= 2 * (operations + 1)
    BY <1>1 DEF CountOK, Still
  <2> QED
    BY <1>4, Spare
<1> QED
  BY <1>1, <1>5, <1>8, <1>9, <1>10
     DEF DeployInv, RecordsOK, PlacementOK, SchemaOK, CurrentIsLive, RollbackUndoes

LEMMA PrepareOK == ASSUME DeployInv, Prepare PROVE DeployInv'
<1>1. PICK rev \in {target.rev, 0} :
        /\ step = "preparing" /\ target' = [target EXCEPT !.rev = rev]
        /\ step' = "recording" /\ passed' = 0
        /\ UNCHANGED <<schema, running, releases, doing, last, recorded,
                       checkout, operations, before, tenants>>
  BY DEF Prepare, Enter, plane, kept
<1>2. doing = "deploy" /\ target \in Releases
  BY <1>1 DEF DeployInv, DeployTyped, StagesIn
<1>3. target' \in Releases
  BY <1>1, <1>2 DEF Releases
<1>4. DeployTyped'
  <2>1. passed' \in 0..Len(Hosts)
    BY <1>1, HostFacts
  <2> QED
    BY <1>1, <1>2, <1>3, <2>1 DEF DeployInv, DeployTyped, StagesIn
<1>5. RunningIsTracked'
  BY <1>1, PlaneNow DEF RunningIsTracked, History
<1>6. UndoOK'
  BY <1>1, <1>2 DEF DeployInv, UndoOK, History, Previous
<1>7. CountOK'
  <2> SUFFICES ASSUME NEW i \in DOMAIN Hosts
               PROVE  Len(releases[Hosts[i]]) + 2 <= 2 * operations
    <3>1. \A i \in DOMAIN Hosts : i > 0
      BY HostFacts
    <3> QED
      BY <1>1, <1>2, <3>1 DEF CountOK, Still
  <2>1. Still(i) = 2
    BY <1>1, <1>2 DEF Still
  <2> QED
    BY <2>1, Spare
<1>8. RecordsOK'
  BY <1>1, <1>2 DEF RecordsOK
<1> QED
  BY <1>1, <1>2, <1>4, <1>5, <1>6, <1>7, <1>8
     DEF DeployInv, DeployTyped, PlacementOK, SchemaOK, CurrentIsLive, RollbackUndoes
\* What a release recorded on one more host leaves.
LEMMA RecordReleasePlane ==
  ASSUME DeployInv, RecordRelease
  PROVE  /\ releases' \in [HostSet -> Seq(Releases)] /\ target \in Releases
         /\ recorded' \in BOOLEAN /\ RunningIsTracked'
         /\ \A i \in DOMAIN Hosts : /\ i # passed + 1 => releases'[Hosts[i]] = releases[Hosts[i]]
                                    /\ i = passed + 1 => releases'[Hosts[i]] =
                                         Append(releases[Hosts[i]], target)
         /\ \A i \in DOMAIN History : i \in DOMAIN History' /\ History'[i] = History[i]
         /\ doing = "deploy" => recorded' = TRUE
         /\ doing = "deploy" /\ before # 0 => Len(History') >= 2 /\ Previous'.image = before
<1>1. /\ step = "recording" /\ passed < Len(Hosts)
      /\ releases' = [releases EXCEPT ![Hosts[passed + 1]] = Append(@, target)]
      /\ recorded' = (recorded \/ doing = "deploy") /\ UNCHANGED <<schema, running>>
  BY DEF RecordRelease
<1>2. DeployTyped
  BY DEF DeployInv
<1>3. /\ releases' \in [HostSet -> Seq(Releases)] /\ target \in Releases
      /\ passed + 1 \in 1..Len(Hosts)
      /\ \A h \in HostSet \ {Hosts[passed + 1]} : releases'[h] = releases[h]
      /\ releases'[Hosts[passed + 1]] = Append(releases[Hosts[passed + 1]], target)
  BY <1>1, <1>2, Recording
<1>4. \A i \in DOMAIN History : i \in DOMAIN History' /\ History'[i] = History[i]
  BY <1>1, <1>2, HistoryGrows
<1>5. RunningIsTracked'
  <2> SUFFICES ASSUME NEW h \in HostSet, running[h] # 0
               PROVE  \E i \in DOMAIN History' : History'[i].image = running[h]
    BY <1>1 DEF RunningIsTracked
  <2>1. PICK i \in DOMAIN History : History[i].image = running[h]
    BY PlaneNow DEF RunningIsTracked
  <2> QED
    BY <1>4, <2>1
<1>6. ASSUME NEW i \in DOMAIN Hosts
      PROVE  /\ i # passed + 1 => releases'[Hosts[i]] = releases[Hosts[i]]
             /\ i = passed + 1 => releases'[Hosts[i]] = Append(releases[Hosts[i]], target)
  <2>1. i # passed + 1 => Hosts[i] \in HostSet \ {Hosts[passed + 1]}
    BY <1>3, HostFacts
  <2> QED
    BY <1>3, <2>1
<1>7. recorded' \in BOOLEAN /\ (doing = "deploy" => recorded' = TRUE)
  BY <1>1, PlaneNow
<1>8. ASSUME doing = "deploy", before # 0 PROVE Len(History') >= 2 /\ Previous'.image = before
  <2>1. passed \in Nat /\ releases[First] \in Seq(Releases) /\ (recorded <=> passed > 0)
    BY <1>1, <1>2, <1>8, Counters, PlaneNow, HostFacts DEF DeployInv, UndoOK
  <2>2. CASE passed = 0
    <3>1. History # <<>> /\ Last(History).image = before
      BY <1>8, <2>1, <2>2 DEF DeployInv, UndoOK
    <3>2. History' = Append(History, target)
      BY <1>3, <2>2 DEF History, First
    <3>3. Len(History) \in Nat \ {0} /\ Len(History') = Len(History) + 1
          /\ History'[Len(History)] = Last(History)
      BY <1>3, <2>1, <3>1, <3>2 DEF History, Last
    <3> QED
      BY <3>1, <3>3 DEF Previous
  <2>3. CASE passed # 0
    <3>1. First # Hosts[passed + 1]
      BY <1>3, <2>1, <2>3, HostFacts DEF First
    <3>2. History' = History
      BY <1>3, <3>1, HostFacts DEF History
    <3> QED
      BY <1>8, <2>1, <2>3, <3>2, UndoNow DEF Previous
  <2> QED
    BY <2>2, <2>3
<1> QED
  BY <1>3, <1>4, <1>5, <1>6, <1>7, <1>8

LEMMA RecordReleaseOK == ASSUME DeployInv, RecordRelease PROVE DeployInv'
<1>1. /\ step = "recording" /\ passed < Len(Hosts) /\ (NextHost \/ Fail)
      /\ recorded' = (recorded \/ doing = "deploy") /\ UNCHANGED <<schema, running>>
  BY DEF RecordRelease
<1>2. doing \in {"deploy", "rollback"}
  BY <1>1 DEF DeployInv, DeployTyped, StagesIn
<1>3. passed \in Nat /\ passed + 1 \in 1..Len(Hosts) /\ operations \in Nat
      /\ DOMAIN Hosts = 1..Len(Hosts)
  BY <1>1, Counters, HostFacts DEF DeployInv
<1>4. ASSUME NEW i \in DOMAIN Hosts
      PROVE  /\ Len(releases[Hosts[i]]) \in Nat
             /\ i # passed + 1 => Len(releases'[Hosts[i]]) = Len(releases[Hosts[i]])
             /\ i = passed + 1 => Len(releases'[Hosts[i]]) = Len(releases[Hosts[i]]) + 1
  <2>1. releases[Hosts[i]] \in Seq(Releases)
    BY PlaneNow, Lengths
  <2> QED
    BY <2>1, RecordReleasePlane, AppendFacts
<1>5. CASE Fail
  <2>1. ASSUME NEW i \in DOMAIN Hosts
        PROVE  Len(releases'[Hosts[i]]) <= 2 * operations - (IF doing = "deploy" THEN 1 ELSE 0)
    <3>1. CASE i # passed + 1
      BY <1>4, <3>1, Spare
    <3>2. CASE i = passed + 1
      <4>1. Still(i) = IF doing = "deploy" THEN 2 ELSE 1
        BY <1>1, <1>2, <1>3, <3>2 DEF Still
      <4>2. Len(releases'[Hosts[i]]) = Len(releases[Hosts[i]]) + 1
        BY <1>4, <3>2
      <4>3. /\ Len(releases[Hosts[i]]) \in Nat /\ operations \in Nat
            /\ Len(releases[Hosts[i]]) + Still(i) <= 2 * operations
        BY Spare
      <4>4. CASE doing = "deploy"
        BY <4>1, <4>2, <4>3, <4>4
      <4>5. CASE doing = "rollback"
        BY <4>1, <4>2, <4>3, <4>5
      <4> QED
        BY <1>2, <4>4, <4>5
    <3> QED
      BY <3>1, <3>2
  <2> QED
    BY <1>1, <1>2, <1>5, <2>1, RecordReleasePlane, PlaneNow, FailOK
<1>6. CASE NextHost
  <2>1. /\ passed' = passed + 1
        /\ UNCHANGED <<doing, step, target, last, checkout, operations, before, tenants>>
    BY <1>6 DEF NextHost, kept
  <2>2. DeployTyped'
    <3>1. passed' \in 0..Len(Hosts)
      BY <1>3, <2>1
    <3>2. releases' \in [HostSet -> Seq(Releases)] /\ recorded' \in BOOLEAN
      BY RecordReleasePlane
    <3> QED
      BY <1>1, <2>1, <3>1, <3>2 DEF DeployInv, DeployTyped
  <2>3. \A i \in 1..passed' : Names(Hosts[i])'
    <3> SUFFICES ASSUME NEW i \in 1..passed + 1
                 PROVE  releases'[Hosts[i]] # <<>> /\ Last(releases'[Hosts[i]]) = target
      BY <2>1 DEF Names
    <3>1. i \in DOMAIN Hosts
      BY <1>3
    <3>2. CASE i = passed + 1
      <4>1. releases[Hosts[i]] \in Seq(Releases) /\ target \in Releases
        BY <3>1, RecordReleasePlane, PlaneNow, Lengths
      <4>2. releases'[Hosts[i]] = Append(releases[Hosts[i]], target)
        BY <3>1, <3>2, RecordReleasePlane
      <4> QED
        BY <4>1, <4>2, AppendFacts
    <3>3. CASE i # passed + 1
      <4>1. i \in 1..passed
        BY <1>3, <3>3
      <4> QED
        BY <1>1, <3>1, <3>3, <4>1, RecordReleasePlane DEF DeployInv, RecordsOK, Names
    <3> QED
      BY <3>2, <3>3
  <2>4. doing = "rollback" => \E i \in DOMAIN History' : History'[i] = target
    BY <1>1, RecordReleasePlane DEF DeployInv, RecordsOK
  <2>5. RecordsOK'
    BY <1>1, <2>1, <2>3, <2>4 DEF RecordsOK
  <2>6. PlacementOK'
    BY <1>1, <2>1, RecordReleasePlane DEF DeployInv, PlacementOK
  <2>7. UndoOK'
    <3>1. doing = "deploy" => recorded' /\ passed' > 0
      BY <1>3, <2>1, RecordReleasePlane
    <3>2. doing = "rollback" => recorded' = recorded
      BY <1>1, PlaneNow
    <3> QED
      BY <1>1, <1>2, <2>1, <3>1, <3>2, RecordReleasePlane DEF DeployInv, UndoOK
  <2>8. CountOK'
    <3> SUFFICES ASSUME NEW i \in DOMAIN Hosts
                 PROVE  Len(releases'[Hosts[i]]) + Still(i)' <= 2 * operations
      BY <2>1 DEF CountOK
    <3>1. i \in Nat
      BY <1>3
    <3>2. /\ i # passed + 1 => Still(i)' = Still(i)
          /\ i = passed + 1 => Still(i)' = Still(i) - 1
      BY <1>1, <1>2, <1>3, <2>1, <3>1 DEF Still
    <3>3. Still(i) \in Nat
      BY <1>2 DEF Still
    <3> QED
      BY <1>3, <1>4, <3>2, <3>3, Spare
  <2> QED
    BY <1>1, <1>2, <2>1, <2>2, <2>5, <2>6, <2>7, <2>8
       DEF DeployInv, DeployTyped, SchemaOK, CurrentIsLive, RollbackUndoes
<1> QED
  BY <1>1, <1>5, <1>6
\* A step that leaves the histories and what runs as they were, and goes on.
LEMMA OnwardOK ==
  ASSUME DeployInv, doing # "idle", NEW s \in {"migrating", "rolling", "checking", "recording"},
         step # "choosing", s \in StagesIn(doing), MoveOn(s), schema' \in Nat,
         UNCHANGED <<running, releases, recorded>>,
         doing = "deploy" => step \notin {"preparing"} /\ s # "recording",
         doing = "deploy" => \A h \in HostSet : Names(h),
         s = "checking" \/ (doing = "rollback" /\ s = "recording") =>
           \A h \in HostSet : running[h] = target.image,
         s = "rolling" /\ Honest => schema' = Revision[target.image],
         doing = "rollback" => step # "recording"
  PROVE  DeployInv'
<1>1. /\ step' = s /\ passed' = 0
      /\ UNCHANGED <<doing, target, last, checkout, operations, before, tenants>>
  BY DEF MoveOn, Enter, kept
<1>2. doing \in {"deploy", "rollback"} /\ step \in StagesIn(doing) /\ last = "none"
  BY DEF DeployInv, DeployTyped
<1>3. target \in Releases
  BY <1>2 DEF DeployInv, DeployTyped, StagesIn
<1>4. DeployTyped'
  <2>1. passed' \in 0..Len(Hosts)
    BY <1>1, HostFacts
  <2> QED
    BY <1>1, <1>2, <1>3, <2>1 DEF DeployInv, DeployTyped
<1>5. RecordsOK'
  <2>1. doing = "rollback" => \E i \in DOMAIN History : History[i] = target
    BY <1>2 DEF DeployInv, RecordsOK
  <2> QED
    BY <1>1, <1>2, <2>1 DEF RecordsOK, Names, History
<1>6. PlacementOK'
  <2>1. RunningIsTracked'
    BY PlaneNow DEF RunningIsTracked, History
  <2> QED
    BY <1>1, <2>1 DEF PlacementOK
<1>7. SchemaOK'
  BY <1>1 DEF SchemaOK, Honest, History
<1>8. UndoOK'
  BY <1>1, <1>2 DEF DeployInv, UndoOK, History, Previous, StagesIn
<1>9. CountOK'
  <2> SUFFICES ASSUME NEW i \in DOMAIN Hosts
               PROVE  Len(releases[Hosts[i]]) + Still(i)' <= 2 * operations
    BY <1>1 DEF CountOK
  <2>1. i \in Nat \ {0}
    BY HostFacts
  <2>2. Still(i)' = 1
    BY <1>1, <1>2, <2>1 DEF Still
  <2>3. Still(i) >= 1
    BY <1>2 DEF Still
  <2>4. Still(i) \in Nat
    BY <1>2 DEF Still
  <2> QED
    BY <2>2, <2>3, <2>4, Spare
<1> QED
  BY <1>1, <1>2, <1>4, <1>5, <1>6, <1>7, <1>8, <1>9
     DEF DeployInv, CurrentIsLive, RollbackUndoes

\* Every host is one of the first passed when all are passed.
LEMMA AllPassed ==
  ASSUME passed = Len(Hosts)
  PROVE  \A h \in HostSet : \E i \in 1..passed : h = Hosts[i]
BY HostFacts

LEMMA RecordedOK == ASSUME DeployInv, Recorded PROVE DeployInv'
<1>1. /\ step = "recording" /\ passed = Len(Hosts)
      /\ UNCHANGED <<schema, running, releases, recorded>>
  BY DEF Recorded, plane
<1>2. doing \in {"deploy", "rollback"} /\ target \in Releases
  BY <1>1 DEF DeployInv, DeployTyped, StagesIn
<1>3. \A h \in HostSet : Names(h)
  BY <1>1, AllPassed DEF DeployInv, RecordsOK
<1>4. CASE doing = "deploy"
  <2>1. MoveOn("migrating")
    BY <1>4 DEF Recorded
  <2> QED
    BY <1>1, <1>3, <1>4, <2>1, PlaneNow, OnwardOK DEF StagesIn
<1>5. CASE doing = "rollback"
  <2>1. End("rolled back")
    BY <1>5 DEF Recorded
  <2>2. \A h \in HostSet : running[h] = target.image
    BY <1>1, <1>5 DEF DeployInv, PlacementOK
  <2>3. \A h, g \in HostSet : releases[g] # <<>> /\ running[h] = Last(releases[g]).image
    BY <1>3, <2>2 DEF Names
  <2>4. before # 0 /\ recorded => Live = before
    <3> SUFFICES ASSUME before # 0, recorded PROVE Live = before
      OBVIOUS
    <3>1. target.image = before
      BY <1>1, <1>5 DEF DeployInv, UndoOK
    <3>2. History # <<>> /\ Last(History) = target
      BY <1>3, HostFacts DEF Names, History
    <3> QED
      BY <2>2, <3>1, <3>2 DEF Live
  <2>5. Live' = Live
    BY <1>1 DEF Live, History
  <2>6. RunningIsTracked'
    BY <1>1, PlaneNow DEF RunningIsTracked, History
  <2>7. \A i \in DOMAIN Hosts : Len(releases'[Hosts[i]]) <= 2 * operations
    BY <1>1, Spare
  <2> QED
    BY <1>1, <1>5, <2>1, <2>3, <2>4, <2>5, <2>6, <2>7, PlaneNow, EndOK
<1> QED
  BY <1>2, <1>4, <1>5

\* The image to be placed is on the schema of its release once it is upgraded.
LEMMA UpgradeOK == ASSUME DeployInv, Upgrade PROVE DeployInv'
<1>1. /\ step = "migrating" /\ schema' = Revision[target.image]
      /\ MoveOn("rolling") \/ Fail
  BY DEF Upgrade
<1>2. doing \in {"deploy", "rollback"} /\ target \in Releases
  BY <1>1 DEF DeployInv, DeployTyped, StagesIn
<1>3. schema' \in Nat
  BY <1>1, <1>2, RevisionFacts DEF Releases
<1>4. UNCHANGED <<running, releases, recorded>>
  BY DEF Upgrade
<1>5. CASE Fail
  <2>1. RunningIsTracked'
    BY <1>4, PlaneNow DEF RunningIsTracked, History
  <2>2. \A i \in DOMAIN Hosts :
          Len(releases'[Hosts[i]]) <= 2 * operations - (IF doing = "deploy" THEN 1 ELSE 0)
    BY <1>4, Spare
  <2>3. doing = "deploy" /\ before # 0 /\ recorded' =>
          Len(History') >= 2 /\ Previous'.image = before
    BY <1>4, UndoNow DEF History, Previous
  <2> QED
    BY <1>2, <1>3, <1>4, <1>5, <2>1, <2>2, <2>3, PlaneNow, FailOK
<1>6. CASE MoveOn("rolling")
  <2>1. doing = "deploy" => \A h \in HostSet : Names(h)
    BY <1>1 DEF DeployInv, RecordsOK
  <2>2. "rolling" \in StagesIn(doing)
    BY <1>2 DEF StagesIn
  <2> QED
    BY <1>1, <1>2, <1>3, <1>4, <1>6, <2>1, <2>2, OnwardOK
<1> QED
  BY <1>1, <1>5, <1>6

\* As it is once it is downgraded to the revision its release was recorded with.
LEMMA DowngradeOK == ASSUME DeployInv, Downgrade PROVE DeployInv'
<1>1. /\ step = "downgrading" /\ target.rev \in 1..schema /\ schema' = target.rev
      /\ (MoveOn("rolling") \/ Fail) /\ UNCHANGED <<running, releases, recorded>>
  BY DEF Downgrade
<1>2. doing = "rollback" /\ target \in Releases
  BY <1>1 DEF DeployInv, DeployTyped, StagesIn
<1>3. schema' \in Nat
  BY <1>1, <1>2 DEF Releases
<1>4. CASE Fail
  <2>1. RunningIsTracked'
    BY <1>1, PlaneNow DEF RunningIsTracked, History
  <2>2. \A i \in DOMAIN Hosts :
          Len(releases'[Hosts[i]]) <= 2 * operations - (IF doing = "deploy" THEN 1 ELSE 0)
    BY <1>1, Spare
  <2> QED
    BY <1>1, <1>2, <1>3, <1>4, <2>1, <2>2, PlaneNow, FailOK
<1>5. CASE MoveOn("rolling")
  <2>1. Honest => schema' = Revision[target.image]
    BY <1>1, <1>2 DEF DeployInv, RecordsOK, Honest
  <2> QED
    BY <1>1, <1>2, <1>3, <1>5, <2>1, OnwardOK DEF StagesIn
<1> QED
  BY <1>1, <1>4, <1>5
LEMMA RollHostOK == ASSUME DeployInv, RollHost PROVE DeployInv'
<1>1. /\ step = "rolling" /\ passed < Len(Hosts) /\ (NextHost \/ Fail)
      /\ running' = [running EXCEPT ![Hosts[passed + 1]] = target.image]
      /\ UNCHANGED <<schema, releases, recorded>>
  BY DEF RollHost
<1>2. doing \in {"deploy", "rollback"} /\ target \in Releases /\ last = "none"
  BY <1>1 DEF DeployInv, DeployTyped, StagesIn
<1>3. passed \in Nat /\ passed + 1 \in 1..Len(Hosts) /\ Hosts[passed + 1] \in HostSet
  BY <1>1, Counters, HostFacts DEF DeployInv
<1>4. /\ running' \in [HostSet -> Images \cup {0}] /\ running'[Hosts[passed + 1]] = target.image
      /\ \A h \in HostSet \ {Hosts[passed + 1]} : running'[h] = running[h]
  BY <1>1, <1>2, <1>3, PlaneNow DEF Releases
<1>5. \E i \in DOMAIN History : History[i] = target
  <2>1. CASE doing = "deploy"
    <3>1. Names(First)
      BY <1>1, <2>1, HostFacts DEF DeployInv, RecordsOK
    <3> QED
      BY <3>1, LastIsThere, HostFacts DEF Names, History, DeployInv
  <2>2. CASE doing = "rollback"
    BY <1>1, <2>2 DEF DeployInv, RecordsOK
  <2> QED
    BY <1>2, <2>1, <2>2
<1>6. RunningIsTracked'
  <2> SUFFICES ASSUME NEW h \in HostSet, running'[h] # 0
               PROVE  \E i \in DOMAIN History : History[i].image = running'[h]
    BY <1>1 DEF RunningIsTracked, History
  <2>1. CASE h = Hosts[passed + 1]
    BY <1>4, <1>5, <2>1
  <2>2. CASE h # Hosts[passed + 1]
    BY <1>4, <2>2, PlaneNow DEF RunningIsTracked
  <2> QED
    BY <2>1, <2>2
<1>7. CASE Fail
  <2>1. \A i \in DOMAIN Hosts :
          Len(releases'[Hosts[i]]) <= 2 * operations - (IF doing = "deploy" THEN 1 ELSE 0)
    BY <1>1, Spare
  <2>2. doing = "deploy" /\ before # 0 /\ recorded' =>
          Len(History') >= 2 /\ Previous'.image = before
    BY <1>1, UndoNow DEF History, Previous
  <2> QED
    BY <1>1, <1>2, <1>4, <1>6, <1>7, <2>1, <2>2, PlaneNow, FailOK
<1>8. CASE NextHost
  <2>1. /\ passed' = passed + 1
        /\ UNCHANGED <<doing, step, target, last, checkout, operations, before, tenants>>
    BY <1>8 DEF NextHost, kept
  <2>2. DeployTyped'
    <3>1. passed' \in 0..Len(Hosts)
      BY <1>3, <2>1
    <3> QED
      BY <1>1, <1>4, <2>1, <3>1 DEF DeployInv, DeployTyped
  <2>3. RecordsOK'
    BY <1>1, <2>1 DEF DeployInv, RecordsOK, Names, History
  <2>4. \A i \in 1..passed' : running'[Hosts[i]] = target.image
    <3> SUFFICES ASSUME NEW i \in 1..passed + 1 PROVE running'[Hosts[i]] = target.image
      BY <2>1
    <3>1. i \in 1..Len(Hosts) /\ (i # passed + 1 => i \in 1..passed)
      BY <1>3
    <3>2. i # passed + 1 => Hosts[i] \in HostSet \ {Hosts[passed + 1]}
      BY <1>3, <3>1, HostFacts
    <3> QED
      BY <1>1, <1>4, <3>1, <3>2 DEF DeployInv, PlacementOK
  <2>5. PlacementOK'
    BY <1>1, <1>6, <2>1, <2>4 DEF PlacementOK
  <2>6. SchemaOK' /\ UndoOK'
    BY <1>1, <2>1 DEF DeployInv, SchemaOK, UndoOK, Honest, History, Previous
  <2>7. CountOK'
    <3>1. \A i : Still(i)' = Still(i)
      BY <1>1, <2>1 DEF Still
    <3> QED
      BY <1>1, <2>1, <3>1 DEF DeployInv, CountOK
  <2> QED
    BY <1>2, <2>1, <2>2, <2>3, <2>5, <2>6, <2>7 DEF DeployInv, CurrentIsLive, RollbackUndoes
<1> QED
  BY <1>1, <1>7, <1>8

LEMMA RolledOK == ASSUME DeployInv, Rolled PROVE DeployInv'
<1>1. /\ step = "rolling" /\ passed = Len(Hosts)
      /\ MoveOn(IF doing = "deploy" THEN "checking" ELSE "recording")
      /\ UNCHANGED <<schema, running, releases, recorded>>
  BY DEF Rolled, plane
<1>2. doing \in {"deploy", "rollback"}
  BY <1>1 DEF DeployInv, DeployTyped, StagesIn
<1>3. \A h \in HostSet : running[h] = target.image
  BY <1>1, AllPassed DEF DeployInv, PlacementOK
<1>4. CASE doing = "deploy"
  <2>1. \A h \in HostSet : Names(h)
    BY <1>1, <1>4 DEF DeployInv, RecordsOK
  <2> QED
    BY <1>1, <1>3, <1>4, <2>1, PlaneNow, OnwardOK DEF StagesIn
<1>5. CASE doing = "rollback"
  BY <1>1, <1>3, <1>5, PlaneNow, OnwardOK DEF StagesIn
<1> QED
  BY <1>2, <1>4, <1>5

LEMMA AcceptOK == ASSUME DeployInv, Accept PROVE DeployInv'
<1>1. step = "checking" /\ End("deployed") /\ UNCHANGED <<schema, running, releases, recorded>>
  BY DEF Accept, plane
<1>2. doing = "deploy"
  <2>1. doing \in {"idle", "deploy", "rollback"} /\ step \in StagesIn(doing)
    BY DEF DeployInv, DeployTyped
  <2> QED
    BY <1>1, <2>1 DEF StagesIn
<1>3. \A h, g \in HostSet : releases[g] # <<>> /\ running[h] = Last(releases[g]).image
  BY <1>1, <1>2 DEF DeployInv, RecordsOK, PlacementOK, Names
<1>4. RunningIsTracked'
  BY <1>1, PlaneNow DEF RunningIsTracked, History
<1>5. \A i \in DOMAIN Hosts : Len(releases'[Hosts[i]]) <= 2 * operations
  BY <1>1, Spare
<1> QED
  BY <1>1, <1>2, <1>3, <1>4, <1>5, PlaneNow, EndOK

\* An operator's rollback, or a workflow's, chooses a release of the history.
LEMMA RollbackOK == ASSUME DeployInv, Rollback PROVE DeployInv'
<1>1. /\ doing = "idle" /\ operations < MaxOperations
      /\ doing' = "rollback" /\ step' = "choosing" /\ passed' = 0
      /\ operations' = operations + 1 /\ last' = "none" /\ before' = 0
      /\ UNCHANGED <<schema, running, releases, target, checkout, recorded, tenants>>
  BY DEF Rollback, Enter, plane
<1>2. operations \in Nat /\ operations' \in 0..MaxOperations
  BY <1>1, Counters, DeploymentAssumption DEF DeployInv
<1>3. DeployTyped'
  <2>1. passed' \in 0..Len(Hosts)
    BY <1>1, HostFacts
  <2> QED
    BY <1>1, <1>2, <2>1 DEF DeployInv, DeployTyped, StagesIn
<1>4. RunningIsTracked'
  BY <1>1, PlaneNow DEF RunningIsTracked, History
<1>5. CountOK'
  <2> SUFFICES ASSUME NEW i \in DOMAIN Hosts
               PROVE  Len(releases[Hosts[i]]) + 1 <= 2 * (operations + 1)
    BY <1>1 DEF CountOK, Still
  <2> QED
    BY <1>2, Spare
<1> QED
  BY <1>1, <1>3, <1>4, <1>5
     DEF DeployInv, RecordsOK, PlacementOK, SchemaOK, UndoOK, CurrentIsLive, RollbackUndoes

LEMMA ChooseOK == ASSUME DeployInv, Choose PROVE DeployInv'
<1>1. /\ step = "choosing" /\ Len(History) >= 2 /\ target' = Previous
      /\ step' \in {"migrating", "downgrading"} /\ passed' = 0
      /\ UNCHANGED <<schema, running, releases, doing, last, recorded,
                     checkout, operations, before, tenants>>
  BY DEF Choose, Enter, plane, kept
<1>2. doing = "rollback" /\ last = "none"
  <2>1. doing \in {"idle", "deploy", "rollback"} /\ step \in StagesIn(doing)
        /\ (doing # "idle" => last = "none")
    BY DEF DeployInv, DeployTyped
  <2> QED
    BY <1>1, <2>1 DEF StagesIn
<1>3. \E i \in DOMAIN History : History[i] = Previous /\ Previous \in Releases
  <2>1. History \in Seq(Releases)
    BY PlaneNow, HostFacts DEF History
  <2>2. Len(History) - 1 \in DOMAIN History
    BY <1>1, <2>1
  <2> QED
    BY <2>1, <2>2 DEF Previous
<1>4. DeployTyped'
  <2>1. passed' \in 0..Len(Hosts)
    BY <1>1, HostFacts
  <2> QED
    BY <1>1, <1>2, <1>3, <2>1 DEF DeployInv, DeployTyped, StagesIn
<1>5. RunningIsTracked'
  BY <1>1, PlaneNow DEF RunningIsTracked, History
<1>6. CountOK'
  <2>1. \A i \in DOMAIN Hosts : Still(i)' = 1 /\ Still(i) = 1
    BY <1>1, <1>2 DEF Still
  <2> QED
    BY <1>1, <2>1 DEF DeployInv, CountOK
<1>7. UndoOK'
  BY <1>1, <1>2 DEF DeployInv, UndoOK
<1>8. RecordsOK'
  BY <1>1, <1>2, <1>3 DEF RecordsOK, History
<1> QED
  BY <1>1, <1>2, <1>4, <1>5, <1>6, <1>7, <1>8
     DEF DeployInv, PlacementOK, SchemaOK, CurrentIsLive, RollbackUndoes

LEMMA DeployNextOK == DeployInv /\ [DeployNext]_deployVars => DeployInv'
<1> SUFFICES ASSUME DeployInv, [DeployNext]_deployVars PROVE DeployInv'
  OBVIOUS
<1>1. CASE UNCHANGED deployVars
  <2>1. UNCHANGED <<schema, running, releases, doing, step, passed, target, last, recorded,
                    checkout, operations, before, tenants>>
    BY <1>1 DEF deployVars, plane, kept
  <2>2. DeployTyped'
    BY <2>1 DEF DeployInv, DeployTyped
  <2>3. RecordsOK'
    BY <2>1 DEF DeployInv, RecordsOK, Names, History
  <2>4. UndoOK'
    BY <2>1 DEF DeployInv, UndoOK, History, Previous
  <2>5. PlacementOK' /\ SchemaOK'
    BY <2>1 DEF DeployInv, PlacementOK, SchemaOK, RunningIsTracked, Honest, History
  <2>6. CountOK' /\ CurrentIsLive' /\ RollbackUndoes'
    BY <2>1 DEF DeployInv, CountOK, Still, CurrentIsLive, RollbackUndoes, Live, History
  <2> QED
    BY <2>2, <2>5, <2>6, <2>3, <2>4 DEF DeployInv
<1> QED
  BY <1>1, DeployOK, RollbackOK, BreakOK, CancelOK, PrepareOK, RecordReleaseOK, RecordedOK,
     UpgradeOK, RollHostOK, RolledOK, AcceptOK, ChooseOK, DowngradeOK DEF DeployNext, Operation

LEMMA DeployInvHolds == DeploySpec => []DeployInv
  BY DeployInitOK, DeployNextOK, PTL DEF DeploySpec

-----------------------------------------------------------------------------
LEMMA DeployInvTypes == DeployInv => DeployTypeOK
<1> SUFFICES ASSUME DeployInv PROVE DeployTypeOK
  OBVIOUS
<1>1. ASSUME NEW h \in HostSet
      PROVE  releases[h] \in Seq([image : Images, rev : Nat]) /\ Len(releases[h]) <= 2 * operations
  <2>1. releases[h] \in Seq(Releases)
    BY PlaneNow
  <2>2. PICK i \in DOMAIN Hosts : h = Hosts[i]
    BY HostFacts
  <2> QED
    BY <2>1, <2>2, Spare DEF Releases
<1> QED
  BY <1>1 DEF DeployInv, DeployTyped, DeployTypeOK, Releases

\* Every variable of a deployment keeps its type, and each operation records at
\* most twice: itself, and the rollback it ends in.
THEOREM DeployTypes == DeploySpec => []DeployTypeOK
  BY DeployInvTypes, DeployInvHolds, PTL

\* Wherever deployments and rollbacks have stopped: what runs is in the history a
\* rollback reads, an operation that succeeded leaves every host on the release
\* every host names, and a workflow's rollback undoes what the workflow recorded.
THEOREM DeploySafety == DeploySpec => []DeploySound
<1>1. DeployInv => DeploySound
  BY DEF DeployInv, PlacementOK, DeploySound
<1> QED
  BY <1>1, DeployInvHolds, PTL

\* An image is placed only on the schema of its own release, as long as every
\* revision that was recorded is its image's: the schema is moved before a host is.
THEOREM PlacementTheorem == DeploySpec => PlacedOnItsSchema
<1>1. DeployInv /\ [DeployNext]_deployVars =>
        [\A h \in HostSet : running'[h] # running[h] /\ Honest =>
           schema = Revision[running'[h]]]_deployVars
  <2> SUFFICES ASSUME DeployInv, DeployNext, NEW h \in HostSet, running'[h] # running[h], Honest
               PROVE  schema = Revision[running'[h]]
    OBVIOUS
  <2>1. RollHost
    BY DEF DeployNext, Operation, Deploy, Rollback, Break, Cancel, Prepare, RecordRelease,
           Recorded, Upgrade, Rolled, Accept, Choose, Downgrade, plane
  <2>2. /\ step = "rolling"
        /\ running' = [running EXCEPT ![Hosts[passed + 1]] = target.image]
    BY <2>1 DEF RollHost
  <2>3. running'[h] = target.image
    BY <2>2, PlaneNow
  <2> QED
    BY <2>2, <2>3 DEF DeployInv, SchemaOK
<1> QED
  BY <1>1, DeployInvHolds, PTL DEF DeploySpec, PlacedOnItsSchema

-----------------------------------------------------------------------------
(* The worktrees                                                           *)

HostPorts == 0..MaxHostPort

\* The offsets whose window is within the ports of the host.
Fitting == {o \in Offsets : Max(BasePorts) + o <= MaxHostPort}

InstanceOrUnset == Instances \cup {Unset}

WorktreesTyped ==
  /\ env \in [Trees -> [instance : InstanceOrUnset, offset : Fitting, marker : InstanceOrUnset]]
  /\ stacks \in [Instances -> [ports : SUBSET HostPorts, volumes : BOOLEAN, by : SUBSET Trees]]
  /\ command \in [Trees -> [step : {"none", "planning", "starting", "stopping", "releasing"},
                            instance : InstanceOrUnset, ports : BOOLEAN, seen : SUBSET HostPorts]]
  /\ started \in [Trees -> [look : SUBSET Instances, offset : SUBSET Instances]]
  /\ commands \in 0..MaxCommands /\ abandoned \subseteq Instances

\* A command is about a stack, the one the .env names once it is planned, and a
\* stack that is taken down is not one of the worktree's any more.
CommandOK(w) ==
  /\ command[w].step # "none" => command[w].instance \in Instances
  /\ command[w].step \in {"starting", "stopping", "releasing"} =>
       env[w].instance = command[w].instance
  /\ command[w].step = "releasing" => \A i \in Instances : w \in stacks[i].by => i \in abandoned

\* A stack with volumes was made by a worktree, which names it or has left it
\* behind.
StackOK(i) ==
  /\ stacks[i].volumes => stacks[i].by # {}
  /\ \A w \in Trees : w \in stacks[i].by => i \in abandoned \/ env[w].instance = i

\* What was not started since w looked holds the ports w has seen it hold, and
\* what was not started since w selected its offset holds none of the window.
HeldOK(w, i) ==
  /\ command[w].step = "planning" /\ command[w].ports /\ i \notin started[w].look =>
       stacks[i].ports \subseteq command[w].seen
  /\ env[w].marker # Unset /\ i \notin started[w].offset =>
       stacks[i].ports \cap Window(env[w].offset) = {}

WorktreesInv == /\ WorktreesTyped
                /\ \A w \in Trees : CommandOK(w)
                /\ \A i \in Instances : StackOK(i)
                /\ \A w \in Trees, i \in Instances : HeldOK(w, i)

\* The least of a set of naturals, and the greatest of one that is bounded.
LEMMA MinIsLeast ==
  ASSUME NEW S \in SUBSET Nat, S # {}
  PROVE  Min(S) \in S /\ \A y \in S : Min(S) <= y
<1> DEFINE R == OpToRel(<, Nat)
<1>1. \A x, y \in Nat : <<y, x>> \in R <=> y < x
  BY DEF OpToRel
<1>2. IsWellFoundedOn(R, Nat)
  BY NatLessThanWellFounded
<1> HIDE DEF R
<1>3. \E x \in S : \A y \in S : ~(<<y, x>> \in R)
  BY <1>2, WFMin
<1>4. \E x \in S : \A y \in S : x <= y
  <2>1. PICK x \in S : \A y \in S : ~(<<y, x>> \in R)
    BY <1>3
  <2>2. \A y \in S : x <= y
    <3> TAKE y \in S
    <3>1. x \in Nat /\ y \in Nat /\ ~(<<y, x>> \in R)
      BY <2>1
    <3>2. ~(y < x)
      BY <1>1, <3>1
    <3> QED
      BY <3>1, <3>2
  <2> QED
    BY <2>1, <2>2
<1> QED
  BY <1>4 DEF Min

LEMMA MaxIsGreatest ==
  ASSUME NEW n \in Nat, NEW S \in SUBSET (0..n), S # {}
  PROVE  Max(S) \in S /\ \A y \in S : y <= Max(S)
<1> DEFINE T == {n - x : x \in S}
<1>0. S \subseteq Nat /\ \A x \in S : n - x \in Nat
  OBVIOUS
<1>1. T \in SUBSET Nat /\ T # {}
  BY <1>0
<1>2. Min(T) \in T /\ \A y \in T : Min(T) <= y
  BY <1>1, MinIsLeast
<1>3. PICK x \in S : Min(T) = n - x
  BY <1>2
<1>4. \A y \in S : x >= y
  <2> TAKE y \in S
  <2>1. n - x <= n - y
    BY <1>2, <1>3
  <2> QED
    BY <2>1
<1>5. \E z \in S : \A y \in S : z >= y
  BY <1>4
<1>6. Max(S) \in S /\ \A y \in S : Max(S) >= y
  BY <1>5 DEF Max
<1> QED
  BY <1>6

\* A fitting offset shifts the ports to ports of the host; 0 is one.
LEMMA FittingFacts ==
  /\ 0 \in Fitting /\ Fitting \subseteq Nat
  /\ \A o \in Fitting : Window(o) \subseteq HostPorts
<1> DEFINE m == Max(BasePorts)
<1>1. m \in BasePorts /\ \A p \in BasePorts : p <= m
  BY WorktreesAssumption, MaxIsGreatest
<1>2. BasePorts \subseteq 0..MaxHostPort /\ MaxHostPort \in Nat /\ OffsetStep \in Nat
  BY WorktreesAssumption
<1>3. 0 \in Offsets /\ Offsets \subseteq Nat
  BY <1>2 DEF Offsets
<1> HIDE DEF m
<1>4. m \in Nat /\ m + 0 <= MaxHostPort /\ BasePorts \subseteq Nat
  BY <1>1, <1>2
<1>5. Fitting = {o \in Offsets : m + o <= MaxHostPort}
  BY DEF Fitting, m
<1>6. 0 \in Fitting /\ Fitting \subseteq Nat
  BY <1>3, <1>4, <1>5
<1>7. ASSUME NEW o \in Fitting, NEW p \in BasePorts PROVE p + o \in HostPorts
  <2>1. o \in Nat /\ m + o <= MaxHostPort
    BY <1>5, <1>6
  <2>2. p \in Nat /\ p <= m
    BY <1>1, <1>4
  <2> QED
    BY <1>2, <1>4, <2>1, <2>2 DEF HostPorts
<1> QED
  BY <1>6, <1>7 DEF Window

\* select_port_offset finds an offset that fits, with a window nobody was seen in.
LEMMA SelectionFits ==
  ASSUME NEW seen \in SUBSET HostPorts, FreeOffsets(seen) # {}
  PROVE  /\ Min(FreeOffsets(seen)) \in Fitting
         /\ Window(Min(FreeOffsets(seen))) \cap seen = {}
<1>1. FreeOffsets(seen) \subseteq Fitting
  BY DEF FreeOffsets, Fitting
<1>2. FreeOffsets(seen) \in SUBSET Nat
  BY <1>1, FittingFacts
<1>3. Min(FreeOffsets(seen)) \in FreeOffsets(seen)
  BY <1>2, MinIsLeast
<1> QED
  BY <1>1, <1>3 DEF FreeOffsets

LEMMA UnsetIsNoInstance == Unset \notin Instances
  BY WorktreesAssumption DEF Instances

LEMMA WorktreesInitOK == WorktreesInit => WorktreesInv
<1> SUFFICES ASSUME WorktreesInit PROVE WorktreesInv
  OBVIOUS
<1>1. WorktreesTyped
  BY FittingFacts, WorktreesAssumption
     DEF WorktreesInit, WorktreesTyped, Idle, Absent, NoneStarted, InstanceOrUnset
<1> QED
  BY <1>1 DEF WorktreesInit, WorktreesInv, CommandOK, StackOK, HeldOK, Idle, Absent

-----------------------------------------------------------------------------
(* A command of w changes its own .env and its own stack                   *)

\* What another worktree's command rests on.
LEMMA OthersCommandOK ==
  ASSUME WorktreesInv, NEW v \in Trees, command'[v] = command[v], env'[v] = env[v],
         abandoned \subseteq abandoned',
         \A i \in Instances : v \in stacks'[i].by => v \in stacks[i].by
  PROVE  CommandOK(v)'
<1>1. CommandOK(v)
  BY DEF WorktreesInv
<1> QED
  BY <1>1 DEF CommandOK

\* A step of w that leaves the stacks alone, and the name in its .env.
LEMMA StacksStand ==
  ASSUME WorktreesInv, NEW w \in Trees, WorktreesTyped', CommandOK(w)',
         \A v \in Trees \ {w} : command'[v] = command[v] /\ env'[v] = env[v],
         UNCHANGED <<stacks, abandoned>>, env'[w].instance = env[w].instance,
         \A v \in Trees \ {w} : started'[v] = started[v],
         \A i \in Instances : HeldOK(w, i)'
  PROVE  WorktreesInv'
<1>1. \A v \in Trees : CommandOK(v)'
  BY OthersCommandOK
<1>2. \A i \in Instances : StackOK(i)'
  BY DEF WorktreesInv, StackOK
<1>3. \A v \in Trees \ {w}, i \in Instances : HeldOK(v, i)'
  BY DEF WorktreesInv, HeldOK, Window
<1> QED
  BY <1>1, <1>2, <1>3 DEF WorktreesInv

LEMMA IdleTyped ==
  Idle \in [step : {"none", "planning", "starting", "stopping", "releasing"},
            instance : InstanceOrUnset, ports : BOOLEAN, seen : SUBSET HostPorts]
  BY DEF Idle, InstanceOrUnset

LEMMA UpOK ==
  ASSUME WorktreesInv, NEW w \in Trees, NEW b \in Branches, NEW ports \in BOOLEAN, Up(w, b, ports)
  PROVE  WorktreesInv'
<1> DEFINE new == [step |-> "planning", instance |-> Label[b], ports |-> ports,
                   seen |-> IF ports THEN Occupied ELSE {}]
<1>1. /\ commands < MaxCommands /\ commands' = commands + 1
      /\ command' = [command EXCEPT ![w] = new] /\ UNCHANGED <<env, stacks, abandoned>>
      /\ started' = [started EXCEPT ![w].look = {}]
  BY DEF Up
<1>2. Occupied \subseteq HostPorts
  BY DEF Occupied, WorktreesInv, WorktreesTyped
<1>3. Label[b] \in Instances
  BY DEF Instances
<1>4. new \in [step : {"none", "planning", "starting", "stopping", "releasing"},
               instance : InstanceOrUnset, ports : BOOLEAN, seen : SUBSET HostPorts]
  BY <1>2, <1>3 DEF InstanceOrUnset
<1>5. commands' \in 0..MaxCommands
  BY <1>1, WorktreesAssumption DEF WorktreesInv, WorktreesTyped
<1>6. WorktreesTyped' /\ command'[w] = new
      /\ \A v \in Trees \ {w} : command'[v] = command[v] /\ env'[v] = env[v]
  BY <1>1, <1>4, <1>5 DEF WorktreesInv, WorktreesTyped
<1>7. CommandOK(w)'
  BY <1>3, <1>6 DEF CommandOK
<1>8. /\ started'[w].look = {} /\ started'[w].offset = started[w].offset
      /\ \A v \in Trees \ {w} : started'[v] = started[v]
  BY <1>1 DEF WorktreesInv, WorktreesTyped
<1>9. \A i \in Instances : HeldOK(w, i)'
  <2> TAKE i \in Instances
  <2>1. stacks[i].ports \subseteq Occupied
    BY DEF Occupied
  <2>2. HeldOK(w, i)
    BY DEF WorktreesInv
  <2> QED
    BY <1>1, <1>6, <1>8, <2>1, <2>2 DEF HeldOK, Window
<1> QED
  BY <1>1, <1>6, <1>7, <1>8, <1>9, StacksStand

LEMMA DownOK ==
  ASSUME WorktreesInv, NEW w \in Trees, NEW b \in Branches, Down(w, b)
  PROVE  WorktreesInv'
<1> DEFINE new == [Idle EXCEPT !.step = "stopping", !.instance = env[w].instance]
<1>1. /\ commands < MaxCommands /\ commands' = commands + 1 /\ env[w].instance # Unset
      /\ command' = [command EXCEPT ![w] = new] /\ UNCHANGED <<env, stacks, abandoned, started>>
  BY DEF Down, Provisioned
<1>2. env[w].instance \in Instances
  BY <1>1 DEF WorktreesInv, WorktreesTyped, InstanceOrUnset
<1>3. /\ new.step = "stopping" /\ new.instance = env[w].instance
      /\ new \in [step : {"none", "planning", "starting", "stopping", "releasing"},
                  instance : InstanceOrUnset, ports : BOOLEAN, seen : SUBSET HostPorts]
  BY <1>2 DEF Idle, InstanceOrUnset
<1>4. commands' \in 0..MaxCommands
  BY <1>1, WorktreesAssumption DEF WorktreesInv, WorktreesTyped
<1> HIDE DEF new
<1>5. WorktreesTyped' /\ command'[w] = new
      /\ \A v \in Trees \ {w} : command'[v] = command[v] /\ env'[v] = env[v]
  BY <1>1, <1>3, <1>4 DEF WorktreesInv, WorktreesTyped
<1>6. CommandOK(w)'
  BY <1>1, <1>2, <1>3, <1>5 DEF CommandOK
<1>7. command'[w].step # "planning" /\ env'[w] = env[w] /\ started'[w] = started[w]
  BY <1>1, <1>3, <1>5
<1>8. ASSUME NEW i \in Instances PROVE HeldOK(w, i)'
  <2>1. HeldOK(w, i) /\ stacks'[i] = stacks[i]
    BY <1>1 DEF WorktreesInv
  <2> QED
    BY <1>7, <2>1 DEF HeldOK, Window
<1> QED
  BY <1>1, <1>5, <1>6, <1>8, StacksStand

LEMMA StopOK == ASSUME WorktreesInv, NEW w \in Trees, Stop(w) PROVE WorktreesInv'
<1>1. /\ command' = [command EXCEPT ![w] = Idle] /\ UNCHANGED <<commands, abandoned, env, stacks>>
      /\ started' = [started EXCEPT ![w].look = {}]
  BY DEF Stop, Command
<1>2. WorktreesTyped' /\ command'[w] = Idle
      /\ \A v \in Trees \ {w} : command'[v] = command[v] /\ env'[v] = env[v]
  BY <1>1, IdleTyped DEF WorktreesInv, WorktreesTyped
<1>3. CommandOK(w)'
  BY <1>2 DEF CommandOK, Idle
<1>4. /\ started'[w].offset = started[w].offset
      /\ \A v \in Trees \ {w} : started'[v] = started[v]
  BY <1>1 DEF WorktreesInv, WorktreesTyped
<1>5. \A i \in Instances : HeldOK(w, i)'
  BY <1>1, <1>2, <1>4 DEF WorktreesInv, HeldOK, Idle, Window
<1> QED
  BY <1>1, <1>2, <1>3, <1>4, <1>5, StacksStand

LEMMA ReleaseOK == ASSUME WorktreesInv, NEW w \in Trees, Release(w) PROVE WorktreesInv'
<1>1. /\ command' = [command EXCEPT ![w] = Idle]
      /\ env' = [env EXCEPT ![w].marker = Unset, ![w].offset = 0]
      /\ started' = [started EXCEPT ![w].offset = {}]
      /\ UNCHANGED <<commands, abandoned, stacks>>
  BY DEF Release, Command
<1> DEFINE Env == [instance : InstanceOrUnset, offset : Fitting, marker : InstanceOrUnset]
           new == [env[w] EXCEPT !.marker = Unset, !.offset = 0]
<1>2. env \in [Trees -> Env]
  BY DEF WorktreesInv, WorktreesTyped
<1>3. env' = [env EXCEPT ![w] = new]
  BY <1>1, <1>2
<1>4. new \in Env /\ new.instance = env[w].instance /\ new.marker = Unset
  BY <1>2, FittingFacts DEF InstanceOrUnset
<1> HIDE DEF new
<1>5. /\ env' \in [Trees -> Env] /\ env'[w].instance = env[w].instance
      /\ env'[w].marker = Unset /\ \A v \in Trees \ {w} : env'[v] = env[v]
  BY <1>2, <1>3, <1>4
<1>6. WorktreesTyped' /\ command'[w] = Idle
      /\ \A v \in Trees \ {w} : command'[v] = command[v] /\ env'[v] = env[v]
  BY <1>1, <1>5, IdleTyped DEF WorktreesInv, WorktreesTyped
<1>7. CommandOK(w)'
  BY <1>6 DEF CommandOK, Idle
<1>8. \A v \in Trees \ {w} : started'[v] = started[v]
  BY <1>1 DEF WorktreesInv, WorktreesTyped
<1>9. \A i \in Instances : HeldOK(w, i)'
  BY <1>5, <1>6 DEF HeldOK, Idle
<1> QED
  BY <1>1, <1>5, <1>6, <1>7, <1>8, <1>9, StacksStand

\* The stack is the worktree's own: with it goes what `down' has to leave.
LEMMA RemoveStackOK == ASSUME WorktreesInv, NEW w \in Trees, RemoveStack(w) PROVE WorktreesInv'
<1> DEFINE i == command[w].instance
           new == [command[w] EXCEPT !.step = "releasing"]
<1>1. /\ command[w].step = "stopping" /\ stacks' = [stacks EXCEPT ![i] = Absent]
      /\ command' = [command EXCEPT ![w] = new]
      /\ UNCHANGED <<commands, abandoned, env, started>>
  BY DEF RemoveStack, Command
<1>2. CommandOK(w) /\ WorktreesTyped
  BY DEF WorktreesInv
<1>3. i \in Instances /\ env[w].instance = i
  BY <1>1, <1>2 DEF CommandOK
<1>4. /\ new.step = "releasing" /\ new.instance = i
      /\ new \in [step : {"none", "planning", "starting", "stopping", "releasing"},
                  instance : InstanceOrUnset, ports : BOOLEAN, seen : SUBSET HostPorts]
  BY <1>2 DEF WorktreesTyped
<1>5. /\ stacks' \in [Instances -> [ports : SUBSET HostPorts, volumes : BOOLEAN, by : SUBSET Trees]]
      /\ stacks'[i].by = {} /\ stacks'[i].volumes = FALSE /\ stacks'[i].ports = {}
      /\ \A j \in Instances \ {i} : stacks'[j] = stacks[j]
  BY <1>1, <1>2, <1>3 DEF WorktreesTyped, Absent
<1> HIDE DEF new
<1>6. WorktreesTyped' /\ command'[w] = new /\ \A v \in Trees \ {w} : command'[v] = command[v]
  BY <1>1, <1>2, <1>4, <1>5 DEF WorktreesTyped
<1>7. \A j \in Instances : stacks'[j].by \subseteq stacks[j].by
  BY <1>5
<1>8. CommandOK(w)'
  <2>1. \A j \in Instances : w \in stacks'[j].by => j \in abandoned
    BY <1>3, <1>5 DEF WorktreesInv, StackOK
  <2> QED
    BY <1>1, <1>3, <1>4, <1>6, <2>1 DEF CommandOK
<1>9. \A v \in Trees \ {w} : CommandOK(v)'
  BY <1>1, <1>6, <1>7, OthersCommandOK
<1>10. \A j \in Instances : StackOK(j)'
  BY <1>1, <1>5 DEF WorktreesInv, StackOK
<1>11. ASSUME NEW v \in Trees, NEW j \in Instances PROVE HeldOK(v, j)'
  <2>1. HeldOK(v, j) /\ stacks'[j].ports \subseteq stacks[j].ports
    BY <1>5 DEF WorktreesInv
  <2>2. command'[v].step = "planning" => command'[v] = command[v]
    BY <1>4, <1>6
  <2> QED
    BY <1>1, <2>1, <2>2 DEF HeldOK, Window
<1> QED
  BY <1>6, <1>8, <1>9, <1>10, <1>11 DEF WorktreesInv

\* A plan names its stack in the .env; the one it named before is left behind.
LEMMA PlanOK == ASSUME WorktreesInv, NEW w \in Trees, Plan(w) PROVE WorktreesInv'
<1> DEFINE i == command[w].instance
           fresh == command[w].ports /\ ~SelectedBefore(w)
           new == [instance |-> i,
                   offset |-> IF fresh THEN Min(FreeOffsets(command[w].seen)) ELSE env[w].offset,
                   marker |-> IF command[w].ports THEN i ELSE env[w].marker]
           next == [command[w] EXCEPT !.step = "starting"]
           since == [NoneStarted EXCEPT
                       !.offset = IF fresh THEN started[w].look ELSE started[w].offset]
<1>1. /\ command[w].step = "planning" /\ (fresh => FreeOffsets(command[w].seen) # {})
      /\ env' = [env EXCEPT ![w] = new]
      /\ abandoned' = IF Abandons(w) THEN abandoned \cup {env[w].instance} ELSE abandoned
      /\ command' = [command EXCEPT ![w].step = "starting"]
      /\ started' = [started EXCEPT ![w] = since]
      /\ UNCHANGED <<stacks, commands>>
  BY DEF Plan
<1>2. CommandOK(w) /\ WorktreesTyped
  BY DEF WorktreesInv
<1>3. i \in Instances /\ command[w].seen \in SUBSET HostPorts /\ command[w].ports \in BOOLEAN
  BY <1>1, <1>2 DEF CommandOK, WorktreesTyped
<1>4. fresh => /\ Min(FreeOffsets(command[w].seen)) \in Fitting
               /\ Window(Min(FreeOffsets(command[w].seen))) \cap command[w].seen = {}
  BY <1>1, <1>3, SelectionFits
<1>5. env[w] \in [instance : InstanceOrUnset, offset : Fitting, marker : InstanceOrUnset]
  BY <1>2 DEF WorktreesTyped
<1>6. /\ new \in [instance : InstanceOrUnset, offset : Fitting, marker : InstanceOrUnset]
      /\ new.instance = i /\ (fresh => new.offset = Min(FreeOffsets(command[w].seen)))
      /\ ~fresh => new.offset = env[w].offset /\ new.marker = env[w].marker
  BY <1>3, <1>4, <1>5 DEF InstanceOrUnset, SelectedBefore
<1>7. env' \in [Trees -> [instance : InstanceOrUnset, offset : Fitting, marker : InstanceOrUnset]]
      /\ env'[w] = new /\ \A v \in Trees \ {w} : env'[v] = env[v]
  BY <1>1, <1>2, <1>6 DEF WorktreesTyped
<1>8. /\ next.step = "starting" /\ next.instance = i
       /\ next \in [step : {"none", "planning", "starting", "stopping", "releasing"},
                    instance : InstanceOrUnset, ports : BOOLEAN, seen : SUBSET HostPorts]
  BY <1>2, <1>3 DEF WorktreesTyped
<1>9. command' = [command EXCEPT ![w] = next]
  BY <1>1, <1>2 DEF WorktreesTyped
<1> HIDE DEF next
<1>10. /\ command'[w] = next /\ \A v \in Trees \ {w} : command'[v] = command[v]
      /\ command' \in [Trees -> [step : {"none", "planning", "starting", "stopping", "releasing"},
                                 instance : InstanceOrUnset, ports : BOOLEAN,
                                 seen : SUBSET HostPorts]]
  BY <1>2, <1>8, <1>9 DEF WorktreesTyped
<1>11. abandoned \subseteq abandoned' /\ abandoned' \subseteq Instances
      /\ (env[w].instance \in Instances /\ env[w].instance # i => env[w].instance \in abandoned')
  BY <1>1, <1>2, <1>5, UnsetIsNoInstance DEF WorktreesTyped, Abandons, InstanceOrUnset
<1>12. since.offset = IF fresh THEN started[w].look ELSE started[w].offset
  BY DEF NoneStarted
<1>13. since \in [look : SUBSET Instances, offset : SUBSET Instances]
  BY <1>2 DEF WorktreesTyped, NoneStarted
<1> HIDE DEF since
<1>14. /\ started' \in [Trees -> [look : SUBSET Instances, offset : SUBSET Instances]]
       /\ started'[w] = since /\ \A v \in Trees \ {w} : started'[v] = started[v]
  BY <1>1, <1>2, <1>13 DEF WorktreesTyped
<1>15. WorktreesTyped'
  BY <1>1, <1>2, <1>7, <1>10, <1>11, <1>14 DEF WorktreesTyped
<1>16. fresh => command[w].ports
  OBVIOUS
<1> HIDE DEF fresh, new
<1>17. CommandOK(w)'
  BY <1>3, <1>6, <1>7, <1>10, <1>8 DEF CommandOK
<1>18. \A v \in Trees \ {w} : CommandOK(v)'
  BY <1>1, <1>7, <1>10, <1>11, OthersCommandOK
<1>19. ASSUME NEW j \in Instances PROVE StackOK(j)'
  <2> SUFFICES ASSUME NEW v \in Trees, v \in stacks[j].by
               PROVE  j \in abandoned' \/ env'[v].instance = j
    BY <1>1 DEF WorktreesInv, StackOK
  <2>1. j \in abandoned \/ env[v].instance = j
    BY DEF WorktreesInv, StackOK
  <2>2. CASE v = w
    BY <1>6, <1>7, <1>11, <2>1, <2>2
  <2>3. CASE v # w
    BY <1>7, <1>11, <2>1, <2>3
  <2> QED
    BY <2>2, <2>3
<1>20. ASSUME NEW j \in Instances PROVE HeldOK(w, j)'
  <2>1. HeldOK(w, j)
    BY DEF WorktreesInv
  <2>2. command'[w].step # "planning"
    BY <1>8, <1>10
  <2>3. CASE fresh
    <3>1. j \notin started[w].look => stacks[j].ports \cap Window(new.offset) = {}
      BY <1>1, <1>4, <1>6, <1>16, <2>1, <2>3 DEF HeldOK
    <3> QED
      BY <1>1, <1>7, <1>12, <1>14, <2>2, <2>3, <3>1 DEF HeldOK, Window
  <2>4. CASE ~fresh
    BY <1>1, <1>6, <1>7, <1>12, <1>14, <2>1, <2>2, <2>4 DEF HeldOK, Window
  <2> QED
    BY <2>3, <2>4
<1>21. \A v \in Trees \ {w}, j \in Instances : HeldOK(v, j)'
  BY <1>1, <1>7, <1>10, <1>14 DEF WorktreesInv, HeldOK, Window
<1> QED
  BY <1>15, <1>17, <1>18, <1>19, <1>20, <1>21 DEF WorktreesInv

\* A stack that is brought up is the one its worktree's .env names.
LEMMA StartOK == ASSUME WorktreesInv, NEW w \in Trees, Start(w) PROVE WorktreesInv'
<1> DEFINE i == command[w].instance
<1>1. PICK held \in SUBSET (Bound(w) \ Others(i)) :
        stacks' = [stacks EXCEPT ![i] = [ports |-> held, volumes |-> TRUE, by |-> @.by \cup {w}]]
  BY DEF Start
<1>2. /\ command[w].step = "starting" /\ command' = [command EXCEPT ![w] = Idle]
      /\ started' = [v \in Trees |-> WithStarted(v, i)]
      /\ UNCHANGED <<commands, abandoned, env>>
  BY DEF Start, Command
<1>3. CommandOK(w) /\ WorktreesTyped
  BY DEF WorktreesInv
<1>4. i \in Instances /\ env[w].instance = i
  BY <1>2, <1>3 DEF CommandOK
<1>5. held \subseteq HostPorts
  <2>1. env[w].offset \in Fitting
    BY <1>3 DEF WorktreesTyped
  <2> QED
    BY <2>1, FittingFacts DEF Bound
<1>6. /\ stacks' \in [Instances -> [ports : SUBSET HostPorts, volumes : BOOLEAN, by : SUBSET Trees]]
      /\ stacks'[i].by = stacks[i].by \cup {w}
      /\ \A j \in Instances \ {i} : stacks'[j] = stacks[j]
  BY <1>1, <1>3, <1>4, <1>5 DEF WorktreesTyped
<1>7. started' \in [Trees -> [look : SUBSET Instances, offset : SUBSET Instances]]
  BY <1>2, <1>3, <1>4 DEF WorktreesTyped, WithStarted
<1>8. WorktreesTyped' /\ command'[w] = Idle /\ \A v \in Trees \ {w} : command'[v] = command[v]
  BY <1>2, <1>3, <1>6, <1>7, IdleTyped DEF WorktreesTyped
<1>9. CommandOK(w)'
  BY <1>8 DEF CommandOK, Idle
<1>10. \A v \in Trees \ {w} : CommandOK(v)'
  BY <1>2, <1>6, <1>8, OthersCommandOK
<1>11. \A j \in Instances : StackOK(j)'
  BY <1>2, <1>4, <1>6 DEF WorktreesInv, StackOK
<1>12. ASSUME NEW v \in Trees, NEW j \in Instances PROVE HeldOK(v, j)'
  <2>1. HeldOK(v, j) /\ started'[v] = WithStarted(v, i)
    BY <1>2 DEF WorktreesInv
  <2>2. /\ started[v].look \subseteq started'[v].look
        /\ started[v].offset \subseteq started'[v].offset
        /\ command[v].step = "planning" /\ command[v].ports => i \in started'[v].look
        /\ env[v].marker # Unset => i \in started'[v].offset
    BY <2>1 DEF WithStarted
  <2>3. command'[v].step = "planning" => command'[v] = command[v]
    BY <1>8 DEF Idle
  <2>4. j # i => stacks'[j] = stacks[j]
    BY <1>6
  <2> QED
    BY <1>2, <2>1, <2>2, <2>3, <2>4 DEF HeldOK, Window
<1> QED
  BY <1>8, <1>9, <1>10, <1>11, <1>12 DEF WorktreesInv

LEMMA WorktreesNextOK == WorktreesInv /\ [WorktreesNext]_worktreeVars => WorktreesInv'
<1> SUFFICES ASSUME WorktreesInv, [WorktreesNext]_worktreeVars PROVE WorktreesInv'
  OBVIOUS
<1>1. CASE UNCHANGED worktreeVars
  BY <1>1 DEF worktreeVars, WorktreesInv, WorktreesTyped, CommandOK, StackOK, HeldOK, Window
<1> QED
  BY <1>1, UpOK, DownOK, PlanOK, StartOK, RemoveStackOK, ReleaseOK, StopOK
     DEF WorktreesNext, Provision, Deprovision

LEMMA WorktreesInvHolds == WorktreesSpec => []WorktreesInv
  BY WorktreesInitOK, WorktreesNextOK, PTL DEF WorktreesSpec

-----------------------------------------------------------------------------
LEMMA WorktreesInvTypes == WorktreesInv => WorktreesTypeOK
<1> SUFFICES ASSUME WorktreesInv PROVE WorktreesTypeOK
  OBVIOUS
<1>1. ASSUME NEW w \in Trees
      PROVE  /\ env[w].instance \in Instances \cup {Unset}
             /\ env[w].marker \in {Unset, env[w].instance} \cup Instances
             /\ env[w].offset \in Offsets
             /\ command[w].step \in {"none", "planning", "starting", "stopping", "releasing"}
             /\ started[w].look \cup started[w].offset \subseteq Instances
  BY DEF WorktreesInv, WorktreesTyped, InstanceOrUnset, Fitting
<1>2. \A i \in Instances : stacks[i].ports \subseteq 0..MaxHostPort /\ stacks[i].by \subseteq Trees
  BY DEF WorktreesInv, WorktreesTyped, HostPorts
<1> QED
  BY <1>1, <1>2 DEF WorktreesInv, WorktreesTyped, WorktreesTypeOK

\* The .env files, stacks and commands of the worktrees keep their types, and no
\* stack is bound to a port beyond the host's.
THEOREM WorktreesTypes == WorktreesSpec => []WorktreesTypeOK
  BY WorktreesInvTypes, WorktreesInvHolds, PTL

\* Whatever the worktrees do to each other, and wherever an `up' is stopped: as
\* long as a worktree keeps the offset it has selected, the stacks that hold a
\* port of its window were started after it had looked at the ports.
THEOREM PortsTheorem == WorktreesSpec => []SelectedPortsWereFree
<1>1. WorktreesInv => SelectedPortsWereFree
  BY DEF WorktreesInv, HeldOK, SelectedPortsWereFree
<1> QED
  BY <1>1, WorktreesInvHolds, PTL

\* `down' takes the stack its worktree's last `up' has made, whatever branch is
\* checked out by then, and every stack with volumes is named by a worktree, but
\* those that an `up' under another name left behind.
THEOREM NoStackLostTheorem == WorktreesSpec => []NoStackIsLost
<1>1. WorktreesInv => DownLeavesNothing
  BY DEF WorktreesInv, CommandOK, DownLeavesNothing
<1>2. WorktreesInv => StacksAreNamed
  <2> SUFFICES ASSUME WorktreesInv, NEW i \in Instances, stacks[i].volumes
               PROVE  i \in abandoned \/ \E w \in Trees : env[w].instance = i
    BY DEF StacksAreNamed
  <2>1. stacks[i].by # {} /\ stacks[i].by \subseteq Trees
    BY DEF WorktreesInv, StackOK, WorktreesTyped
  <2> QED
    BY <2>1 DEF WorktreesInv, StackOK
<1> QED
  BY <1>1, <1>2, WorktreesInvHolds, PTL DEF NoStackIsLost

-----------------------------------------------------------------------------
(* Connections                                                             *)

\* _active lists the sockets it holds once each, and the gauge counts them; a
\* handler that is over is not among them.
SocketsInv ==
  /\ Lists(Sockets, registered, Range(registered))
  /\ gauge = Len(registered) /\ peers \subseteq Sockets
  /\ handler \in [Sockets -> {"new", "reading", "sending", "over"}]
  /\ recipients \in [Sockets -> Seq(Sockets)]
  /\ \A c \in Sockets : handler[c] \in {"new", "over"} => c \notin Range(registered)
  /\ messages \in 0..MaxMessages

LEMMA SocketsInitOK == SocketsInit => SocketsInv
<1> SUFFICES ASSUME SocketsInit PROVE SocketsInv
  OBVIOUS
<1>1. registered = <<>> /\ Range(registered) = {}
  BY DEF SocketsInit, Range
<1>2. Lists(Sockets, registered, Range(registered))
  BY <1>1 DEF Lists
<1>3. messages \in 0..MaxMessages
  BY ConnectionsAssumption DEF SocketsInit
<1> QED
  BY <1>1, <1>2, <1>3 DEF SocketsInit, SocketsInv

\* What is listed is what is in the range.
LEMMA ListedRange ==
  ASSUME NEW K, NEW o, Lists(Sockets, o, K), K \subseteq Sockets
  PROVE  Range(o) = K /\ o \in Seq(Sockets) /\ Len(o) \in Nat /\ DOMAIN o = 1..Len(o)
<1>1. o \in Seq(Sockets) /\ Len(o) \in Nat /\ DOMAIN o = 1..Len(o)
  BY DEF Lists
<1>2. \A d \in Sockets : d \in K <=> \E i \in 1..Len(o) : o[i] = d
  BY DEF Lists
<1>3. \A i \in 1..Len(o) : o[i] \in Sockets
  BY <1>1
<1> QED
  BY <1>1, <1>2, <1>3 DEF Range

LEMMA SocketFacts ==
  ASSUME SocketsInv
  PROVE  /\ registered \in Seq(Sockets) /\ Len(registered) \in Nat
         /\ DOMAIN registered = 1..Len(registered) /\ Range(registered) \subseteq Sockets
<1>1. registered \in Seq(Sockets)
  BY DEF SocketsInv, Lists
<1> QED
  BY <1>1 DEF Range

LEMMA ConnectOK == ASSUME SocketsInv, NEW c \in Sockets, Connect(c) PROVE SocketsInv'
<1>1. /\ handler[c] = "new" /\ handler' = [handler EXCEPT ![c] = "reading"]
      /\ registered' = Append(registered, c) /\ gauge' = gauge + 1 /\ peers' = peers \cup {c}
      /\ UNCHANGED <<recipients, messages>>
  BY DEF Connect
<1>2. c \notin Range(registered)
  BY <1>1 DEF SocketsInv
<1>3. Lists(Sockets, Append(registered, c), Range(registered) \cup {c})
  BY <1>2, ListsWith DEF SocketsInv
<1>4. Range(registered') = Range(registered) \cup {c}
  BY <1>1, <1>3, SocketFacts, ListedRange
<1>5. Lists(Sockets, registered', Range(registered'))
  BY <1>1, <1>3, <1>4
<1>6. gauge' = Len(registered')
  BY <1>1, SocketFacts DEF SocketsInv
<1>7. /\ handler' \in [Sockets -> {"new", "reading", "sending", "over"}] /\ handler'[c] = "reading"
      /\ \A d \in Sockets \ {c} : handler'[d] = handler[d]
  BY <1>1 DEF SocketsInv
<1>8. (Lists(Sockets, registered, Range(registered)))' <=>
        Lists(Sockets, registered', Range(registered'))
  BY DEF Lists, Range
<1> QED
  BY <1>1, <1>4, <1>5, <1>6, <1>7, <1>8 DEF SocketsInv

\* A step that leaves the registered sockets as they are.
LEMMA SocketsStand ==
  ASSUME SocketsInv, UNCHANGED <<registered, gauge>>, peers' \subseteq Sockets,
         handler' \in [Sockets -> {"new", "reading", "sending", "over"}],
         recipients' \in [Sockets -> Seq(Sockets)],
         \A c \in Sockets : handler'[c] \in {"new", "over"} => c \notin Range(registered),
         messages' \in 0..MaxMessages
  PROVE  SocketsInv'
<1>1. (Lists(Sockets, registered, Range(registered)))' <=>
        Lists(Sockets, registered, Range(registered))
  BY DEF Lists, Range
<1>2. Range(registered)' = Range(registered)
  BY DEF Range
<1> QED
  BY <1>1, <1>2 DEF SocketsInv

LEMMA ReceiveTextOK == ASSUME SocketsInv, NEW c \in Sockets, ReceiveText(c) PROVE SocketsInv'
<1>1. /\ handler[c] = "reading" /\ messages < MaxMessages /\ messages' = messages + 1
      /\ handler' = [handler EXCEPT ![c] = "sending"]
      /\ recipients' = [recipients EXCEPT ![c] = registered]
      /\ UNCHANGED <<registered, gauge, peers>>
  BY DEF ReceiveText
<1>2. messages' \in 0..MaxMessages
  BY <1>1, ConnectionsAssumption DEF SocketsInv
<1>3. /\ handler' \in [Sockets -> {"new", "reading", "sending", "over"}]
      /\ recipients' \in [Sockets -> Seq(Sockets)]
      /\ \A d \in Sockets : handler'[d] \in {"new", "over"} => d \notin Range(registered)
  BY <1>1, SocketFacts DEF SocketsInv
<1> QED
  BY <1>1, <1>2, <1>3, SocketsStand DEF SocketsInv

LEMMA SendTextOK == ASSUME SocketsInv, NEW c \in Sockets, SendText(c) PROVE SocketsInv'
<1>1. /\ recipients[c] # <<>> /\ recipients' = [recipients EXCEPT ![c] = Tail(@)]
      /\ UNCHANGED <<registered, gauge, peers, handler, messages>>
  BY DEF SendText
<1>2. recipients \in [Sockets -> Seq(Sockets)] /\ recipients[c] \in Seq(Sockets)
  BY DEF SocketsInv
<1>3. Tail(recipients[c]) \in Seq(Sockets)
  BY <1>1, <1>2
<1>4. recipients' \in [Sockets -> Seq(Sockets)]
  BY <1>1, <1>2, <1>3
<1> QED
  BY <1>1, <1>4, SocketsStand DEF SocketsInv

LEMMA SentOK == ASSUME SocketsInv, NEW c \in Sockets, Sent(c) PROVE SocketsInv'
<1>1. /\ handler[c] = "sending" /\ handler' = [handler EXCEPT ![c] = "reading"]
      /\ UNCHANGED <<registered, gauge, peers, recipients, messages>>
  BY DEF Sent
<1>2. /\ handler' \in [Sockets -> {"new", "reading", "sending", "over"}]
      /\ \A d \in Sockets : handler'[d] \in {"new", "over"} => d \notin Range(registered)
  BY <1>1 DEF SocketsInv
<1> QED
  BY <1>1, <1>2, SocketsStand DEF SocketsInv

LEMMA PeerLeavesOK == ASSUME SocketsInv, NEW c \in Sockets, PeerLeaves(c) PROVE SocketsInv'
  BY SocketsStand DEF PeerLeaves, SocketsInv

\* A handler that ends takes its socket off the list and off the gauge.
LEMMA OverOK == ASSUME SocketsInv, NEW c \in Sockets, Over(c) PROVE SocketsInv'
<1>1. /\ handler' = [handler EXCEPT ![c] = "over"] /\ recipients' = [recipients EXCEPT ![c] = <<>>]
      /\ Disconnect(c) /\ UNCHANGED <<peers, messages>>
  BY DEF Over
<1>2. /\ handler' \in [Sockets -> {"new", "reading", "sending", "over"}] /\ handler'[c] = "over"
      /\ \A d \in Sockets \ {c} : handler'[d] = handler[d]
      /\ recipients' \in [Sockets -> Seq(Sockets)]
  BY <1>1 DEF SocketsInv
<1>3. CASE c \notin Range(registered)
  <2>1. UNCHANGED <<registered, gauge>>
    BY <1>1, <1>3 DEF Disconnect, Range
  <2>2. \A d \in Sockets : handler'[d] \in {"new", "over"} => d \notin Range(registered)
    BY <1>2, <1>3 DEF SocketsInv
  <2> QED
    BY <1>1, <1>2, <2>1, <2>2, SocketsStand DEF SocketsInv
<1>4. CASE c \in Range(registered)
  <2>1. PICK i \in DOMAIN registered :
          /\ registered[i] = c /\ registered' = RemoveAt(registered, i)
          /\ gauge' = IF gauge > 0 THEN gauge - 1 ELSE 0
    BY <1>1, <1>4 DEF Disconnect
  <2>2. i \in 1..Len(registered)
    BY <2>1, SocketFacts
  <2>3. Lists(Sockets, RemoveAt(registered, i), Range(registered) \ {c})
    BY <2>1, <2>2, ListsWithout DEF SocketsInv
  <2>4. Range(registered') = Range(registered) \ {c}
    BY <2>1, <2>3, SocketFacts, ListedRange
  <2>5. (Lists(Sockets, registered, Range(registered)))' <=>
          Lists(Sockets, registered', Range(registered'))
    BY DEF Lists, Range
  <2>6. Len(registered') = Len(registered) - 1
    BY <2>1, <2>2, SocketFacts, RemoveAtProperties
  <2>7. gauge' = Len(registered')
    BY <2>1, <2>2, <2>6, SocketFacts DEF SocketsInv
  <2> QED
    BY <1>1, <1>2, <2>1, <2>3, <2>4, <2>5, <2>7 DEF SocketsInv
<1> QED
  BY <1>3, <1>4

LEMMA SocketsNextOK == SocketsInv /\ [SocketsNext]_socketVars => SocketsInv'
<1> SUFFICES ASSUME SocketsInv, [SocketsNext]_socketVars PROVE SocketsInv'
  OBVIOUS
<1>1. CASE UNCHANGED socketVars
  BY <1>1, SocketsStand DEF socketVars, SocketsInv
<1> QED
  BY <1>1, ConnectOK, ReceiveTextOK, SendTextOK, SentOK, PeerLeavesOK, OverOK
     DEF SocketsNext, Handler, SendFails, ReceiveDisconnect

LEMMA SocketsInvHolds == SocketsSpec => []SocketsInv
  BY SocketsInitOK, SocketsNextOK, PTL DEF SocketsSpec

LEMMA SocketsInvTypes == SocketsInv => SocketsTypeOK
<1> SUFFICES ASSUME SocketsInv PROVE SocketsTypeOK
  OBVIOUS
<1>1. IsInjective(registered)
  BY SocketFacts DEF SocketsInv, Lists, IsInjective
<1> QED
  BY <1>1, SocketFacts DEF SocketsInv, SocketsTypeOK

\* The gauge of active connections is the number of sockets registered, each
\* once, and none whose handler is over is left (connection_manager.py, metrics.py).
THEOREM SocketsTypes == SocketsSpec => []SocketsTypeOK
  BY SocketsInvHolds, SocketsInvTypes, PTL

-----------------------------------------------------------------------------
(* The five parts together                                                 *)

\* A behaviour of the services is, to each part, a behaviour of its own.
LEMMA PartsInit ==
  ServicesInit => RegistryInit /\ DeployInit /\ DeliveriesInit /\ SocketsInit /\ WorktreesInit
  BY DEF ServicesInit

LEMMA PartsNext ==
  [ServicesNext]_servicesVars =>
    /\ [RegistryNext]_registryVars /\ [DeployNext]_deployVars /\ [DeliveriesNext]_deliveryVars
    /\ [SocketsNext]_socketVars /\ [WorktreesNext]_worktreeVars
  BY DEF ServicesNext, servicesVars, EnginesRest, DeployRests, DeliveriesRest, SocketsRest,
         WorktreesRest

LEMMA ServicesTypesHold ==
  /\ IInv => RegistryTypeOK
  /\ DeployInv => DeployTypeOK
  /\ WorktreesInv => WorktreesTypeOK
<1>1. IInv => RegistryTypeOK
  BY DEF IInv, Core, Types, Lists, RegistryTypeOK
<1> QED
  BY <1>1, DeployInvTypes, WorktreesInvTypes

\* Every variable of the five parts keeps its type, whichever of them moves.
THEOREM ServicesTypeTheorem == ServicesSpec => []ServicesTypes
<1>1. ServicesInit => IInv /\ DeployInv /\ DeliveriesInv /\ SocketsInv /\ WorktreesInv
  BY PartsInit, InitOK, DeployInitOK, DeliveriesInitOK, SocketsInitOK, WorktreesInitOK
<1>2. IInv /\ DeployInv /\ DeliveriesInv /\ SocketsInv /\ WorktreesInv /\ [ServicesNext]_servicesVars
        => (IInv /\ DeployInv /\ DeliveriesInv /\ SocketsInv /\ WorktreesInv)'
  BY PartsNext, NextKeeps, DeployNextOK, DeliveriesNextOK, SocketsNextOK, WorktreesNextOK
<1>3. IInv /\ DeployInv /\ DeliveriesInv /\ SocketsInv /\ WorktreesInv => ServicesTypes
  BY ServicesTypesHold, DeliveriesInvImplies, SocketsInvTypes DEF ServicesTypes
<1> QED
  BY <1>1, <1>2, <1>3, PTL DEF ServicesSpec
=================================================================================
