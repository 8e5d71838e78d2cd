------------------------------ MODULE Deliveries ------------------------------
(***************************************************************************)
(* The webhook inbox and the background tasks it feeds (routes/webhooks.py,*)
(* webhooks/inbox.py and handler.py, tasks/base.py and dead_letter.py).    *)
(*                                                                         *)
(* The provider delivers an event at least once.  A delivery inserts the   *)
(* event's key, sends a task to the broker, and commits.  A task's message *)
(* is acknowledged late: a worker that is lost gives it back.  A failure   *)
(* publishes the task again, MaxRetries times, and then writes a row of    *)
(* the dead-letter queue.                                                  *)
(***************************************************************************)
EXTENDS Naturals, FiniteSets

CONSTANTS
  Posts,        \* the deliveries
  EventOf,      \* EventOf[d]: the event, by its key
  Workers,      \* the worker processes
  MaxRetries,   \* BaseTask.max_retries
  MaxLosses     \* bound: workers lost

ASSUME DeliveriesAssumption ==
  /\ EventOf \in [Posts -> {EventOf[d] : d \in Posts}]
  /\ MaxRetries \in Nat /\ MaxLosses \in Nat

VARIABLES
  post,       \* post[d]: where the delivery is, or its answer
  inbox,      \* the keys with a committed row
  sent,       \* the tasks sent: a task is named after the delivery that sent it
  broker,     \* the messages ready: [task, retries, life], life (how many workers had
              \* been lost when it was given back) history: no two messages are alike
  worker,     \* worker[w]: [step, message]
  losses,     \* workers lost so far
  succeeded,  \* history: the tasks that have run to their end
  rows,       \* rows[d]: the dead-letter rows of task d
  unburied    \* history: the tasks whose dead-letter row could not be written

inboxVars    == <<post, inbox, sent>>
taskVars     == <<broker, worker, losses, succeeded, rows, unburied>>
deliveryVars == <<inboxVars, taskVars>>

Events == {EventOf[d] : d \in Posts}
Ready(message) == broker \cup {message}
FirstTry(d) == [task |-> d, retries |-> 0, life |-> 0]
Asleep == [step |-> "idle", message |-> FirstTry(CHOOSE d \in Posts : TRUE)]
Answer(d, code) == post' = [post EXCEPT ![d] = code]

-----------------------------------------------------------------------------
(* receive_webhook: one transaction                                        *)

Receive(d) == post[d] = "none" /\ Answer(d, "recording") /\ UNCHANGED <<inbox, sent, taskVars>>

\* Another delivery of the event has inserted its row, uncommitted.
Held(d) == \E e \in Posts \ {d} :
             EventOf[e] = EventOf[d] /\ post[e] \in {"dispatching", "committing"}

\* Mutant: the row is added, and only the commit inserts it.
RecordUnflushed(d) ==
  /\ post[d] = "recording"
  /\ Answer(d, IF EventOf[d] \in inbox THEN "duplicate" ELSE "dispatching")
  /\ UNCHANGED <<inbox, sent, taskVars>>

\* record: the flush waits for the unique key, and finds a duplicate.
Record(d) ==
  /\ post[d] = "recording" /\ ~Held(d)
  /\ Answer(d, IF EventOf[d] \in inbox THEN "duplicate" ELSE "dispatching")
  /\ UNCHANGED <<inbox, sent, taskVars>>

\* handle_event: process_async.delay
HandleEvent(d) ==
  /\ post[d] = "dispatching" /\ Answer(d, "committing")
  /\ sent' = sent \cup {d} /\ broker' = Ready(FirstTry(d))
  /\ UNCHANGED <<inbox, worker, losses, succeeded, rows, unburied>>

CommitEvent(d) ==
  /\ post[d] = "committing" /\ inbox' = inbox \cup {EventOf[d]}
  /\ Answer(d, "accepted") \/ Answer(d, "failed")     \* the answer may be lost
  /\ UNCHANGED <<sent, taskVars>>

\* A step raises, or the process is lost: the row is rolled back.
FailPost(d) ==
  /\ post[d] \in {"recording", "dispatching", "committing"} /\ Answer(d, "failed")
  /\ UNCHANGED <<inbox, sent, taskVars>>

-----------------------------------------------------------------------------
(* A worker                                                                *)

Works(w, step, message) == worker' = [worker EXCEPT ![w] = [step |-> step, message |-> message]]

Take(w) ==
  \E m \in broker :
    /\ worker[w].step = "idle" /\ Works(w, "running", m)
    /\ broker' = broker \ {m}
    /\ UNCHANGED <<inboxVars, losses, succeeded, rows, unburied>>

\* process_async returns.
Succeed(w) ==
  /\ worker[w].step = "running" /\ Works(w, "done", worker[w].message)
  /\ succeeded' = succeeded \cup {worker[w].message.task}
  /\ UNCHANGED <<inboxVars, broker, losses, rows, unburied>>

\* Mutant: a retry does not count.
RaiseUncounted(w) ==
  LET m == worker[w].message
  IN /\ worker[w].step = "running"
     /\ Works(w, "done", m) /\ broker' = Ready(m)
     /\ UNCHANGED <<inboxVars, losses, succeeded, rows, unburied>>

\* It raises: autoretry_for publishes it again, or its retries are spent.
Raise(w) ==
  LET m == worker[w].message
  IN /\ worker[w].step = "running"
     /\ IF m.retries < MaxRetries
        THEN Works(w, "done", m) /\ broker' = Ready([m EXCEPT !.retries = @ + 1])
        ELSE Works(w, "burying", m) /\ UNCHANGED broker
     /\ UNCHANGED <<inboxVars, losses, succeeded, rows, unburied>>

\* on_failure: record_failure commits its row, or raises.
OnFailure(w) ==
  LET t == worker[w].message.task
  IN /\ worker[w].step = "burying" /\ Works(w, "done", worker[w].message)
     /\ \/ rows' = [rows EXCEPT ![t] = @ + 1] /\ UNCHANGED unburied
        \/ unburied' = unburied \cup {t} /\ UNCHANGED rows
     /\ UNCHANGED <<inboxVars, broker, losses, succeeded>>

\* task_acks_late
Acknowledge(w) ==
  /\ worker[w].step = "done" /\ worker' = [worker EXCEPT ![w] = Asleep]
  /\ UNCHANGED <<inboxVars, broker, losses, succeeded, rows, unburied>>

\* Mutant: what a lost worker held is gone.
LoseWithMessage(w) ==
  /\ worker[w].step # "idle" /\ losses < MaxLosses /\ losses' = losses + 1
  /\ worker' = [worker EXCEPT ![w] = Asleep]
  /\ UNCHANGED <<inboxVars, broker, succeeded, rows, unburied>>

\* task_reject_on_worker_lost: the message is delivered again.
LoseWorker(w) ==
  /\ worker[w].step # "idle" /\ losses < MaxLosses /\ losses' = losses + 1
  /\ broker' = Ready([worker[w].message EXCEPT !.life = losses + 1])
  /\ worker' = [worker EXCEPT ![w] = Asleep]
  /\ UNCHANGED <<inboxVars, succeeded, rows, unburied>>

-----------------------------------------------------------------------------
DeliveriesInit ==
  /\ post = [d \in Posts |-> "none"] /\ inbox = {} /\ sent = {}
  /\ broker = {} /\ worker = [w \in Workers |-> Asleep] /\ losses = 0
  /\ succeeded = {} /\ rows = [d \in Posts |-> 0] /\ unburied = {}

ReceiveWebhook(d) == Receive(d) \/ Record(d) \/ HandleEvent(d) \/ CommitEvent(d) \/ FailPost(d)

Work(w) == Take(w) \/ Succeed(w) \/ Raise(w) \/ OnFailure(w) \/ Acknowledge(w)

DeliveriesNext == \/ \E d \in Posts : ReceiveWebhook(d)
                  \/ \E w \in Workers : Work(w) \/ LoseWorker(w)

DeliveriesFairness == \A w \in Workers : WF_deliveryVars(Work(w))

DeliveriesSpec == DeliveriesInit /\ [][DeliveriesNext]_deliveryVars /\ DeliveriesFairness

-----------------------------------------------------------------------------
InHand   == {w \in Workers : worker[w].step # "idle"}
Messages == broker \cup {worker[w].message : w \in InHand}

Pending(d) == \E m \in Messages : m.task = d

DeliveriesTypeOK ==
  /\ post \in [Posts -> {"none", "recording", "dispatching", "committing",
                         "accepted", "duplicate", "failed"}]
  /\ inbox \subseteq Events /\ sent \subseteq Posts
  /\ Messages \subseteq [task : sent, retries : 0..MaxRetries, life : 0..losses]
  /\ \A w \in Workers : worker[w].step \in {"idle", "running", "burying", "done"}
  /\ losses \in 0..MaxLosses /\ succeeded \subseteq sent /\ unburied \subseteq sent
  /\ rows \in [Posts -> 0..1 + MaxLosses]

\* An event whose row is committed, so that every later delivery of it is
\* dropped, has had its task sent.
RecordedWasSent == \A k \in inbox : \E d \in sent : EventOf[d] = k

\* A second task of one event is sent only when the delivery that sent the
\* first was not answered.
TwiceOnlyAfterFailure ==
  \A d, e \in sent : d # e /\ EventOf[d] = EventOf[e] => "failed" \in {post[d], post[e]}

\* No task vanishes: while it is not at the broker or in a worker's hands, it
\* has run to its end or has its dead-letter row, or the row could not be
\* written.
NoTaskVanishes ==
  \A d \in sent : Pending(d) \/ d \in succeeded \/ rows[d] > 0 \/ d \in unburied

\* A task has more than one dead-letter row, or one although it succeeded,
\* only for each worker that was lost.
DeadLettersAreFinal ==
  \A d \in Posts : rows[d] + (IF d \in succeeded THEN 1 ELSE 0) <= 1 + losses

\* Every task that is sent comes to rest, with its retries spent at the latest.
TasksSettle == []<>(\A d \in sent : ~Pending(d))

\* Between the inbox, the broker, the workers and the dead letters no event and
\* no task is lost, and none is doubled but for a failure that is on record.
DeliveriesSound == RecordedWasSent /\ TwiceOnlyAfterFailure /\ NoTaskVanishes /\ DeadLettersAreFinal
===============================================================================
