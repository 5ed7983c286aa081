----------------------------- MODULE TaskQueue -----------------------------
(***************************************************************************)
(* The asynchronous task core: AsyncTaskService in the API process, the    *)
(* Celery broker and worker nodes, dispatch_task in the pool processes,    *)
(* and the Redis record they share.                                        *)
(*                                                                         *)
(* One API process serves requests one at a time (its handlers do not      *)
(* await inside submit or cancel).  Every Redis or broker call is one      *)
(* step.  update_status of RedisAsyncTaskRepository, the one repository    *)
(* the container builds, is two calls: the SET decides on the copy its GET *)
(* returned, whatever the record has become since.  A record's result and  *)
(* error are written with its status in the same SET, so the status stands *)
(* for the record.                                                         *)
(***************************************************************************)
EXTENDS Naturals

CONSTANTS
  Tasks,          \* task identifiers (uuid4)
  Cancellable,    \* the tasks for which some client asks DELETE
  Nodes,          \* Celery worker nodes (main processes)
  Workers,        \* pool processes
  NodeOf,         \* NodeOf[w]: the node that owns pool process w
  MaxFaults,      \* MaxFaults[k]: how often fault k may strike
  NoTask          \* no task

FaultKinds == {"crash", "redeliver", "kill", "error", "expire"}

ASSUME ConstantsOK ==
  /\ Cancellable \subseteq Tasks
  /\ NodeOf \in [Workers -> Nodes]
  /\ MaxFaults \in [FaultKinds -> Nat]
  /\ NoTask \notin Tasks

VARIABLES
  status,     \* Redis: the record of each task
  held,       \* the statuses each record has had (history)
  ready,      \* broker: tasks whose message waits for a worker
  revoked,    \* revoked[n]: ids node n was told to discard (its memory)
  ctl,        \* broadcast control messages on their way to the nodes
  api,        \* the API process: its step, its task, what its GET returned
  worker,     \* worker[w]: the same of each pool process
  stored,     \* tasks some execution of which returned normally
  faults      \* faults[k]: how often fault k has struck

record == <<status, held>>
brokerVars == <<ready, revoked, ctl>>
vars == <<record, brokerVars, api, worker, stored, faults>>

LC == INSTANCE TaskLifecycle

Terminal == LC!Terminal
Missing  == LC!Missing

ApiSteps == {"idle", "publish", "revoke", "terminate", "cancelled.get", "cancelled.set"}
WorkerSteps == {"idle", "check", "running.get", "running.set", "execute",
                "completed.get", "completed.set", "failed.get", "failed.set", "ack"}

Process(steps) == [pc : steps, task : Tasks \cup {NoTask}, copy : LC!Statuses]

Idle == [pc |-> "idle", task |-> NoTask, copy |-> LC!Absent]

(* A process at step s of its work on task t, with no GET outstanding.     *)
At(s, t) == IF s = "idle" THEN Idle ELSE [pc |-> s, task |-> t, copy |-> LC!Absent]

Control == [node : Nodes, task : Tasks, terminate : BOOLEAN]

TypeOK ==
  /\ LC!TypeOK
  /\ ready \subseteq Tasks
  /\ revoked \in [Nodes -> SUBSET Tasks]
  /\ ctl \subseteq Control
  /\ api \in Process(ApiSteps)
  /\ worker \in [Workers -> Process(WorkerSteps)]
  /\ stored \subseteq Tasks
  /\ faults \in [FaultKinds -> Nat]
  /\ api.pc # "idle" => api.task \in Tasks
  /\ \A w \in Workers : worker[w].pc # "idle" => worker[w].task \in Tasks

Init ==
  /\ status = [t \in Tasks |-> LC!Absent]
  /\ held = [t \in Tasks |-> {}]
  /\ ready = {}
  /\ revoked = [n \in Nodes |-> {}]
  /\ ctl = {}
  /\ api = Idle
  /\ worker = [w \in Workers |-> Idle]
  /\ stored = {}
  /\ faults = [k \in FaultKinds |-> 0]

-----------------------------------------------------------------------------
(* A SET of task t's record with status s.                                 *)
Record(t, s) ==
  /\ status' = [status EXCEPT ![t] = s]
  /\ held' = [held EXCEPT ![t] = @ \cup {s}]

(* Mutant of Store: the edge is not checked.                               *)
StoreUnchecked(t, copy, s) == Record(t, s)

(* update_status(t, s), second half: the SET, made only when the edge from *)
(* the status that was read to s is allowed.                               *)
Store(t, copy, s) ==
  IF <<copy, s>> \in LC!Transitions THEN Record(t, s) ELSE UNCHANGED record

ApiGoto(s) == api' = At(s, api.task)

WorkerGoto(w, s) == worker' = [worker EXCEPT ![w] = At(s, worker[w].task)]

(* Pool process w is handling a message of task t.                         *)
Holds(w, t) == worker[w].pc # "idle" /\ worker[w].task = t

Strike(k) ==
  /\ faults[k] < MaxFaults[k]
  /\ faults' = [faults EXCEPT ![k] = @ + 1]

-----------------------------------------------------------------------------
(* The API process.                                                        *)

(* Mutant of Create: a status the repository does not know.                *)
CreatePending(t) ==
  /\ api.pc = "idle"
  /\ status[t] = LC!Absent
  /\ Record(t, "pending")
  /\ api' = At("publish", t)
  /\ UNCHANGED <<brokerVars, worker, stored, faults>>

(* submit(): repository.create under a fresh identifier.                   *)
Create(t) ==
  /\ api.pc = "idle"
  /\ status[t] = LC!Absent
  /\ Record(t, "queued")
  /\ api' = At("publish", t)
  /\ UNCHANGED <<brokerVars, worker, stored, faults>>

(* submit(): apply_async returned.                                         *)
Publish ==
  /\ api.pc = "publish"
  /\ ready' = ready \cup {api.task}
  /\ ApiGoto("idle")
  /\ UNCHANGED <<record, revoked, ctl, worker, stored, faults>>

(* submit(): apply_async raised, and the message may have reached the      *)
(* broker all the same; the record is to be marked cancelled.              *)
PublishFails ==
  /\ api.pc = "publish"
  /\ Strike("error")
  /\ ready' \in {ready, ready \cup {api.task}}
  /\ ApiGoto("cancelled.get")
  /\ UNCHANGED <<record, revoked, ctl, worker, stored>>

(* cancel(): repository.get decides between revoke and terminate; a task   *)
(* that is neither queued nor running is only read.                        *)
CancelTask(t) ==
  /\ api.pc = "idle"
  /\ t \in Cancellable
  /\ \/ status[t] = "queued"  /\ api' = At("revoke", t)
     \/ status[t] = "running" /\ api' = At("terminate", t)
  /\ UNCHANGED <<record, brokerVars, worker, stored, faults>>

Broadcast(t, terminate) ==
  ctl' = ctl \cup {[node |-> n, task |-> t, terminate |-> terminate] : n \in Nodes}

(* cancel() of a queued task: control.revoke, then update_status.          *)
Revoke ==
  /\ api.pc = "revoke"
  /\ Broadcast(api.task, FALSE)
  /\ ApiGoto("cancelled.get")
  /\ UNCHANGED <<record, ready, revoked, worker, stored, faults>>

(* cancel() of a running task: control.revoke with terminate, and no more. *)
Terminate ==
  /\ api.pc = "terminate"
  /\ Broadcast(api.task, TRUE)
  /\ ApiGoto("idle")
  /\ UNCHANGED <<record, ready, revoked, worker, stored, faults>>

(* update_status(.., "cancelled") of submit and of cancel: the GET ...     *)
CancelledGet ==
  /\ api.pc = "cancelled.get"
  /\ api' = [api EXCEPT !.pc = "cancelled.set", !.copy = status[api.task]]
  /\ UNCHANGED <<record, brokerVars, worker, stored, faults>>

(* ... and the SET.                                                        *)
CancelledSet ==
  /\ api.pc = "cancelled.set"
  /\ Store(api.task, api.copy, "cancelled")
  /\ ApiGoto("idle")
  /\ UNCHANGED <<brokerVars, worker, stored, faults>>

(* A call of the request raises, or the API process dies in it: the effect *)
(* of the pending call is there or not, and nothing after it happens.      *)
ApiAborts ==
  /\ api.pc # "idle"
  /\ Strike("error")
  /\ ApiGoto("idle")
  /\ \/ UNCHANGED <<record, ready>>
     \/ api.pc = "publish" /\ ready' = ready \cup {api.task} /\ UNCHANGED record
     \/ /\ api.pc = "cancelled.set"
        /\ Store(api.task, api.copy, "cancelled")
        /\ UNCHANGED ready
  /\ UNCHANGED <<revoked, ctl, worker, stored>>

-----------------------------------------------------------------------------
(* dispatch_task in a pool process.                                        *)

(* The node hands a message to a free pool process; acks_late keeps the    *)
(* message with the broker until Ack.                                      *)
Deliver(w, t) ==
  /\ worker[w].pc = "idle"
  /\ t \in ready \ revoked[NodeOf[w]]
  /\ ready' = ready \ {t}
  /\ worker' = [worker EXCEPT ![w] = At("check", t)]
  /\ UNCHANGED <<record, revoked, ctl, api, stored, faults>>

(* A node that knows the task revoked acknowledges its message unhandled.  *)
Discard(n, t) ==
  /\ t \in ready \cap revoked[n]
  /\ ready' = ready \ {t}
  /\ UNCHANGED <<record, revoked, ctl, api, worker, stored, faults>>

(* Mutant of Check: the guard is dropped.                                  *)
CheckNothing(w) ==
  /\ worker[w].pc = "check"
  /\ WorkerGoto(w, "running.get")
  /\ UNCHANGED <<record, brokerVars, api, stored, faults>>

(* The guard of dispatch_task: a cancelled task is skipped.                *)
Check(w) ==
  /\ worker[w].pc = "check"
  /\ WorkerGoto(w, IF status[worker[w].task] = "cancelled" THEN "ack" ELSE "running.get")
  /\ UNCHANGED <<record, brokerVars, api, stored, faults>>

(* Mutant of Get: a missing record is taken for one that is queued.        *)
GetDefaults(w, get, set, onMissing) ==
  LET t == worker[w].task
      found == IF status[t] \in Missing THEN "queued" ELSE status[t] IN
  /\ worker[w].pc = get
  /\ worker' = [worker EXCEPT ![w] = [pc |-> set, task |-> t, copy |-> found]]
  /\ UNCHANGED <<record, brokerVars, api, stored, faults>>

(* The GET of update_status, at step get.  With no record it raises        *)
(* KeyError: out of the handler, except that the try turns "completed"     *)
(* into "failed".                                                          *)
Get(w, get, set, onMissing) ==
  LET t == worker[w].task IN
  /\ worker[w].pc = get
  /\ IF status[t] \in Missing
     THEN WorkerGoto(w, onMissing)
     ELSE worker' = [worker EXCEPT ![w] = [pc |-> set, task |-> t, copy |-> status[t]]]
  /\ UNCHANGED <<record, brokerVars, api, stored, faults>>

RunningGet(w)   == Get(w, "running.get", "running.set", "ack")
CompletedGet(w) == Get(w, "completed.get", "completed.set", "failed.get")
FailedGet(w)    == Get(w, "failed.get", "failed.set", "ack")

(* The SET of update_status(.., s).  Its outcome is not looked at, so the  *)
(* handler goes on also when the edge was refused.                         *)
Set(w, s, set, next) ==
  /\ worker[w].pc = set
  /\ Store(worker[w].task, worker[w].copy, s)
  /\ WorkerGoto(w, next)
  /\ UNCHANGED <<brokerVars, api, stored, faults>>

RunningSet(w)   == Set(w, "running", "running.set", "execute")
CompletedSet(w) == Set(w, "completed", "completed.set", "ack")
FailedSet(w)    == Set(w, "failed", "failed.set", "ack")

(* dispatcher.execute returns ...                                          *)
ExecuteReturns(w) ==
  /\ worker[w].pc = "execute"
  /\ stored' = stored \cup {worker[w].task}
  /\ WorkerGoto(w, "completed.get")
  /\ UNCHANGED <<record, brokerVars, api, faults>>

(* Mutants of ExecuteRaises: the exception is swallowed and "completed"    *)
(* reported; the handler is retried at every failure, without a limit.     *)
RaiseSwallowed(w) ==
  /\ worker[w].pc = "execute"
  /\ WorkerGoto(w, "completed.get")
  /\ UNCHANGED <<record, brokerVars, api, stored, faults>>

RaiseRetried(w) ==
  /\ worker[w].pc = "execute"
  /\ WorkerGoto(w, "check")
  /\ UNCHANGED <<record, brokerVars, api, stored, faults>>

(* ... or raises: a DomainError (an unknown task type is one), the soft    *)
(* time limit, any other exception.                                        *)
ExecuteRaises(w) ==
  /\ worker[w].pc = "execute"
  /\ WorkerGoto(w, "failed.get")
  /\ UNCHANGED <<record, brokerVars, api, stored, faults>>

(* A Redis call raises, or the soft time limit interrupts it; the SET may  *)
(* have been applied.  Inside the try the handler goes on to "failed",     *)
(* elsewhere the exception leaves the handler.                             *)
CallRaises(w) ==
  LET pc == worker[w].pc IN
  /\ pc \notin {"idle", "execute", "ack"}
  /\ Strike("error")
  /\ WorkerGoto(w, IF pc \in {"completed.get", "completed.set"} THEN "failed.get" ELSE "ack")
  /\ \/ UNCHANGED record
     \/ pc = "running.set"   /\ Store(worker[w].task, worker[w].copy, "running")
     \/ pc = "completed.set" /\ Store(worker[w].task, worker[w].copy, "completed")
     \/ pc = "failed.set"    /\ Store(worker[w].task, worker[w].copy, "failed")
  /\ UNCHANGED <<brokerVars, api, stored>>

(* The handler returned, or an exception left it: the message is acked.    *)
Ack(w) ==
  /\ worker[w].pc = "ack"
  /\ WorkerGoto(w, "idle")
  /\ UNCHANGED <<record, brokerVars, api, stored, faults>>

-----------------------------------------------------------------------------
(* The broker and the nodes.                                               *)

(* A node handles a control message: it remembers the id, and terminate    *)
(* kills the pool processes that run the task.  SIGTERM unwinds the        *)
(* handler with SystemExit, which no except clause of dispatch_task        *)
(* catches, and Celery acknowledges the terminated message.                *)
HandleControl(c) ==
  /\ c \in ctl
  /\ ctl' = ctl \ {c}
  /\ revoked' = [revoked EXCEPT ![c.node] = @ \cup {c.task}]
  /\ worker' = [w \in Workers |->
                  IF c.terminate /\ NodeOf[w] = c.node /\ Holds(w, c.task)
                  THEN Idle ELSE worker[w]]
  /\ UNCHANGED <<record, ready, api, stored, faults>>

(* Control messages are broadcast without acknowledgement.                 *)
LoseControl(c) ==
  /\ c \in ctl
  /\ ctl' = ctl \ {c}
  /\ UNCHANGED <<record, ready, revoked, api, worker, stored, faults>>

(* Mutant of Crash: messages were acknowledged at delivery.                *)
CrashAckedEarly(n) ==
  /\ Strike("crash")
  /\ worker' = [w \in Workers |-> IF NodeOf[w] = n THEN Idle ELSE worker[w]]
  /\ revoked' = [revoked EXCEPT ![n] = {}]
  /\ ctl' = {c \in ctl : c.node # n}
  /\ UNCHANGED <<record, ready, api, stored>>

(* A node dies and restarts: it forgets the revoked ids, and the broker    *)
(* restores the messages its pool processes had not acknowledged.          *)
Crash(n) ==
  /\ Strike("crash")
  /\ ready' = ready \cup {t \in Tasks : \E w \in Workers : NodeOf[w] = n /\ Holds(w, t)}
  /\ worker' = [w \in Workers |-> IF NodeOf[w] = n THEN Idle ELSE worker[w]]
  /\ revoked' = [revoked EXCEPT ![n] = {}]
  /\ ctl' = {c \in ctl : c.node # n}
  /\ UNCHANGED <<record, api, stored>>

(* The visibility timeout of the broker passes while the handler still     *)
(* runs: the message is delivered once more.                               *)
Redeliver(w) ==
  /\ worker[w].pc # "idle"
  /\ Strike("redeliver")
  /\ ready' = ready \cup {worker[w].task}
  /\ UNCHANGED <<record, revoked, ctl, api, worker, stored>>

(* A pool process is killed (out of memory): its node acknowledges the     *)
(* message, because task_reject_on_worker_lost is not set.                 *)
Kill(w) ==
  /\ worker[w].pc # "idle"
  /\ Strike("kill")
  /\ WorkerGoto(w, "idle")
  /\ UNCHANGED <<record, brokerVars, api, stored>>

(* Seven days after its last SET a record is gone; no request or handler   *)
(* lasts that long.                                                        *)
Expire(t) ==
  /\ status[t] \notin Missing
  /\ api.pc # "idle" => api.task # t
  /\ \A w \in Workers : ~Holds(w, t)
  /\ Strike("expire")
  /\ status' = [status EXCEPT ![t] = LC!Expired]
  /\ UNCHANGED <<held, brokerVars, api, worker, stored>>

-----------------------------------------------------------------------------
ApiStep == Publish \/ Revoke \/ Terminate \/ CancelledGet \/ CancelledSet

WorkerStep(w) ==
  \/ Check(w) \/ RunningGet(w) \/ RunningSet(w)
  \/ ExecuteReturns(w) \/ ExecuteRaises(w)
  \/ CompletedGet(w) \/ CompletedSet(w) \/ FailedGet(w) \/ FailedSet(w)
  \/ Ack(w)

Take == (\E w \in Workers, t \in Tasks : Deliver(w, t))
        \/ (\E n \in Nodes, t \in Tasks : Discard(n, t))

Request == \E t \in Tasks : Create(t) \/ CancelTask(t)

Fault ==
  \/ PublishFails \/ ApiAborts
  \/ \E w \in Workers : CallRaises(w) \/ Redeliver(w) \/ Kill(w)
  \/ \E n \in Nodes : Crash(n)
  \/ \E t \in Tasks : Expire(t)

ControlStep == \E c \in ctl : HandleControl(c) \/ LoseControl(c)

Next ==
  \/ Request \/ ApiStep \/ Take \/ ControlStep \/ Fault
  \/ \E w \in Workers : WorkerStep(w)

Spec == Init /\ [][Next]_vars

(* The event loop finishes a request it began; a node with a free process  *)
(* takes the next message; a pool process goes on (an import ends by its   *)
(* own, by the sandbox timeout or by the soft time limit).  Clients and    *)
(* faults are not fair, and a broadcast may never arrive.                  *)
Fairness ==
  /\ WF_vars(ApiStep)
  /\ WF_vars(Take)
  /\ \A w \in Workers : WF_vars(WorkerStep(w))

FairSpec == Spec /\ Fairness

-----------------------------------------------------------------------------
(* A record says "completed" only if some execution of the task returned,  *)
(* whatever stale copies are written, whichever messages are delivered     *)
(* twice and wherever a handler is interrupted (dispatch_task.py:50-51).   *)
CompletedIsStored ==
  \A t \in Tasks : status[t] = "completed" => t \in stored

(* Cancelled for good: the record says so and no handler is past the guard *)
(* of dispatch_task; once the record is gone, a late message finds none.   *)
CalledOff(t) ==
  \/ /\ status[t] = "cancelled"
     /\ \A w \in Workers : Holds(w, t) => worker[w].pc \in {"check", "ack"}
  \/ /\ status[t] = LC!Expired
     /\ \A w \in Workers : Holds(w, t) => worker[w].pc \in {"check", "running.get", "ack"}

(* A task called off stays called off, so no later delivery of its message *)
(* executes it (dispatch_task.py:41-46): also when the revoke broadcast is *)
(* lost, the revoking node restarts or the record expires.                 *)
CancelHolds == [][\A t \in Tasks : CalledOff(t) => CalledOff(t)']_vars

(* A final record, and no update under way that read it before it was.     *)
Settled(t) ==
  LET Unfinal == {"queued", "running"} IN
  /\ status[t] \in Terminal \cup {LC!Expired}
  /\ api.task = t => api.copy \notin Unfinal
  /\ \A w \in Workers : worker[w].task = t => worker[w].copy \notin Unfinal

(* A settled task stays settled and keeps its status until it expires: the *)
(* updates that follow, of redelivered messages, late cancels and handlers *)
(* whose calls fail, read the final status and leave it alone              *)
(* (redis_repository.py:91-108).  What overwrites a final status is        *)
(* therefore an update that was under way when it was written.             *)
SettledStays ==
  [][\A t \in Tasks :
       Settled(t) => Settled(t)' /\ status'[t] \in {status[t], LC!Expired}]_vars

(* A task nobody cancels is not lost: as long as no pool process is killed *)
(* and no call raises, a record that is not final has a message in the     *)
(* broker or a handler at work (task_acks_late, celery_app.py:25), however *)
(* often nodes crash and messages are redelivered.                         *)
NothingLost ==
  faults["kill"] = 0 /\ faults["error"] = 0 =>
    \A t \in Tasks \ Cancellable :
      status[t] \in {"queued", "running"} =>
        \/ api.pc = "publish" /\ api.task = t
        \/ t \in ready
        \/ \E w \in Workers : Holds(w, t) /\ worker[w].pc # "ack"

(* While no message is redelivered under a running handler and no call     *)
(* raises, the record of a task nobody cancels has one writer at a time:   *)
(* its final status is not overwritten, even by GET-then-SET updates and   *)
(* across node crashes (redis_repository.py:82-118).                       *)
FinalUnlessRaced ==
  [][\A t \in Tasks \ Cancellable :
       /\ status[t] \in Terminal
       /\ faults'["redeliver"] = 0 /\ faults'["error"] = 0
       => status'[t] \in {status[t], LC!Expired}]_vars

(* Whatever races and faults, a record goes through what is left of the    *)
(* life cycle when an edge is checked on the copy that was read: an update *)
(* finds the record there, and starts at a status the record has had, so   *)
(* it is never "queued" again, never back after it expired, and never      *)
(* completed or failed without having run (redis_repository.py:82-118).    *)
Lifecycle == LC!Spec

(* A task accepted by the API and cancelled by nobody reaches a final      *)
(* status, across node crashes and redeliveries (under FairSpec).          *)
Settles ==
  \A t \in Tasks \ Cancellable : status[t] = "queued" ~> status[t] \in Terminal

(* The docstring of RedisAsyncTaskRepository: updates are atomic, so       *)
(* concurrent workers cannot corrupt the state machine and a final status  *)
(* is final.                                                               *)
TerminalFrozen ==
  [][\A t \in Tasks : status[t] \in Terminal => status'[t] \in {status[t], LC!Expired}]_vars

(* "the task will transition to failed via the worker", says cancel() of a *)
(* running task (service.py:66): once a node knows a running task revoked, *)
(* the record does not stay "running".                                     *)
TerminatedEnds ==
  \A t \in Tasks, n \in Nodes :
    status[t] = "running" /\ t \in revoked[n] ~> status[t] # "running"
=============================================================================
