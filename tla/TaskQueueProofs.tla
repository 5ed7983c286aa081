-------------------------- MODULE TaskQueueProofs --------------------------
(***************************************************************************)
(* Theorems about TaskQueue, for any sets of tasks, nodes and pool         *)
(* processes and any budget of faults.                                     *)
(***************************************************************************)
EXTENDS TaskQueue, TLAPS

(* The state predicates the records are typed with.                        *)
LEMMA Statuses ==
  /\ LC!Statuses = {"absent", "expired", "queued", "running", "completed", "failed", "cancelled"}
  /\ Missing = {"absent", "expired"}
  /\ Terminal = {"completed", "failed", "cancelled"}
  /\ LC!Absent = "absent" /\ LC!Expired = "expired"
  /\ LC!Written = {"queued", "running", "completed", "failed", "cancelled"}
BY DEF LC!Statuses, LC!Written, Missing, LC!Missing, Terminal, LC!Terminal, LC!Absent, LC!Expired

LEMMA Edges ==
  \A s, u : <<s, u>> \in LC!Transitions <=>
              \/ s = "queued"  /\ u \in {"running", "cancelled"}
              \/ s = "running" /\ u \in {"completed", "failed"}
BY DEF LC!Transitions

LEMMA TypeInit == Init => TypeOK
BY ConstantsOK, Statuses
   DEF Init, TypeOK, LC!TypeOK, Process, Idle, ApiSteps, WorkerSteps, FaultKinds, Control

LEMMA BroadcastType ==
  ASSUME ctl \subseteq Control, NEW t \in Tasks, NEW b \in BOOLEAN, Broadcast(t, b)
  PROVE  ctl' \subseteq Control
<1> SUFFICES ASSUME NEW c \in ctl', c \notin ctl PROVE c \in Control
  OBVIOUS
<1>1. PICK n \in Nodes : c = [node |-> n, task |-> t, terminate |-> b]
  BY DEF Broadcast
<1> QED
  BY <1>1 DEF Control

LEMMA GetType ==
  ASSUME TypeOK, NEW w \in Workers, NEW get \in WorkerSteps \ {"idle"},
         NEW set \in WorkerSteps, NEW onMissing \in WorkerSteps,
         Get(w, get, set, onMissing)
  PROVE  TypeOK'
<1>1. /\ UNCHANGED <<status, held, ready, revoked, ctl, api, stored, faults>>
      /\ worker[w].pc = get
      /\ \/ WorkerGoto(w, onMissing)
         \/ worker' = [worker EXCEPT ![w] = [pc |-> set, task |-> @.task,
                                             copy |-> status[worker[w].task]]]
  BY DEF Get, record, brokerVars
<1>2. LC!TypeOK'
  BY <1>1 DEF TypeOK, LC!TypeOK
<1>3. worker[w] \in Process(WorkerSteps) /\ worker[w].task \in Tasks
  BY <1>1 DEF TypeOK
<1>4. \A s \in WorkerSteps : At(s, worker[w].task) \in Process(WorkerSteps)
  BY <1>3, Statuses DEF At, Idle, Process, WorkerSteps
<1>5. worker' \in [Workers -> Process(WorkerSteps)]
  <2>1. CASE WorkerGoto(w, onMissing)
    BY <1>4, <2>1 DEF WorkerGoto, TypeOK
  <2>2. CASE worker' = [worker EXCEPT ![w] = [pc |-> set, task |-> @.task,
                                              copy |-> status[worker[w].task]]]
    BY <1>3, <2>2, Zenon DEF TypeOK, LC!TypeOK, Process
  <2> QED
    BY <1>1, <2>1, <2>2
<1>6. \A v \in Workers : worker'[v].pc # "idle" => worker'[v].task \in Tasks
  BY <1>1, <1>3 DEF TypeOK, WorkerGoto, At, Idle
<1> QED
  BY <1>1, <1>2, <1>5, <1>6 DEF TypeOK

(* Whatever the copy, an update leaves a well-typed record.                *)
LEMMA StoreType ==
  ASSUME LC!TypeOK, NEW t \in Tasks, NEW copy, NEW s \in LC!Written, Store(t, copy, s)
  PROVE  LC!TypeOK'
BY Statuses DEF LC!TypeOK, Store, Record, record

LEMMA SetType ==
  ASSUME TypeOK, NEW w \in Workers, NEW s \in LC!Written,
         NEW set \in WorkerSteps \ {"idle"}, NEW next \in WorkerSteps,
         Set(w, s, set, next)
  PROVE  TypeOK'
<1>1. /\ UNCHANGED <<ready, revoked, ctl, api, stored, faults>>
      /\ worker[w].pc = set /\ WorkerGoto(w, next)
  BY DEF Set, brokerVars
<1>2. worker[w].task \in Tasks
  BY <1>1 DEF TypeOK
<1>3. LC!TypeOK'
  BY <1>2, StoreType DEF TypeOK, Set
<1> QED
  BY <1>1, <1>3, Statuses DEF TypeOK, WorkerGoto, At, Idle, Process, WorkerSteps

LEMMA TypeStep == TypeOK /\ [Next]_vars => TypeOK'
<1> SUFFICES ASSUME TypeOK, [Next]_vars PROVE TypeOK'
  OBVIOUS
<1> USE Statuses, ConstantsOK DEF TypeOK, LC!TypeOK, Process, Idle, At, ApiGoto, WorkerGoto,
        ApiSteps, WorkerSteps, FaultKinds, Control, brokerVars, record, Record
<1>1. ASSUME NEW t \in Tasks, Create(t) PROVE TypeOK'
  BY <1>1 DEF Create
<1>2. ASSUME NEW t \in Tasks, CancelTask(t) PROVE TypeOK'
  BY <1>2 DEF CancelTask
<1>3. CASE Publish
  BY <1>3 DEF Publish
<1>4. CASE Revoke
  <2>1. ctl' \subseteq Control
    BY <1>4, BroadcastType DEF Revoke
  <2> QED
    BY <1>4, <2>1 DEF Revoke
<1>5. CASE Terminate
  <2>1. ctl' \subseteq Control
    BY <1>5, BroadcastType DEF Terminate
  <2> QED
    BY <1>5, <2>1 DEF Terminate
<1>6. CASE CancelledGet
  BY <1>6 DEF CancelledGet
<1>7. CASE CancelledSet
  BY <1>7 DEF CancelledSet, Store
<1>8. ASSUME NEW w \in Workers, NEW t \in Tasks, Deliver(w, t) PROVE TypeOK'
  BY <1>8 DEF Deliver
<1>9. ASSUME NEW n \in Nodes, NEW t \in Tasks, Discard(n, t) PROVE TypeOK'
  BY <1>9 DEF Discard
<1>10. ASSUME NEW c \in ctl, HandleControl(c) PROVE TypeOK'
  BY <1>10 DEF HandleControl, Holds
<1>11. ASSUME NEW c \in ctl, LoseControl(c) PROVE TypeOK'
  BY <1>11 DEF LoseControl
<1>12. CASE PublishFails
  BY <1>12 DEF PublishFails, Strike
<1>13. CASE ApiAborts
  <2>1. LC!TypeOK'
    <3>1. CASE UNCHANGED record
      BY <3>1
    <3>2. CASE Store(api.task, api.copy, "cancelled")
      BY <1>13, <3>2, StoreType DEF ApiAborts
    <3> QED
      BY <1>13, <3>1, <3>2 DEF ApiAborts
  <2> QED
    BY <1>13, <2>1 DEF ApiAborts, Strike
<1>14. ASSUME NEW w \in Workers, CallRaises(w) PROVE TypeOK'
  BY <1>14 DEF CallRaises, Strike, Store
<1>15. ASSUME NEW w \in Workers, Redeliver(w) PROVE TypeOK'
  BY <1>15 DEF Redeliver, Strike
<1>16. ASSUME NEW w \in Workers, Kill(w) PROVE TypeOK'
  BY <1>16 DEF Kill, Strike
<1>17. ASSUME NEW n \in Nodes, Crash(n) PROVE TypeOK'
  BY <1>17 DEF Crash, Strike
<1>18. ASSUME NEW t \in Tasks, Expire(t) PROVE TypeOK'
  BY <1>18 DEF Expire, Strike
<1>19. ASSUME NEW w \in Workers, Check(w) PROVE TypeOK'
  BY <1>19 DEF Check
<1>20. ASSUME NEW w \in Workers, RunningGet(w) \/ CompletedGet(w) \/ FailedGet(w) PROVE TypeOK'
  BY <1>20, GetType DEF RunningGet, CompletedGet, FailedGet
<1>21. ASSUME NEW w \in Workers, RunningSet(w) \/ CompletedSet(w) \/ FailedSet(w) PROVE TypeOK'
  BY <1>21, SetType DEF RunningSet, CompletedSet, FailedSet
<1>22. ASSUME NEW w \in Workers, ExecuteReturns(w) \/ ExecuteRaises(w) PROVE TypeOK'
  <2>1. CASE ExecuteReturns(w)
    BY <2>1 DEF ExecuteReturns
  <2>2. CASE ExecuteRaises(w)
    BY <2>2 DEF ExecuteRaises
  <2> QED
    BY <1>22, <2>1, <2>2
<1>23. ASSUME NEW w \in Workers, Ack(w) PROVE TypeOK'
  BY <1>23 DEF Ack
<1>24. CASE UNCHANGED vars
  BY <1>24 DEF vars
<1> QED
  BY <1>1, <1>2, <1>3, <1>4, <1>5, <1>6, <1>7, <1>8, <1>9, <1>10, <1>11, <1>12, <1>13,
     <1>14, <1>15, <1>16, <1>17, <1>18, <1>19, <1>20, <1>21, <1>22, <1>23, <1>24
  DEF Next, Request, ApiStep, Take, ControlStep, Fault, WorkerStep

(* Every reachable state is well typed, and a process that is not idle     *)
(* works on a task.                                                        *)
THEOREM TypeCorrect == Spec => []TypeOK
BY TypeInit, TypeStep, PTL DEF Spec

-----------------------------------------------------------------------------
(* CompletedIsStored is inductive together with this: a handler that is    *)
(* about to write "completed" has an execution behind it.                  *)
StoredInv ==
  /\ CompletedIsStored
  /\ \A w \in Workers :
       worker[w].pc \in {"completed.get", "completed.set"} => worker[w].task \in stored

LEMMA StoredStep == TypeOK /\ StoredInv /\ [Next]_vars => StoredInv'
<1> SUFFICES ASSUME TypeOK, StoredInv, [Next]_vars PROVE StoredInv'
  OBVIOUS
<1> USE Statuses, ConstantsOK DEF TypeOK, LC!TypeOK, Process, Idle, At, ApiGoto, WorkerGoto,
                                  brokerVars, record, Record,
        StoredInv, CompletedIsStored
<1>1. ASSUME NEW t \in Tasks, Create(t) PROVE StoredInv'
  BY <1>1 DEF Create
<1>2. ASSUME NEW t \in Tasks, CancelTask(t) PROVE StoredInv'
  BY <1>2 DEF CancelTask
<1>3. CASE Publish
  BY <1>3 DEF Publish
<1>4. CASE Revoke
  BY <1>4 DEF Revoke, Broadcast
<1>5. CASE Terminate
  BY <1>5 DEF Terminate, Broadcast
<1>6. CASE CancelledGet
  BY <1>6 DEF CancelledGet
<1>7. CASE CancelledSet
  BY <1>7 DEF CancelledSet, Store
<1>8. ASSUME NEW w \in Workers, NEW t \in Tasks, Deliver(w, t) PROVE StoredInv'
  BY <1>8 DEF Deliver
<1>9. ASSUME NEW n \in Nodes, NEW t \in Tasks, Discard(n, t) PROVE StoredInv'
  BY <1>9 DEF Discard
<1>10. ASSUME NEW c \in ctl, HandleControl(c) PROVE StoredInv'
  BY <1>10 DEF HandleControl, Holds
<1>11. ASSUME NEW c \in ctl, LoseControl(c) PROVE StoredInv'
  BY <1>11 DEF LoseControl
<1>12. CASE PublishFails
  BY <1>12 DEF PublishFails, Strike
<1>13. CASE ApiAborts
  BY <1>13 DEF ApiAborts, Strike, Store
<1>14. ASSUME NEW w \in Workers, CallRaises(w) PROVE StoredInv'
  BY <1>14 DEF CallRaises, Strike, Store
<1>15. ASSUME NEW w \in Workers, Redeliver(w) PROVE StoredInv'
  BY <1>15 DEF Redeliver, Strike
<1>16. ASSUME NEW w \in Workers, Kill(w) PROVE StoredInv'
  BY <1>16 DEF Kill, Strike
<1>17. ASSUME NEW n \in Nodes, Crash(n) PROVE StoredInv'
  BY <1>17 DEF Crash, Strike
<1>18. ASSUME NEW t \in Tasks, Expire(t) PROVE StoredInv'
  BY <1>18 DEF Expire, Strike
<1>19. ASSUME NEW w \in Workers, Check(w) PROVE StoredInv'
  BY <1>19 DEF Check
<1>20. ASSUME NEW w \in Workers, RunningGet(w) PROVE StoredInv'
  BY <1>20 DEF RunningGet, Get
<1>21. ASSUME NEW w \in Workers, CompletedGet(w) PROVE StoredInv'
  BY <1>21 DEF CompletedGet, Get
<1>22. ASSUME NEW w \in Workers, FailedGet(w) PROVE StoredInv'
  BY <1>22 DEF FailedGet, Get
<1>23. ASSUME NEW w \in Workers, RunningSet(w) PROVE StoredInv'
  BY <1>23 DEF RunningSet, Set, Store
<1>24. ASSUME NEW w \in Workers, CompletedSet(w) PROVE StoredInv'
  BY <1>24 DEF CompletedSet, Set, Store
<1>25. ASSUME NEW w \in Workers, FailedSet(w) PROVE StoredInv'
  BY <1>25 DEF FailedSet, Set, Store
<1>26. ASSUME NEW w \in Workers, ExecuteReturns(w) PROVE StoredInv'
  BY <1>26 DEF ExecuteReturns
<1>27. ASSUME NEW w \in Workers, ExecuteRaises(w) PROVE StoredInv'
  BY <1>27 DEF ExecuteRaises
<1>28. ASSUME NEW w \in Workers, Ack(w) PROVE StoredInv'
  BY <1>28 DEF Ack
<1>29. CASE UNCHANGED vars
  BY <1>29 DEF vars
<1> QED
  BY <1>1, <1>2, <1>3, <1>4, <1>5, <1>6, <1>7, <1>8, <1>9, <1>10, <1>11, <1>12, <1>13, <1>14,
     <1>15, <1>16, <1>17, <1>18, <1>19, <1>20, <1>21, <1>22, <1>23, <1>24, <1>25, <1>26,
     <1>27, <1>28, <1>29
  DEF Next, Request, ApiStep, Take, ControlStep, Fault, WorkerStep

(* A record that says "completed" has a completed execution behind it.     *)
THEOREM CompletedStored == Spec => []CompletedIsStored
<1>1. Init => StoredInv
  BY Statuses DEF Init, StoredInv, CompletedIsStored, Idle
<1>2. StoredInv => CompletedIsStored
  BY DEF StoredInv
<1> QED
  BY <1>1, <1>2, StoredStep, TypeCorrect, PTL DEF Spec

-----------------------------------------------------------------------------
(* The request at work is about a record that exists.                      *)
ApiInv == api.pc # "idle" => status[api.task] \notin Missing

LEMMA ApiStepInv == TypeOK /\ ApiInv /\ [Next]_vars => ApiInv'
<1> SUFFICES ASSUME TypeOK, ApiInv, [Next]_vars PROVE ApiInv'
  OBVIOUS
<1> USE Statuses, Edges DEF TypeOK, LC!TypeOK, Process, Idle, At, ApiGoto, WorkerGoto,
                            brokerVars, record, Record, ApiInv
<1>1. ASSUME NEW t \in Tasks, Create(t) PROVE ApiInv'
  BY <1>1 DEF Create
<1>2. ASSUME NEW t \in Tasks, CancelTask(t) PROVE ApiInv'
  BY <1>2 DEF CancelTask
<1>3. CASE Publish
  BY <1>3 DEF Publish
<1>4. CASE Revoke
  BY <1>4 DEF Revoke, Broadcast
<1>5. CASE Terminate
  BY <1>5 DEF Terminate, Broadcast
<1>6. CASE CancelledGet
  BY <1>6 DEF CancelledGet
<1>7. CASE CancelledSet
  BY <1>7 DEF CancelledSet, Store
<1>8. ASSUME NEW w \in Workers, NEW t \in Tasks, Deliver(w, t) PROVE ApiInv'
  BY <1>8 DEF Deliver
<1>9. ASSUME NEW n \in Nodes, NEW t \in Tasks, Discard(n, t) PROVE ApiInv'
  BY <1>9 DEF Discard
<1>10. ASSUME NEW c \in ctl, HandleControl(c) PROVE ApiInv'
  BY <1>10 DEF HandleControl, Holds
<1>11. ASSUME NEW c \in ctl, LoseControl(c) PROVE ApiInv'
  BY <1>11 DEF LoseControl
<1>12. CASE PublishFails
  BY <1>12 DEF PublishFails, Strike
<1>13. CASE ApiAborts
  BY <1>13 DEF ApiAborts, Strike, Store
<1>14. ASSUME NEW w \in Workers, CallRaises(w) PROVE ApiInv'
  BY <1>14 DEF CallRaises, Strike, Store
<1>15. ASSUME NEW w \in Workers, Redeliver(w) PROVE ApiInv'
  BY <1>15 DEF Redeliver, Strike
<1>16. ASSUME NEW w \in Workers, Kill(w) PROVE ApiInv'
  BY <1>16 DEF Kill, Strike
<1>17. ASSUME NEW n \in Nodes, Crash(n) PROVE ApiInv'
  BY <1>17 DEF Crash, Strike
<1>18. ASSUME NEW t \in Tasks, Expire(t) PROVE ApiInv'
  BY <1>18 DEF Expire, Strike
<1>19. ASSUME NEW w \in Workers, Check(w) PROVE ApiInv'
  BY <1>19 DEF Check
<1>20. ASSUME NEW w \in Workers, RunningGet(w) PROVE ApiInv'
  BY <1>20 DEF RunningGet, Get
<1>21. ASSUME NEW w \in Workers, CompletedGet(w) PROVE ApiInv'
  BY <1>21 DEF CompletedGet, Get
<1>22. ASSUME NEW w \in Workers, FailedGet(w) PROVE ApiInv'
  BY <1>22 DEF FailedGet, Get
<1>23. ASSUME NEW w \in Workers, RunningSet(w) PROVE ApiInv'
  BY <1>23 DEF RunningSet, Set, Store
<1>24. ASSUME NEW w \in Workers, CompletedSet(w) PROVE ApiInv'
  BY <1>24 DEF CompletedSet, Set, Store
<1>25. ASSUME NEW w \in Workers, FailedSet(w) PROVE ApiInv'
  BY <1>25 DEF FailedSet, Set, Store
<1>26. ASSUME NEW w \in Workers, ExecuteReturns(w) PROVE ApiInv'
  BY <1>26 DEF ExecuteReturns
<1>27. ASSUME NEW w \in Workers, ExecuteRaises(w) PROVE ApiInv'
  BY <1>27 DEF ExecuteRaises
<1>28. ASSUME NEW w \in Workers, Ack(w) PROVE ApiInv'
  BY <1>28 DEF Ack
<1>29. CASE UNCHANGED vars
  BY <1>29 DEF vars
<1> QED
  BY <1>1, <1>2, <1>3, <1>4, <1>5, <1>6, <1>7, <1>8, <1>9, <1>10, <1>11, <1>12, <1>13, <1>14,
     <1>15, <1>16, <1>17, <1>18, <1>19, <1>20, <1>21, <1>22, <1>23, <1>24, <1>25, <1>26,
     <1>27, <1>28, <1>29
  DEF Next, Request, ApiStep, Take, ControlStep, Fault, WorkerStep

LEMMA CalledOffSet ==
  ASSUME TypeOK, NEW o \in Tasks, CalledOff(o), NEW w \in Workers, NEW s, NEW next,
         NEW set \in {"running.set", "completed.set", "failed.set"}, Set(w, s, set, next)
  PROVE  CalledOff(o)'
<1> USE DEF TypeOK, LC!TypeOK, Process, Idle, At, WorkerGoto, Set, Holds
<1>1. worker[w].task # o
  BY DEF CalledOff
<1>2. status'[o] = status[o]
  BY <1>1 DEF Store, Record, record
<1>3. \A v \in Workers : Holds(v, o)' => Holds(v, o) /\ worker'[v] = worker[v]
  BY <1>1
<1> QED
  BY <1>2, <1>3 DEF CalledOff

LEMMA CalledOffGet ==
  ASSUME TypeOK, NEW o \in Tasks, CalledOff(o), NEW w \in Workers, NEW set, NEW skip,
         NEW get \in {"completed.get", "failed.get"}, Get(w, get, set, skip)
  PROVE  CalledOff(o)'
<1> USE DEF TypeOK, LC!TypeOK, Process, Idle, At, WorkerGoto, Get, Holds
<1>1. worker[w].pc = get /\ worker[w].task # o
  BY DEF CalledOff
<1>2. status'[o] = status[o]
  BY DEF record
<1>3. \A v \in Workers : Holds(v, o)' => Holds(v, o) /\ worker'[v] = worker[v]
  BY <1>1
<1> QED
  BY <1>2, <1>3 DEF CalledOff

LEMMA CalledOffUpdate ==
  ASSUME TypeOK, NEW o \in Tasks, CalledOff(o), NEW w \in Workers,
         \/ RunningSet(w) \/ CompletedSet(w) \/ FailedSet(w)
         \/ CompletedGet(w) \/ FailedGet(w)
  PROVE  CalledOff(o)'
<1>1. CASE RunningSet(w)
  <2>1. Set(w, "running", "running.set", "execute")
    BY <1>1 DEF RunningSet
  <2> QED BY <2>1, CalledOffSet
<1>2. CASE CompletedSet(w)
  <2>1. Set(w, "completed", "completed.set", "ack")
    BY <1>2 DEF CompletedSet
  <2> QED BY <2>1, CalledOffSet
<1>3. CASE FailedSet(w)
  <2>1. Set(w, "failed", "failed.set", "ack")
    BY <1>3 DEF FailedSet
  <2> QED BY <2>1, CalledOffSet
<1>4. CASE CompletedGet(w)
  <2>1. Get(w, "completed.get", "completed.set", "failed.get")
    BY <1>4 DEF CompletedGet
  <2> QED BY <2>1, CalledOffGet
<1>5. CASE FailedGet(w)
  <2>1. Get(w, "failed.get", "failed.set", "ack")
    BY <1>5 DEF FailedGet
  <2> QED BY <2>1, CalledOffGet
<1> QED BY <1>1, <1>2, <1>3, <1>4, <1>5

LEMMA CalledOffStep ==
  ASSUME TypeOK, ApiInv, [Next]_vars, NEW o \in Tasks, CalledOff(o)
  PROVE  CalledOff(o)'
<1> USE Statuses, Edges DEF TypeOK, LC!TypeOK, Process, Idle, At, ApiGoto, WorkerGoto,
                            brokerVars, record, Record, ApiInv,
        CalledOff, Holds
<1>1. ASSUME NEW t \in Tasks, Create(t) PROVE CalledOff(o)'
  BY <1>1 DEF Create
<1>2. ASSUME NEW t \in Tasks, CancelTask(t) PROVE CalledOff(o)'
  BY <1>2 DEF CancelTask
<1>3. CASE Publish
  BY <1>3 DEF Publish
<1>4. CASE Revoke
  BY <1>4 DEF Revoke, Broadcast
<1>5. CASE Terminate
  BY <1>5 DEF Terminate, Broadcast
<1>6. CASE CancelledGet
  BY <1>6 DEF CancelledGet
<1>7. CASE CancelledSet
  BY <1>7 DEF CancelledSet, Store
<1>8. ASSUME NEW w \in Workers, NEW t \in Tasks, Deliver(w, t) PROVE CalledOff(o)'
  BY <1>8 DEF Deliver
<1>9. ASSUME NEW n \in Nodes, NEW t \in Tasks, Discard(n, t) PROVE CalledOff(o)'
  BY <1>9 DEF Discard
<1>10. ASSUME NEW c \in ctl, HandleControl(c) PROVE CalledOff(o)'
  BY <1>10 DEF HandleControl, Holds
<1>11. ASSUME NEW c \in ctl, LoseControl(c) PROVE CalledOff(o)'
  BY <1>11 DEF LoseControl
<1>12. CASE PublishFails
  BY <1>12 DEF PublishFails, Strike
<1>13. CASE ApiAborts
  BY <1>13 DEF ApiAborts, Strike, Store
<1>14. ASSUME NEW w \in Workers, CallRaises(w) PROVE CalledOff(o)'
  BY <1>14 DEF CallRaises, Strike, Store
<1>15. ASSUME NEW w \in Workers, Redeliver(w) PROVE CalledOff(o)'
  BY <1>15 DEF Redeliver, Strike
<1>16. ASSUME NEW w \in Workers, Kill(w) PROVE CalledOff(o)'
  BY <1>16 DEF Kill, Strike
<1>17. ASSUME NEW n \in Nodes, Crash(n) PROVE CalledOff(o)'
  BY <1>17 DEF Crash, Strike
<1>18. ASSUME NEW t \in Tasks, Expire(t) PROVE CalledOff(o)'
  BY <1>18 DEF Expire, Strike
<1>19. ASSUME NEW w \in Workers, Check(w) PROVE CalledOff(o)'
  BY <1>19 DEF Check
<1>20. ASSUME NEW w \in Workers, RunningGet(w) PROVE CalledOff(o)'
  BY <1>20 DEF RunningGet, Get
<1>21. ASSUME NEW w \in Workers, CompletedGet(w) PROVE CalledOff(o)'
  <2> HIDE DEF CalledOff, CompletedGet
  <2> QED BY <1>21, CalledOffUpdate
<1>22. ASSUME NEW w \in Workers, FailedGet(w) PROVE CalledOff(o)'
  <2> HIDE DEF CalledOff, FailedGet
  <2> QED BY <1>22, CalledOffUpdate
<1>23. ASSUME NEW w \in Workers, RunningSet(w) PROVE CalledOff(o)'
  <2> HIDE DEF CalledOff, RunningSet
  <2> QED BY <1>23, CalledOffUpdate
<1>24. ASSUME NEW w \in Workers, CompletedSet(w) PROVE CalledOff(o)'
  <2> HIDE DEF CalledOff, CompletedSet
  <2> QED BY <1>24, CalledOffUpdate
<1>25. ASSUME NEW w \in Workers, FailedSet(w) PROVE CalledOff(o)'
  <2> HIDE DEF CalledOff, FailedSet
  <2> QED BY <1>25, CalledOffUpdate
<1>26. ASSUME NEW w \in Workers, ExecuteReturns(w) PROVE CalledOff(o)'
  BY <1>26 DEF ExecuteReturns
<1>27. ASSUME NEW w \in Workers, ExecuteRaises(w) PROVE CalledOff(o)'
  BY <1>27 DEF ExecuteRaises
<1>28. ASSUME NEW w \in Workers, Ack(w) PROVE CalledOff(o)'
  BY <1>28 DEF Ack
<1>29. CASE UNCHANGED vars
  BY <1>29 DEF vars
<1> QED
  BY <1>1, <1>2, <1>3, <1>4, <1>5, <1>6, <1>7, <1>8, <1>9, <1>10, <1>11, <1>12, <1>13, <1>14,
     <1>15, <1>16, <1>17, <1>18, <1>19, <1>20, <1>21, <1>22, <1>23, <1>24, <1>25, <1>26,
     <1>27, <1>28, <1>29
  DEF Next, Request, ApiStep, Take, ControlStep, Fault, WorkerStep

(* Once a task is cancelled and no handler is past the guard of            *)
(* dispatch_task, no delivery of its message ever executes it.             *)
THEOREM CancelIsKept == Spec => CancelHolds
<1>1. Init => ApiInv
  BY DEF Init, ApiInv, Idle
<1>2. TypeOK /\ ApiInv /\ [Next]_vars
        => [\A t \in Tasks : CalledOff(t) => CalledOff(t)']_vars
  BY CalledOffStep
<1> QED
  BY <1>1, <1>2, ApiStepInv, TypeCorrect, PTL DEF Spec, CancelHolds

-----------------------------------------------------------------------------
(* What SettledStays asks of one step and one task.                        *)
SettledKept(o) == Settled(o)' /\ status'[o] \in {status[o], LC!Expired}

LEMMA SettledGet ==
  ASSUME TypeOK, NEW o \in Tasks, Settled(o), NEW w \in Workers,
         NEW get, NEW set, NEW skip, Get(w, get, set, skip)
  PROVE  SettledKept(o)
<1> USE Statuses DEF TypeOK, LC!TypeOK, Process, Idle, At, WorkerGoto, Get
<1>1. status' = status /\ api' = api
  BY DEF record
<1>2. worker'[w].task = o => worker'[w].copy \notin {"queued", "running"}
  BY DEF Settled
<1>3. \A v \in Workers : v # w => worker'[v] = worker[v]
  OBVIOUS
<1> QED
  BY <1>1, <1>2, <1>3 DEF Settled, SettledKept

LEMMA SettledSet ==
  ASSUME TypeOK, NEW o \in Tasks, Settled(o), NEW w \in Workers, NEW s,
         NEW set, NEW next, set # "idle", Set(w, s, set, next)
  PROVE  SettledKept(o)
<1> USE Statuses, Edges DEF TypeOK, LC!TypeOK, Process, Idle, At, WorkerGoto, Set
<1>1. status'[o] = status[o] /\ api' = api
  BY DEF Store, Record, record, Settled
<1>2. worker'[w].copy = "absent"
  OBVIOUS
<1>3. \A v \in Workers : v # w => worker'[v] = worker[v]
  OBVIOUS
<1> QED
  BY <1>1, <1>2, <1>3 DEF Settled, SettledKept

LEMMA SettledUpdate ==
  ASSUME TypeOK, NEW o \in Tasks, Settled(o), NEW w \in Workers,
         \/ RunningSet(w) \/ CompletedSet(w) \/ FailedSet(w)
         \/ RunningGet(w) \/ CompletedGet(w) \/ FailedGet(w)
  PROVE  SettledKept(o)
<1>1. CASE RunningSet(w)
  <2>1. Set(w, "running", "running.set", "execute")
    BY <1>1 DEF RunningSet
  <2> QED BY <2>1, SettledSet
<1>2. CASE CompletedSet(w)
  <2>1. Set(w, "completed", "completed.set", "ack")
    BY <1>2 DEF CompletedSet
  <2> QED BY <2>1, SettledSet
<1>3. CASE FailedSet(w)
  <2>1. Set(w, "failed", "failed.set", "ack")
    BY <1>3 DEF FailedSet
  <2> QED BY <2>1, SettledSet
<1>4. CASE RunningGet(w)
  <2>1. Get(w, "running.get", "running.set", "ack")
    BY <1>4 DEF RunningGet
  <2> QED BY <2>1, SettledGet
<1>5. CASE CompletedGet(w)
  <2>1. Get(w, "completed.get", "completed.set", "failed.get")
    BY <1>5 DEF CompletedGet
  <2> QED BY <2>1, SettledGet
<1>6. CASE FailedGet(w)
  <2>1. Get(w, "failed.get", "failed.set", "ack")
    BY <1>6 DEF FailedGet
  <2> QED BY <2>1, SettledGet
<1> QED BY <1>1, <1>2, <1>3, <1>4, <1>5, <1>6

LEMMA SettledStep ==
  ASSUME TypeOK, [Next]_vars, NEW o \in Tasks, Settled(o)
  PROVE  SettledKept(o)
<1> USE Statuses, Edges DEF TypeOK, LC!TypeOK, Process, Idle, At, ApiGoto, WorkerGoto,
                            brokerVars, record, Record, Settled, SettledKept
<1>1. ASSUME NEW t \in Tasks, Create(t) PROVE SettledKept(o)
  BY <1>1 DEF Create
<1>2. ASSUME NEW t \in Tasks, CancelTask(t) PROVE SettledKept(o)
  BY <1>2 DEF CancelTask
<1>3. CASE Publish
  BY <1>3 DEF Publish
<1>4. CASE Revoke
  BY <1>4 DEF Revoke, Broadcast
<1>5. CASE Terminate
  BY <1>5 DEF Terminate, Broadcast
<1>6. CASE CancelledGet
  BY <1>6 DEF CancelledGet
<1>7. CASE CancelledSet
  BY <1>7 DEF CancelledSet, Store
<1>8. ASSUME NEW w \in Workers, NEW t \in Tasks, Deliver(w, t) PROVE SettledKept(o)
  BY <1>8 DEF Deliver
<1>9. ASSUME NEW n \in Nodes, NEW t \in Tasks, Discard(n, t) PROVE SettledKept(o)
  BY <1>9 DEF Discard
<1>10. ASSUME NEW c \in ctl, HandleControl(c) PROVE SettledKept(o)
  BY <1>10 DEF HandleControl, Holds
<1>11. ASSUME NEW c \in ctl, LoseControl(c) PROVE SettledKept(o)
  BY <1>11 DEF LoseControl
<1>12. CASE PublishFails
  BY <1>12 DEF PublishFails, Strike
<1>13. CASE ApiAborts
  BY <1>13 DEF ApiAborts, Strike, Store
<1>14. ASSUME NEW w \in Workers, CallRaises(w) PROVE SettledKept(o)
  BY <1>14 DEF CallRaises, Strike, Store
<1>15. ASSUME NEW w \in Workers, Redeliver(w) PROVE SettledKept(o)
  BY <1>15 DEF Redeliver, Strike
<1>16. ASSUME NEW w \in Workers, Kill(w) PROVE SettledKept(o)
  BY <1>16 DEF Kill, Strike
<1>17. ASSUME NEW n \in Nodes, Crash(n) PROVE SettledKept(o)
  BY <1>17 DEF Crash, Strike
<1>18. ASSUME NEW t \in Tasks, Expire(t) PROVE SettledKept(o)
  BY <1>18 DEF Expire, Strike
<1>19. ASSUME NEW w \in Workers, Check(w) PROVE SettledKept(o)
  BY <1>19 DEF Check
<1>20. ASSUME NEW w \in Workers, RunningGet(w) PROVE SettledKept(o)
  <2> HIDE DEF Settled, SettledKept, RunningGet
  <2> QED BY <1>20, SettledUpdate
<1>21. ASSUME NEW w \in Workers, CompletedGet(w) PROVE SettledKept(o)
  <2> HIDE DEF Settled, SettledKept, CompletedGet
  <2> QED BY <1>21, SettledUpdate
<1>22. ASSUME NEW w \in Workers, FailedGet(w) PROVE SettledKept(o)
  <2> HIDE DEF Settled, SettledKept, FailedGet
  <2> QED BY <1>22, SettledUpdate
<1>23. ASSUME NEW w \in Workers, RunningSet(w) PROVE SettledKept(o)
  <2> HIDE DEF Settled, SettledKept, RunningSet
  <2> QED BY <1>23, SettledUpdate
<1>24. ASSUME NEW w \in Workers, CompletedSet(w) PROVE SettledKept(o)
  <2> HIDE DEF Settled, SettledKept, CompletedSet
  <2> QED BY <1>24, SettledUpdate
<1>25. ASSUME NEW w \in Workers, FailedSet(w) PROVE SettledKept(o)
  <2> HIDE DEF Settled, SettledKept, FailedSet
  <2> QED BY <1>25, SettledUpdate
<1>26. ASSUME NEW w \in Workers, ExecuteReturns(w) PROVE SettledKept(o)
  BY <1>26 DEF ExecuteReturns
<1>27. ASSUME NEW w \in Workers, ExecuteRaises(w) PROVE SettledKept(o)
  BY <1>27 DEF ExecuteRaises
<1>28. ASSUME NEW w \in Workers, Ack(w) PROVE SettledKept(o)
  BY <1>28 DEF Ack
<1>29. CASE UNCHANGED vars
  BY <1>29 DEF vars
<1> QED
  BY <1>1, <1>2, <1>3, <1>4, <1>5, <1>6, <1>7, <1>8, <1>9, <1>10, <1>11, <1>12, <1>13, <1>14,
     <1>15, <1>16, <1>17, <1>18, <1>19, <1>20, <1>21, <1>22, <1>23, <1>24, <1>25, <1>26,
     <1>27, <1>28, <1>29
  DEF Next, Request, ApiStep, Take, ControlStep, Fault, WorkerStep

(* Once every update that read an earlier status is over, a final status   *)
(* is final (repository.py:12): the GET and SET of a later update need not *)
(* be atomic for that, whatever is redelivered, cancelled, crashes or      *)
(* fails.                                                                  *)
THEOREM SettledIsFinal == Spec => SettledStays
<1>1. TypeOK /\ [Next]_vars
        => [\A t \in Tasks :
              Settled(t) => Settled(t)' /\ status'[t] \in {status[t], LC!Expired}]_vars
  BY SettledStep DEF SettledKept
<1> QED
  BY <1>1, TypeCorrect, PTL DEF Spec, SettledStays

-----------------------------------------------------------------------------
(* A copy that is going to be written is a status the record has had, and  *)
(* the record is still there.                                              *)
CopyInv ==
  /\ \A t \in Tasks : status[t] \notin Missing => status[t] \in held[t]
  /\ api.pc = "cancelled.set" => api.copy \in held[api.task]
  /\ \A w \in Workers : worker[w].pc \in {"running.set", "completed.set", "failed.set"} =>
       status[worker[w].task] \notin Missing /\ worker[w].copy \in held[worker[w].task]

LEMMA CopyStep == TypeOK /\ ApiInv /\ CopyInv /\ [Next]_vars => CopyInv'
<1> SUFFICES ASSUME TypeOK, ApiInv, CopyInv, [Next]_vars PROVE CopyInv'
  OBVIOUS
<1> USE Statuses
    DEF TypeOK, LC!TypeOK, Process, Idle, At, ApiGoto, WorkerGoto, brokerVars, record, Record,
        ApiInv, CopyInv, Holds
<1>1. ASSUME NEW t \in Tasks, Create(t) PROVE CopyInv'
  BY <1>1 DEF Create
<1>2. ASSUME NEW t \in Tasks, CancelTask(t) PROVE CopyInv'
  BY <1>2 DEF CancelTask
<1>3. CASE Publish
  BY <1>3 DEF Publish
<1>4. CASE Revoke
  BY <1>4 DEF Revoke, Broadcast
<1>5. CASE Terminate
  BY <1>5 DEF Terminate, Broadcast
<1>6. CASE CancelledGet
  BY <1>6 DEF CancelledGet
<1>7. CASE CancelledSet
  BY <1>7 DEF CancelledSet, Store
<1>8. ASSUME NEW w \in Workers, NEW t \in Tasks, Deliver(w, t) PROVE CopyInv'
  BY <1>8 DEF Deliver
<1>9. ASSUME NEW n \in Nodes, NEW t \in Tasks, Discard(n, t) PROVE CopyInv'
  BY <1>9 DEF Discard
<1>10. ASSUME NEW c \in ctl, HandleControl(c) PROVE CopyInv'
  BY <1>10 DEF HandleControl, Holds
<1>11. ASSUME NEW c \in ctl, LoseControl(c) PROVE CopyInv'
  BY <1>11 DEF LoseControl
<1>12. CASE PublishFails
  BY <1>12 DEF PublishFails, Strike
<1>13. CASE ApiAborts
  BY <1>13 DEF ApiAborts, Strike, Store
<1>14. ASSUME NEW w \in Workers, CallRaises(w) PROVE CopyInv'
  <2>1. /\ UNCHANGED api
        /\ \A v \in Workers : v # w => worker'[v] = worker[v]
        /\ worker'[w].pc \in {"idle", "failed.get", "ack"}
    BY <1>14 DEF CallRaises
  <2>2. CASE UNCHANGED record
    BY <2>1, <2>2
  <2>3. CASE \E s \in LC!Written : Record(worker[w].task, s) /\ worker[w].pc \in
               {"running.set", "completed.set", "failed.set"}
    BY <2>1, <2>3
  <2> QED
    BY <1>14, <2>2, <2>3 DEF CallRaises, Store
<1>15. ASSUME NEW w \in Workers, Redeliver(w) PROVE CopyInv'
  BY <1>15 DEF Redeliver, Strike
<1>16. ASSUME NEW w \in Workers, Kill(w) PROVE CopyInv'
  BY <1>16 DEF Kill, Strike
<1>17. ASSUME NEW n \in Nodes, Crash(n) PROVE CopyInv'
  BY <1>17 DEF Crash, Strike
<1>18. ASSUME NEW t \in Tasks, Expire(t) PROVE CopyInv'
  BY <1>18 DEF Expire, Strike
<1>19. ASSUME NEW w \in Workers, Check(w) PROVE CopyInv'
  BY <1>19 DEF Check
<1>20. ASSUME NEW w \in Workers, RunningGet(w) PROVE CopyInv'
  BY <1>20 DEF RunningGet, Get
<1>21. ASSUME NEW w \in Workers, CompletedGet(w) PROVE CopyInv'
  BY <1>21 DEF CompletedGet, Get
<1>22. ASSUME NEW w \in Workers, FailedGet(w) PROVE CopyInv'
  BY <1>22 DEF FailedGet, Get
<1>23. ASSUME NEW w \in Workers, RunningSet(w) PROVE CopyInv'
  BY <1>23 DEF RunningSet, Set, Store
<1>24. ASSUME NEW w \in Workers, CompletedSet(w) PROVE CopyInv'
  BY <1>24 DEF CompletedSet, Set, Store
<1>25. ASSUME NEW w \in Workers, FailedSet(w) PROVE CopyInv'
  BY <1>25 DEF FailedSet, Set, Store
<1>26. ASSUME NEW w \in Workers, ExecuteReturns(w) PROVE CopyInv'
  BY <1>26 DEF ExecuteReturns
<1>27. ASSUME NEW w \in Workers, ExecuteRaises(w) PROVE CopyInv'
  BY <1>27 DEF ExecuteRaises
<1>28. ASSUME NEW w \in Workers, Ack(w) PROVE CopyInv'
  BY <1>28 DEF Ack
<1>29. CASE UNCHANGED vars
  BY <1>29 DEF vars
<1> QED
  BY <1>1, <1>2, <1>3, <1>4, <1>5, <1>6, <1>7, <1>8, <1>9, <1>10, <1>11, <1>12, <1>13, <1>14,
     <1>15, <1>16, <1>17, <1>18, <1>19, <1>20, <1>21, <1>22, <1>23, <1>24, <1>25, <1>26,
     <1>27, <1>28, <1>29
  DEF Next, Request, ApiStep, Take, ControlStep, Fault, WorkerStep

(* Every step of the queue is a step of what is left of the life cycle, or *)
(* leaves the records alone.                                               *)
LEMMA LifecycleStep ==
  ASSUME TypeOK, ApiInv, CopyInv, [Next]_vars
  PROVE  LC!Next \/ UNCHANGED record
<1> USE Statuses
    DEF TypeOK, LC!TypeOK, brokerVars, record, Record, ApiInv, CopyInv, Holds, Missing,
        LC!Next, LC!Create, LC!Update, LC!UpdateTo, LC!Expire, LC!Write
<1>1. ASSUME NEW t \in Tasks, Create(t) PROVE LC!Next \/ UNCHANGED record
  BY <1>1 DEF Create
<1>2. ASSUME NEW t \in Tasks, CancelTask(t) PROVE LC!Next \/ UNCHANGED record
  BY <1>2 DEF CancelTask
<1>3. CASE Publish
  BY <1>3 DEF Publish
<1>4. CASE Revoke
  BY <1>4 DEF Revoke, Broadcast
<1>5. CASE Terminate
  BY <1>5 DEF Terminate, Broadcast
<1>6. CASE CancelledGet
  BY <1>6 DEF CancelledGet
<1>7. CASE CancelledSet
  BY <1>7 DEF CancelledSet, Store
<1>8. ASSUME NEW w \in Workers, NEW t \in Tasks, Deliver(w, t) PROVE LC!Next \/ UNCHANGED record
  BY <1>8 DEF Deliver
<1>9. ASSUME NEW n \in Nodes, NEW t \in Tasks, Discard(n, t) PROVE LC!Next \/ UNCHANGED record
  BY <1>9 DEF Discard
<1>10. ASSUME NEW c \in ctl, HandleControl(c) PROVE LC!Next \/ UNCHANGED record
  BY <1>10 DEF HandleControl, Holds
<1>11. ASSUME NEW c \in ctl, LoseControl(c) PROVE LC!Next \/ UNCHANGED record
  BY <1>11 DEF LoseControl
<1>12. CASE PublishFails
  BY <1>12 DEF PublishFails, Strike
<1>13. CASE ApiAborts
  BY <1>13 DEF ApiAborts, Strike, Store
<1>14. ASSUME NEW w \in Workers, CallRaises(w) PROVE LC!Next \/ UNCHANGED record
  BY <1>14 DEF CallRaises, Strike, Store
<1>15. ASSUME NEW w \in Workers, Redeliver(w) PROVE LC!Next \/ UNCHANGED record
  BY <1>15 DEF Redeliver, Strike
<1>16. ASSUME NEW w \in Workers, Kill(w) PROVE LC!Next \/ UNCHANGED record
  BY <1>16 DEF Kill, Strike
<1>17. ASSUME NEW n \in Nodes, Crash(n) PROVE LC!Next \/ UNCHANGED record
  BY <1>17 DEF Crash, Strike
<1>18. ASSUME NEW t \in Tasks, Expire(t) PROVE LC!Next \/ UNCHANGED record
  BY <1>18 DEF Expire, Strike
<1>19. ASSUME NEW w \in Workers, Check(w) PROVE LC!Next \/ UNCHANGED record
  BY <1>19 DEF Check
<1>20. ASSUME NEW w \in Workers, RunningGet(w) PROVE LC!Next \/ UNCHANGED record
  BY <1>20 DEF RunningGet, Get
<1>21. ASSUME NEW w \in Workers, CompletedGet(w) PROVE LC!Next \/ UNCHANGED record
  BY <1>21 DEF CompletedGet, Get
<1>22. ASSUME NEW w \in Workers, FailedGet(w) PROVE LC!Next \/ UNCHANGED record
  BY <1>22 DEF FailedGet, Get
<1>23. ASSUME NEW w \in Workers, RunningSet(w) PROVE LC!Next \/ UNCHANGED record
  BY <1>23 DEF RunningSet, Set, Store
<1>24. ASSUME NEW w \in Workers, CompletedSet(w) PROVE LC!Next \/ UNCHANGED record
  BY <1>24 DEF CompletedSet, Set, Store
<1>25. ASSUME NEW w \in Workers, FailedSet(w) PROVE LC!Next \/ UNCHANGED record
  BY <1>25 DEF FailedSet, Set, Store
<1>26. ASSUME NEW w \in Workers, ExecuteReturns(w) PROVE LC!Next \/ UNCHANGED record
  BY <1>26 DEF ExecuteReturns
<1>27. ASSUME NEW w \in Workers, ExecuteRaises(w) PROVE LC!Next \/ UNCHANGED record
  BY <1>27 DEF ExecuteRaises
<1>28. ASSUME NEW w \in Workers, Ack(w) PROVE LC!Next \/ UNCHANGED record
  BY <1>28 DEF Ack
<1>29. CASE UNCHANGED vars
  BY <1>29 DEF vars
<1> QED
  BY <1>1, <1>2, <1>3, <1>4, <1>5, <1>6, <1>7, <1>8, <1>9, <1>10, <1>11, <1>12, <1>13, <1>14,
     <1>15, <1>16, <1>17, <1>18, <1>19, <1>20, <1>21, <1>22, <1>23, <1>24, <1>25, <1>26,
     <1>27, <1>28, <1>29
  DEF Next, Request, ApiStep, Take, ControlStep, Fault, WorkerStep

(* Through every race and fault the records keep to what is left of the    *)
(* life cycle when update_status checks the edge on the copy it read: no   *)
(* record is created twice, "queued" again, written after it expired, or   *)
(* completed or failed without having run (redis_repository.py:82-118).    *)
THEOREM KeepsLifecycle == Spec => Lifecycle
<1>1. Init => LC!Init /\ ApiInv /\ CopyInv
  BY Statuses DEF Init, LC!Init, ApiInv, CopyInv, Idle
<1>2. TypeOK /\ ApiInv /\ CopyInv /\ [Next]_vars => [LC!Next]_(LC!vars)
  BY LifecycleStep DEF LC!vars, record
<1> QED
  BY <1>1, <1>2, TypeCorrect, ApiStepInv, CopyStep, PTL DEF Spec, Lifecycle, LC!Spec

-----------------------------------------------------------------------------
(* Only tasks some client cancels are ever revoked, and only those or the  *)
(* tasks of a failed call are marked cancelled.                            *)
CancelInv ==
  /\ \A c \in ctl : c.task \in Cancellable
  /\ \A n \in Nodes : revoked[n] \subseteq Cancellable
  /\ api.pc \in {"revoke", "terminate"} => api.task \in Cancellable
  /\ faults["error"] = 0 /\ api.pc \in {"cancelled.get", "cancelled.set"}
       => api.task \in Cancellable

(* A record exists before its message, and it is no longer "queued" once a *)
(* handler got past its first update, or read it so.                       *)
RecordInv ==
  /\ \A t \in ready : status[t] # LC!Absent
  /\ \A w \in Workers : worker[w].pc # "idle" =>
       /\ status[worker[w].task] # LC!Absent
       /\ worker[w].pc \notin {"check", "running.get", "running.set", "ack"} =>
            status[worker[w].task] # "queued"
       /\ worker[w].pc = "running.set" /\ worker[w].copy # "queued" =>
            status[worker[w].task] # "queued"
       /\ worker[w].pc \in {"running.set", "completed.set", "failed.set"} =>
            worker[w].copy \notin Missing
       /\ worker[w].pc \in {"completed.set", "failed.set"} => worker[w].copy # "queued"

(* Handler w is going to settle the record of task t: it does not yet hold *)
(* a copy that is final already.                                           *)
WillSettle(w, t) ==
  /\ Holds(w, t) /\ worker[w].pc # "ack"
  /\ worker[w].pc \in {"completed.set", "failed.set"} => worker[w].copy \notin Terminal

SettleInv ==
  faults["kill"] = 0 /\ faults["error"] = 0 =>
    \A t \in Tasks \ Cancellable :
      status[t] \in {"queued", "running"} =>
        \/ api.pc = "publish" /\ api.task = t
        \/ t \in ready
        \/ \E w \in Workers : WillSettle(w, t)

(* While nothing is redelivered and no call raises, the copy a handler is  *)
(* about to update is the record of its task, if nobody cancels it.        *)
OneWriterInv ==
  faults["redeliver"] = 0 /\ faults["error"] = 0 =>
    \A t \in Tasks \ Cancellable : \A w \in Workers :
      Holds(w, t) /\ worker[w].pc \in {"running.set", "completed.set", "failed.set"}
        => worker[w].copy = status[t]

LEMMA CancelStep == TypeOK /\ CancelInv /\ [Next]_vars => CancelInv'
<1> SUFFICES ASSUME TypeOK, CancelInv, [Next]_vars PROVE CancelInv'
  OBVIOUS
<1> USE Statuses, ConstantsOK
    DEF TypeOK, LC!TypeOK, Process, Idle, At, ApiGoto, WorkerGoto,
        brokerVars, record, Record, CancelInv, FaultKinds
<1>1. ASSUME NEW t \in Tasks, Create(t) PROVE CancelInv'
  BY <1>1 DEF Create
<1>2. ASSUME NEW t \in Tasks, CancelTask(t) PROVE CancelInv'
  BY <1>2 DEF CancelTask
<1>3. CASE Publish
  BY <1>3 DEF Publish
<1>4. CASE Revoke
  BY <1>4 DEF Revoke, Broadcast
<1>5. CASE Terminate
  BY <1>5 DEF Terminate, Broadcast
<1>6. CASE CancelledGet
  BY <1>6 DEF CancelledGet
<1>7. CASE CancelledSet
  BY <1>7 DEF CancelledSet, Store
<1>8. ASSUME NEW w \in Workers, NEW t \in Tasks, Deliver(w, t) PROVE CancelInv'
  BY <1>8 DEF Deliver
<1>9. ASSUME NEW n \in Nodes, NEW t \in Tasks, Discard(n, t) PROVE CancelInv'
  BY <1>9 DEF Discard
<1>10. ASSUME NEW c \in ctl, HandleControl(c) PROVE CancelInv'
  BY <1>10 DEF HandleControl, Holds
<1>11. ASSUME NEW c \in ctl, LoseControl(c) PROVE CancelInv'
  BY <1>11 DEF LoseControl
<1>12. CASE PublishFails
  BY <1>12 DEF PublishFails, Strike
<1>13. CASE ApiAborts
  BY <1>13 DEF ApiAborts, Strike, Store
<1>14. ASSUME NEW w \in Workers, CallRaises(w) PROVE CancelInv'
  BY <1>14 DEF CallRaises, Strike, Store
<1>15. ASSUME NEW w \in Workers, Redeliver(w) PROVE CancelInv'
  BY <1>15 DEF Redeliver, Strike
<1>16. ASSUME NEW w \in Workers, Kill(w) PROVE CancelInv'
  BY <1>16 DEF Kill, Strike
<1>17. ASSUME NEW n \in Nodes, Crash(n) PROVE CancelInv'
  BY <1>17 DEF Crash, Strike
<1>18. ASSUME NEW t \in Tasks, Expire(t) PROVE CancelInv'
  BY <1>18 DEF Expire, Strike
<1>19. ASSUME NEW w \in Workers, Check(w) PROVE CancelInv'
  BY <1>19 DEF Check
<1>20. ASSUME NEW w \in Workers, RunningGet(w) PROVE CancelInv'
  BY <1>20 DEF RunningGet, Get
<1>21. ASSUME NEW w \in Workers, CompletedGet(w) PROVE CancelInv'
  BY <1>21 DEF CompletedGet, Get
<1>22. ASSUME NEW w \in Workers, FailedGet(w) PROVE CancelInv'
  BY <1>22 DEF FailedGet, Get
<1>23. ASSUME NEW w \in Workers, RunningSet(w) PROVE CancelInv'
  BY <1>23 DEF RunningSet, Set, Store
<1>24. ASSUME NEW w \in Workers, CompletedSet(w) PROVE CancelInv'
  BY <1>24 DEF CompletedSet, Set, Store
<1>25. ASSUME NEW w \in Workers, FailedSet(w) PROVE CancelInv'
  BY <1>25 DEF FailedSet, Set, Store
<1>26. ASSUME NEW w \in Workers, ExecuteReturns(w) PROVE CancelInv'
  BY <1>26 DEF ExecuteReturns
<1>27. ASSUME NEW w \in Workers, ExecuteRaises(w) PROVE CancelInv'
  BY <1>27 DEF ExecuteRaises
<1>28. ASSUME NEW w \in Workers, Ack(w) PROVE CancelInv'
  BY <1>28 DEF Ack
<1>29. CASE UNCHANGED vars
  BY <1>29 DEF vars
<1> QED
  BY <1>1, <1>2, <1>3, <1>4, <1>5, <1>6, <1>7, <1>8, <1>9, <1>10, <1>11, <1>12, <1>13, <1>14,
     <1>15, <1>16, <1>17, <1>18, <1>19, <1>20, <1>21, <1>22, <1>23, <1>24, <1>25, <1>26,
     <1>27, <1>28, <1>29
  DEF Next, Request, ApiStep, Take, ControlStep, Fault, WorkerStep

LEMMA RecordStep == TypeOK /\ ApiInv /\ RecordInv /\ [Next]_vars => RecordInv'
<1> SUFFICES ASSUME TypeOK, ApiInv, RecordInv, [Next]_vars PROVE RecordInv'
  OBVIOUS
<1> USE Statuses, Edges
    DEF TypeOK, LC!TypeOK, Process, Idle, At, ApiGoto, WorkerGoto,
        brokerVars, record, Record, ApiInv, RecordInv
<1>1. ASSUME NEW t \in Tasks, Create(t) PROVE RecordInv'
  BY <1>1 DEF Create
<1>2. ASSUME NEW t \in Tasks, CancelTask(t) PROVE RecordInv'
  BY <1>2 DEF CancelTask
<1>3. CASE Publish
  BY <1>3 DEF Publish
<1>4. CASE Revoke
  BY <1>4 DEF Revoke, Broadcast
<1>5. CASE Terminate
  BY <1>5 DEF Terminate, Broadcast
<1>6. CASE CancelledGet
  BY <1>6 DEF CancelledGet
<1>7. CASE CancelledSet
  BY <1>7 DEF CancelledSet, Store
<1>8. ASSUME NEW w \in Workers, NEW t \in Tasks, Deliver(w, t) PROVE RecordInv'
  BY <1>8 DEF Deliver
<1>9. ASSUME NEW n \in Nodes, NEW t \in Tasks, Discard(n, t) PROVE RecordInv'
  BY <1>9 DEF Discard
<1>10. ASSUME NEW c \in ctl, HandleControl(c) PROVE RecordInv'
  BY <1>10 DEF HandleControl, Holds
<1>11. ASSUME NEW c \in ctl, LoseControl(c) PROVE RecordInv'
  BY <1>11 DEF LoseControl
<1>12. CASE PublishFails
  BY <1>12 DEF PublishFails, Strike
<1>13. CASE ApiAborts
  BY <1>13 DEF ApiAborts, Strike, Store
<1>14. ASSUME NEW w \in Workers, CallRaises(w) PROVE RecordInv'
  BY <1>14 DEF CallRaises, Strike, Store
<1>15. ASSUME NEW w \in Workers, Redeliver(w) PROVE RecordInv'
  BY <1>15 DEF Redeliver, Strike
<1>16. ASSUME NEW w \in Workers, Kill(w) PROVE RecordInv'
  BY <1>16 DEF Kill, Strike
<1>17. ASSUME NEW n \in Nodes, Crash(n) PROVE RecordInv'
  BY <1>17 DEF Crash, Strike, Holds
<1>18. ASSUME NEW t \in Tasks, Expire(t) PROVE RecordInv'
  BY <1>18 DEF Expire, Strike, Holds
<1>19. ASSUME NEW w \in Workers, Check(w) PROVE RecordInv'
  BY <1>19 DEF Check
<1>20. ASSUME NEW w \in Workers, RunningGet(w) PROVE RecordInv'
  BY <1>20 DEF RunningGet, Get
<1>21. ASSUME NEW w \in Workers, CompletedGet(w) PROVE RecordInv'
  BY <1>21 DEF CompletedGet, Get
<1>22. ASSUME NEW w \in Workers, FailedGet(w) PROVE RecordInv'
  BY <1>22 DEF FailedGet, Get
<1>23. ASSUME NEW w \in Workers, RunningSet(w) PROVE RecordInv'
  BY <1>23 DEF RunningSet, Set, Store
<1>24. ASSUME NEW w \in Workers, CompletedSet(w) PROVE RecordInv'
  BY <1>24 DEF CompletedSet, Set, Store
<1>25. ASSUME NEW w \in Workers, FailedSet(w) PROVE RecordInv'
  BY <1>25 DEF FailedSet, Set, Store
<1>26. ASSUME NEW w \in Workers, ExecuteReturns(w) PROVE RecordInv'
  BY <1>26 DEF ExecuteReturns
<1>27. ASSUME NEW w \in Workers, ExecuteRaises(w) PROVE RecordInv'
  BY <1>27 DEF ExecuteRaises
<1>28. ASSUME NEW w \in Workers, Ack(w) PROVE RecordInv'
  BY <1>28 DEF Ack
<1>29. CASE UNCHANGED vars
  BY <1>29 DEF vars
<1> QED
  BY <1>1, <1>2, <1>3, <1>4, <1>5, <1>6, <1>7, <1>8, <1>9, <1>10, <1>11, <1>12, <1>13, <1>14,
     <1>15, <1>16, <1>17, <1>18, <1>19, <1>20, <1>21, <1>22, <1>23, <1>24, <1>25, <1>26,
     <1>27, <1>28, <1>29
  DEF Next, Request, ApiStep, Take, ControlStep, Fault, WorkerStep

LEMMA SettleGet ==
  ASSUME TypeOK, SettleInv, NEW w \in Workers, NEW get, NEW onMissing,
         NEW set \in {"running.set", "completed.set", "failed.set"},
         Get(w, get, set, onMissing), faults'["kill"] = 0, faults'["error"] = 0,
         NEW o \in Tasks \ Cancellable, status'[o] \in {"queued", "running"}
  PROVE  \/ (api.pc = "publish" /\ api.task = o)'
         \/ o \in ready'
         \/ \E v \in Workers : WillSettle(v, o)'
<1>1. UNCHANGED <<status, ready, api, faults>>
  BY DEF Get, brokerVars, record, Record
<1>2. ASSUME NEW v \in Workers, WillSettle(v, o) PROVE WillSettle(v, o)'
  <2>1. CASE v # w
    BY <1>2, <2>1 DEF Get, WorkerGoto, WillSettle, Holds, TypeOK
  <2>2. CASE v = w
    <3>1. worker'[w] = [pc |-> set, task |-> o, copy |-> status[o]]
      BY <1>1, <1>2, <2>2, Statuses DEF Get, WillSettle, Holds, TypeOK
    <3> QED
      BY <1>1, <2>2, <3>1, Statuses DEF WillSettle, Holds
  <2> QED
    BY <2>1, <2>2
<1> QED
  BY <1>1, <1>2 DEF SettleInv

LEMMA SettleStep ==
  ASSUME TypeOK, ApiInv, CancelInv, RecordInv, SettleInv, [Next]_vars
  PROVE  SettleInv'
<1> SUFFICES ASSUME faults'["kill"] = 0, faults'["error"] = 0,
                    NEW o \in Tasks \ Cancellable, status'[o] \in {"queued", "running"}
             PROVE  \/ (api.pc = "publish" /\ api.task = o)'
                    \/ o \in ready'
                    \/ \E w \in Workers : WillSettle(w, o)'
  BY DEF SettleInv
<1> DEFINE Attended == \/ (api.pc = "publish" /\ api.task = o)'
                      \/ o \in ready'
                      \/ \E w \in Workers : WillSettle(w, o)'
<1> USE Statuses, Edges, ConstantsOK
    DEF TypeOK, LC!TypeOK, Process, Idle, At, ApiGoto, WorkerGoto,
        brokerVars, record, Record, FaultKinds,
        ApiInv, CancelInv, RecordInv, SettleInv, WillSettle, Holds
<1>1. ASSUME NEW t \in Tasks, Create(t) PROVE Attended
  BY <1>1 DEF Create
<1>2. ASSUME NEW t \in Tasks, CancelTask(t) PROVE Attended
  BY <1>2 DEF CancelTask
<1>3. CASE Publish
  BY <1>3 DEF Publish
<1>4. CASE Revoke
  BY <1>4 DEF Revoke, Broadcast
<1>5. CASE Terminate
  BY <1>5 DEF Terminate, Broadcast
<1>6. CASE CancelledGet
  BY <1>6 DEF CancelledGet
<1>7. CASE CancelledSet
  BY <1>7 DEF CancelledSet, Store
<1>8. ASSUME NEW w \in Workers, NEW t \in Tasks, Deliver(w, t) PROVE Attended
  BY <1>8 DEF Deliver
<1>9. ASSUME NEW n \in Nodes, NEW t \in Tasks, Discard(n, t) PROVE Attended
  BY <1>9 DEF Discard
<1>10. ASSUME NEW c \in ctl, HandleControl(c) PROVE Attended
  BY <1>10 DEF HandleControl, Holds
<1>11. ASSUME NEW c \in ctl, LoseControl(c) PROVE Attended
  BY <1>11 DEF LoseControl
<1>12. CASE PublishFails
  BY <1>12 DEF PublishFails, Strike
<1>13. CASE ApiAborts
  BY <1>13 DEF ApiAborts, Strike, Store
<1>14. ASSUME NEW w \in Workers, CallRaises(w) PROVE Attended
  BY <1>14 DEF CallRaises, Strike, Store
<1>15. ASSUME NEW w \in Workers, Redeliver(w) PROVE Attended
  BY <1>15 DEF Redeliver, Strike
<1>16. ASSUME NEW w \in Workers, Kill(w) PROVE Attended
  BY <1>16 DEF Kill, Strike
<1>17. ASSUME NEW n \in Nodes, Crash(n) PROVE Attended
  BY <1>17 DEF Crash, Strike
<1>18. ASSUME NEW t \in Tasks, Expire(t) PROVE Attended
  BY <1>18 DEF Expire, Strike
<1>19. ASSUME NEW w \in Workers, Check(w) PROVE Attended
  BY <1>19 DEF Check
<1>20. ASSUME NEW w \in Workers, RunningGet(w) PROVE Attended
  BY <1>20, SettleGet DEF RunningGet
<1>21. ASSUME NEW w \in Workers, CompletedGet(w) PROVE Attended
  BY <1>21, SettleGet DEF CompletedGet
<1>22. ASSUME NEW w \in Workers, FailedGet(w) PROVE Attended
  BY <1>22, SettleGet DEF FailedGet
<1>23. ASSUME NEW w \in Workers, RunningSet(w) PROVE Attended
  BY <1>23 DEF RunningSet, Set, Store
<1>24. ASSUME NEW w \in Workers, CompletedSet(w) PROVE Attended
  BY <1>24 DEF CompletedSet, Set, Store
<1>25. ASSUME NEW w \in Workers, FailedSet(w) PROVE Attended
  BY <1>25 DEF FailedSet, Set, Store
<1>26. ASSUME NEW w \in Workers, ExecuteReturns(w) PROVE Attended
  BY <1>26 DEF ExecuteReturns
<1>27. ASSUME NEW w \in Workers, ExecuteRaises(w) PROVE Attended
  BY <1>27 DEF ExecuteRaises
<1>28. ASSUME NEW w \in Workers, Ack(w) PROVE Attended
  BY <1>28 DEF Ack
<1>29. CASE UNCHANGED vars
  BY <1>29 DEF vars
<1> QED
  BY <1>1, <1>2, <1>3, <1>4, <1>5, <1>6, <1>7, <1>8, <1>9, <1>10, <1>11, <1>12, <1>13, <1>14,
     <1>15, <1>16, <1>17, <1>18, <1>19, <1>20, <1>21, <1>22, <1>23, <1>24, <1>25, <1>26,
     <1>27, <1>28, <1>29
  DEF Next, Request, ApiStep, Take, ControlStep, Fault, WorkerStep

(* Unless the visibility timeout passes, there is one message of a task:   *)
(* about to be published, with the broker or with one handler.             *)
OnePlace ==
  faults["redeliver"] = 0 =>
    \A t \in Tasks :
      /\ t \in ready => \A w \in Workers : ~Holds(w, t)
      /\ api.pc = "publish" /\ api.task = t =>
           t \notin ready /\ \A w \in Workers : ~Holds(w, t)
      /\ \A v, w \in Workers : Holds(v, t) /\ Holds(w, t) => v = w

(* A step that hands out no message.                                       *)
LEMMA NoMessage ==
  ASSUME OnePlace, faults'["redeliver"] = 0 => faults["redeliver"] = 0, ready' \subseteq ready,
         api'.pc = "publish" => api' = api,
         \A v \in Workers, t \in Tasks : Holds(v, t)' => Holds(v, t)
  PROVE  OnePlace'
BY DEF OnePlace

LEMMA OnePlaceStep ==
  ASSUME TypeOK, RecordInv, OnePlace, [Next]_vars
  PROVE  OnePlace'
<1> USE Statuses, ConstantsOK
    DEF TypeOK, LC!TypeOK, Process, Idle, At, ApiGoto, WorkerGoto,
        brokerVars, record, Record, FaultKinds
<1>1. ASSUME NEW t \in Tasks, Create(t) PROVE OnePlace'
  BY <1>1 DEF Create, RecordInv, OnePlace, Holds
<1>2. ASSUME NEW t \in Tasks, CancelTask(t) PROVE OnePlace'
  BY <1>2, NoMessage DEF CancelTask, Holds
<1>3. CASE Publish
  BY <1>3 DEF Publish, OnePlace, Holds
<1>4. CASE Revoke \/ Terminate \/ CancelledGet \/ CancelledSet
  <2>1. /\ ready' = ready /\ worker' = worker /\ faults' = faults
        /\ api'.pc # "publish"
    <3>1. CASE Revoke \/ Terminate \/ CancelledSet
      BY <3>1 DEF Revoke, Terminate, Broadcast, CancelledSet
    <3>2. CASE CancelledGet
      BY <3>2 DEF CancelledGet
    <3> QED BY <1>4, <3>1, <3>2
  <2> QED BY <2>1, NoMessage DEF Holds
<1>5. ASSUME NEW w \in Workers, NEW t \in Tasks, Deliver(w, t) PROVE OnePlace'
  BY <1>5 DEF Deliver, OnePlace, Holds
<1>6. ASSUME NEW n \in Nodes, NEW t \in Tasks, Discard(n, t) PROVE OnePlace'
  BY <1>6, NoMessage DEF Discard, Holds
<1>7. ASSUME NEW c \in ctl, HandleControl(c) \/ LoseControl(c) PROVE OnePlace'
  BY <1>7, NoMessage DEF HandleControl, LoseControl, Holds
<1>8. CASE PublishFails
  BY <1>8 DEF PublishFails, Strike, OnePlace, Holds
<1>9. CASE ApiAborts
  BY <1>9 DEF ApiAborts, Strike, OnePlace, Holds
<1>10. ASSUME NEW w \in Workers, CallRaises(w) \/ Kill(w) PROVE OnePlace'
  <2>1. /\ worker[w].pc # "idle" /\ ready' = ready /\ api' = api
        /\ faults'["redeliver"] = faults["redeliver"]
        /\ \E s \in WorkerSteps : WorkerGoto(w, s)
    BY <1>10 DEF CallRaises, Kill, Strike, WorkerSteps
  <2> QED BY <2>1, NoMessage DEF Holds
<1>11. ASSUME NEW w \in Workers, Redeliver(w) PROVE OnePlace'
  BY <1>11 DEF Redeliver, Strike, OnePlace
<1>12. ASSUME NEW n \in Nodes, Crash(n) PROVE OnePlace'
  BY <1>12 DEF Crash, Strike, OnePlace, Holds
<1>13. ASSUME NEW t \in Tasks, Expire(t) PROVE OnePlace'
  BY <1>13, NoMessage DEF Expire, Strike, Holds
<1>14. ASSUME NEW w \in Workers, Check(w) \/ ExecuteReturns(w) \/ ExecuteRaises(w) \/ Ack(w)
       PROVE  OnePlace'
  <2>1. /\ worker[w].pc # "idle" /\ ready' = ready /\ api' = api /\ faults' = faults
        /\ \E s \in WorkerSteps : WorkerGoto(w, s)
    BY <1>14 DEF Check, ExecuteReturns, ExecuteRaises, Ack, WorkerSteps
  <2> QED BY <2>1, NoMessage DEF Holds
<1>15. ASSUME NEW w \in Workers, RunningGet(w) \/ CompletedGet(w) \/ FailedGet(w) PROVE OnePlace'
  BY <1>15, NoMessage DEF RunningGet, CompletedGet, FailedGet, Get, Holds
<1>16. ASSUME NEW w \in Workers, RunningSet(w) \/ CompletedSet(w) \/ FailedSet(w) PROVE OnePlace'
  <2>1. /\ worker[w].pc # "idle" /\ ready' = ready /\ api' = api /\ faults' = faults
        /\ \E s \in WorkerSteps : WorkerGoto(w, s)
    BY <1>16 DEF RunningSet, CompletedSet, FailedSet, Set, WorkerSteps
  <2> QED BY <2>1, NoMessage DEF Holds
<1>17. CASE UNCHANGED vars
  BY <1>17, NoMessage DEF vars, Holds
<1> QED
  BY <1>1, <1>2, <1>3, <1>4, <1>5, <1>6, <1>7, <1>8, <1>9, <1>10, <1>11, <1>12, <1>13, <1>14,
     <1>15, <1>16, <1>17
  DEF Next, Request, ApiStep, Take, ControlStep, Fault, WorkerStep

LEMMA OneWriterGet ==
  ASSUME TypeOK, OneWriterInv, NEW w \in Workers, NEW get, NEW set, NEW onMissing,
         get # "idle", onMissing \in {"ack", "failed.get"}, Get(w, get, set, onMissing)
  PROVE  OneWriterInv'
<1> USE Statuses DEF TypeOK, LC!TypeOK, Process, Idle, At, WorkerGoto, Get, Holds
<1>1. \A v \in Workers : v # w => worker'[v] = worker[v]
  OBVIOUS
<1>2. \A t \in Tasks : Holds(w, t)' => Holds(w, t)
  OBVIOUS
<1>3. worker'[w].pc \in {"running.set", "completed.set", "failed.set"} =>
        worker'[w].copy = status[worker[w].task]
  OBVIOUS
<1>4. status' = status /\ ready' = ready /\ api' = api /\ faults' = faults
  BY DEF brokerVars, record, Record
<1>5. \A v \in Workers, t \in Tasks : Holds(v, t)' => Holds(v, t)
  BY <1>1, <1>2
<1>6. ASSUME NEW v \in Workers, NEW t \in Tasks \ Cancellable, Holds(v, t)',
             worker'[v].pc \in {"running.set", "completed.set", "failed.set"},
             faults["redeliver"] = 0, faults["error"] = 0
      PROVE  worker'[v].copy = status[t]
  <2>1. CASE v = w
    BY <1>2, <1>3, <1>6, <2>1
  <2>2. CASE v # w
    BY <1>1, <1>6, <2>2 DEF OneWriterInv
  <2> QED
    BY <2>1, <2>2
<1> HIDE DEF Get, Holds, WorkerGoto
<1> QED
  BY <1>4, <1>5, <1>6 DEF OneWriterInv

LEMMA OneWriterStep ==
  ASSUME TypeOK, ApiInv, CancelInv, RecordInv, OnePlace, OneWriterInv, [Next]_vars
  PROVE  OneWriterInv'
<1> USE Statuses, Edges, ConstantsOK
    DEF TypeOK, LC!TypeOK, Process, Idle, At, ApiGoto, WorkerGoto,
        brokerVars, record, Record, FaultKinds,
        ApiInv, CancelInv, RecordInv, OnePlace, OneWriterInv, Holds
<1>1. ASSUME NEW t \in Tasks, Create(t) PROVE OneWriterInv'
  BY <1>1 DEF Create
<1>2. ASSUME NEW t \in Tasks, CancelTask(t) PROVE OneWriterInv'
  BY <1>2 DEF CancelTask
<1>3. CASE Publish
  BY <1>3 DEF Publish
<1>4. CASE Revoke
  BY <1>4 DEF Revoke, Broadcast
<1>5. CASE Terminate
  BY <1>5 DEF Terminate, Broadcast
<1>6. CASE CancelledGet
  BY <1>6 DEF CancelledGet
<1>7. CASE CancelledSet
  BY <1>7 DEF CancelledSet, Store
<1>8. ASSUME NEW w \in Workers, NEW t \in Tasks, Deliver(w, t) PROVE OneWriterInv'
  BY <1>8 DEF Deliver
<1>9. ASSUME NEW n \in Nodes, NEW t \in Tasks, Discard(n, t) PROVE OneWriterInv'
  BY <1>9 DEF Discard
<1>10. ASSUME NEW c \in ctl, HandleControl(c) PROVE OneWriterInv'
  BY <1>10 DEF HandleControl, Holds
<1>11. ASSUME NEW c \in ctl, LoseControl(c) PROVE OneWriterInv'
  BY <1>11 DEF LoseControl
<1>12. CASE PublishFails
  BY <1>12 DEF PublishFails, Strike
<1>13. CASE ApiAborts
  BY <1>13 DEF ApiAborts, Strike, Store
<1>14. ASSUME NEW w \in Workers, CallRaises(w) PROVE OneWriterInv'
  BY <1>14 DEF CallRaises, Strike, Store
<1>15. ASSUME NEW w \in Workers, Redeliver(w) PROVE OneWriterInv'
  BY <1>15 DEF Redeliver, Strike
<1>16. ASSUME NEW w \in Workers, Kill(w) PROVE OneWriterInv'
  BY <1>16 DEF Kill, Strike
<1>17. ASSUME NEW n \in Nodes, Crash(n) PROVE OneWriterInv'
  BY <1>17 DEF Crash, Strike
<1>18. ASSUME NEW t \in Tasks, Expire(t) PROVE OneWriterInv'
  BY <1>18 DEF Expire, Strike
<1>19. ASSUME NEW w \in Workers, Check(w) PROVE OneWriterInv'
  BY <1>19 DEF Check
<1>20. ASSUME NEW w \in Workers, RunningGet(w) PROVE OneWriterInv'
  BY <1>20, OneWriterGet DEF RunningGet
<1>21. ASSUME NEW w \in Workers, CompletedGet(w) PROVE OneWriterInv'
  BY <1>21, OneWriterGet DEF CompletedGet
<1>22. ASSUME NEW w \in Workers, FailedGet(w) PROVE OneWriterInv'
  BY <1>22, OneWriterGet DEF FailedGet
<1>23. ASSUME NEW w \in Workers, RunningSet(w) PROVE OneWriterInv'
  BY <1>23 DEF RunningSet, Set, Store
<1>24. ASSUME NEW w \in Workers, CompletedSet(w) PROVE OneWriterInv'
  BY <1>24 DEF CompletedSet, Set, Store
<1>25. ASSUME NEW w \in Workers, FailedSet(w) PROVE OneWriterInv'
  BY <1>25 DEF FailedSet, Set, Store
<1>26. ASSUME NEW w \in Workers, ExecuteReturns(w) PROVE OneWriterInv'
  BY <1>26 DEF ExecuteReturns
<1>27. ASSUME NEW w \in Workers, ExecuteRaises(w) PROVE OneWriterInv'
  BY <1>27 DEF ExecuteRaises
<1>28. ASSUME NEW w \in Workers, Ack(w) PROVE OneWriterInv'
  BY <1>28 DEF Ack
<1>29. CASE UNCHANGED vars
  BY <1>29 DEF vars
<1> QED
  BY <1>1, <1>2, <1>3, <1>4, <1>5, <1>6, <1>7, <1>8, <1>9, <1>10, <1>11, <1>12, <1>13, <1>14,
     <1>15, <1>16, <1>17, <1>18, <1>19, <1>20, <1>21, <1>22, <1>23, <1>24, <1>25, <1>26,
     <1>27, <1>28, <1>29
  DEF Next, Request, ApiStep, Take, ControlStep, Fault, WorkerStep

(* All of the strengthening together.                                      *)
QueueInv ==
  TypeOK /\ ApiInv /\ CancelInv /\ RecordInv /\ SettleInv /\ OnePlace /\ OneWriterInv

LEMMA QueueInvariant == Spec => []QueueInv
<1>1. Init => QueueInv
  BY TypeInit, Statuses
  DEF Init, Idle, QueueInv, ApiInv, CancelInv, RecordInv, SettleInv, OnePlace, OneWriterInv,
      Holds
<1>2. QueueInv /\ [Next]_vars => QueueInv'
  BY TypeStep, ApiStepInv, CancelStep, RecordStep, SettleStep, OnePlaceStep, OneWriterStep
  DEF QueueInv
<1> QED
  BY <1>1, <1>2, PTL DEF Spec

(* Late acknowledgement loses no task: without a killed process or a       *)
(* failing call, a record of a task nobody cancels that is not final has a *)
(* message or a handler, through any number of crashes and redeliveries.   *)
THEOREM AcksLateLosesNothing == Spec => []NothingLost
<1>1. QueueInv => NothingLost
  BY DEF QueueInv, SettleInv, NothingLost, WillSettle
<1> QED
  BY <1>1, QueueInvariant, PTL

(* A task is with one handler at a time unless its message is delivered    *)
(* again while a handler runs: neither a crash, a killed process, a        *)
(* failing publish nor a cancel makes two pool processes execute it at     *)
(* once (celery_app.py:25, dispatch_task.py:41).                           *)
THEOREM OneHandler ==
  Spec => [](faults["redeliver"] = 0 =>
               \A t \in Tasks, v, w \in Workers : Holds(v, t) /\ Holds(w, t) => v = w)
<1>1. QueueInv => (faults["redeliver"] = 0 =>
                     \A t \in Tasks, v, w \in Workers : Holds(v, t) /\ Holds(w, t) => v = w)
  BY DEF QueueInv, OnePlace
<1> QED
  BY <1>1, QueueInvariant, PTL

(* A record stays as it is, expires, is created or moves along one of the  *)
(* edges.                                                                  *)
ByTheEdge(t) ==
  \/ status'[t] \in {status[t], LC!Expired}
  \/ status[t] = LC!Absent /\ status'[t] = "queued"
  \/ <<status[t], status'[t]>> \in LC!Transitions

LEMMA EdgeStep ==
  ASSUME QueueInv, [Next]_vars, NEW o \in Tasks \ Cancellable,
         faults'["redeliver"] = 0, faults'["error"] = 0
  PROVE  ByTheEdge(o)
<1> DEFINE Kept == ByTheEdge(o)
<1> USE Statuses, Edges, ConstantsOK
    DEF TypeOK, LC!TypeOK, Process,
        brokerVars, record, Record, FaultKinds, QueueInv, ApiInv, CancelInv, OneWriterInv, Holds,
        ByTheEdge
<1>1. ASSUME NEW t \in Tasks, Create(t) PROVE Kept
  BY <1>1 DEF Create
<1>2. ASSUME NEW t \in Tasks, CancelTask(t) PROVE Kept
  BY <1>2 DEF CancelTask
<1>3. CASE Publish
  BY <1>3 DEF Publish
<1>4. CASE Revoke
  BY <1>4 DEF Revoke, Broadcast
<1>5. CASE Terminate
  BY <1>5 DEF Terminate, Broadcast
<1>6. CASE CancelledGet
  BY <1>6 DEF CancelledGet
<1>7. CASE CancelledSet
  BY <1>7 DEF CancelledSet, Store
<1>8. ASSUME NEW w \in Workers, NEW t \in Tasks, Deliver(w, t) PROVE Kept
  BY <1>8 DEF Deliver
<1>9. ASSUME NEW n \in Nodes, NEW t \in Tasks, Discard(n, t) PROVE Kept
  BY <1>9 DEF Discard
<1>10. ASSUME NEW c \in ctl, HandleControl(c) PROVE Kept
  BY <1>10 DEF HandleControl, Holds
<1>11. ASSUME NEW c \in ctl, LoseControl(c) PROVE Kept
  BY <1>11 DEF LoseControl
<1>12. CASE PublishFails
  BY <1>12 DEF PublishFails, Strike
<1>13. CASE ApiAborts
  BY <1>13 DEF ApiAborts, Strike, Store
<1>14. ASSUME NEW w \in Workers, CallRaises(w) PROVE Kept
  BY <1>14 DEF CallRaises, Strike, Store
<1>15. ASSUME NEW w \in Workers, Redeliver(w) PROVE Kept
  BY <1>15 DEF Redeliver, Strike
<1>16. ASSUME NEW w \in Workers, Kill(w) PROVE Kept
  BY <1>16 DEF Kill, Strike
<1>17. ASSUME NEW n \in Nodes, Crash(n) PROVE Kept
  BY <1>17 DEF Crash, Strike
<1>18. ASSUME NEW t \in Tasks, Expire(t) PROVE Kept
  BY <1>18 DEF Expire, Strike
<1>19. ASSUME NEW w \in Workers, Check(w) PROVE Kept
  BY <1>19 DEF Check
<1>20. ASSUME NEW w \in Workers, RunningGet(w) PROVE Kept
  BY <1>20 DEF RunningGet, Get
<1>21. ASSUME NEW w \in Workers, CompletedGet(w) PROVE Kept
  BY <1>21 DEF CompletedGet, Get
<1>22. ASSUME NEW w \in Workers, FailedGet(w) PROVE Kept
  BY <1>22 DEF FailedGet, Get
<1>23. ASSUME NEW w \in Workers, RunningSet(w) PROVE Kept
  BY <1>23 DEF RunningSet, Set, Store
<1>24. ASSUME NEW w \in Workers, CompletedSet(w) PROVE Kept
  BY <1>24 DEF CompletedSet, Set, Store
<1>25. ASSUME NEW w \in Workers, FailedSet(w) PROVE Kept
  BY <1>25 DEF FailedSet, Set, Store
<1>26. ASSUME NEW w \in Workers, ExecuteReturns(w) PROVE Kept
  BY <1>26 DEF ExecuteReturns
<1>27. ASSUME NEW w \in Workers, ExecuteRaises(w) PROVE Kept
  BY <1>27 DEF ExecuteRaises
<1>28. ASSUME NEW w \in Workers, Ack(w) PROVE Kept
  BY <1>28 DEF Ack
<1>29. CASE UNCHANGED vars
  BY <1>29 DEF vars
<1> QED
  BY <1>1, <1>2, <1>3, <1>4, <1>5, <1>6, <1>7, <1>8, <1>9, <1>10, <1>11, <1>12, <1>13, <1>14,
     <1>15, <1>16, <1>17, <1>18, <1>19, <1>20, <1>21, <1>22, <1>23, <1>24, <1>25, <1>26,
     <1>27, <1>28, <1>29
  DEF Next, Request, ApiStep, Take, ControlStep, Fault, WorkerStep

EdgesUnlessRaced ==
  [][\A t \in Tasks \ Cancellable :
       faults'["redeliver"] = 0 /\ faults'["error"] = 0 => ByTheEdge(t)]_vars

(* Where nobody cancels a task, nothing is redelivered and no call raises, *)
(* _VALID_TRANSITIONS is kept even though an update is a GET and a SET,    *)
(* through killed processes, node crashes and expiry: the copy checked is  *)
(* the record that is replaced (repository.py:12).                         *)
THEOREM OneWriterKeepsEdges == Spec => EdgesUnlessRaced
<1>1. QueueInv /\ [Next]_vars =>
        [\A t \in Tasks \ Cancellable :
           faults'["redeliver"] = 0 /\ faults'["error"] = 0 => ByTheEdge(t)]_vars
  BY EdgeStep
<1> QED
  BY <1>1, QueueInvariant, PTL DEF Spec, EdgesUnlessRaced

(* The record of a task nobody cancels has one writer at a time while      *)
(* nothing is redelivered and no call raises, so its final status stands:  *)
(* it has no edge left.                                                    *)
THEOREM OneWriterIsFinal == Spec => FinalUnlessRaced
<1>1. QueueInv /\ [Next]_vars =>
        [\A t \in Tasks \ Cancellable :
           /\ status[t] \in Terminal
           /\ faults'["redeliver"] = 0 /\ faults'["error"] = 0
           => status'[t] \in {status[t], LC!Expired}]_vars
  <2>1. ASSUME NEW t \in Tasks, status[t] \in Terminal, ByTheEdge(t)
        PROVE  status'[t] \in {status[t], LC!Expired}
    BY <2>1, Edges, Statuses DEF ByTheEdge
  <2> QED BY <2>1, EdgeStep
<1> QED
  BY <1>1, QueueInvariant, PTL DEF Spec, FinalUnlessRaced
=============================================================================
