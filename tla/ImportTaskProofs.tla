-------------------------- MODULE ImportTaskProofs --------------------------
(***************************************************************************)
(* Proofs about ImportTask, for any number of requests, pool processes and *)
(* faults.                                                                 *)
(***************************************************************************)
EXTENDS ImportTask, TLAPS

USE ConstantsOK DEF ConstantsOK

(* The steps at which a script is selected, and those at which an own one  *)
(* has passed the guard.                                                   *)
Checked == {"manifest", "run", "hash", "store", "persist"}
Selected == {"validate"} \cup Checked

(* What an execution e says of the custom parser to come, when the imports *)
(* s are stored.                                                           *)
Sound(e, s) ==
  /\ e.pc # "idle" => e.req \in Requests
  /\ e.source = "own" => e.req \in Own
  /\ e.pc \in Selected => e.source # None
  /\ e.pc \in Checked /\ e.source = "own" => e.req \notin risky
  /\ e.pc = "persist" => e.source = "own" /\ e.req \in s
  /\ e.ran \notin risky

AllSound == \A w \in Workers : Sound(work[w], stored)

Inv == TypeOK /\ AllSound /\ OnlyProven

(* A process that goes on with a sound execution leaves all of them sound. *)
LEMMA BecomesSound ==
  ASSUME Inv, risky' = risky, NEW w \in Workers, NEW e \in Execution, Becomes(w, e),
         Sound(e, stored'), stored \subseteq stored'
  PROVE  work' \in [Workers -> Execution] /\ AllSound'
<1>1. work' = [work EXCEPT ![w] = e] /\ work \in [Workers -> Execution]
  BY DEF Becomes, Inv, TypeOK
<1>2. work' \in [Workers -> Execution]
  BY <1>1
<1>3. ASSUME NEW v \in Workers PROVE Sound(work'[v], stored')
  <2>1. CASE v = w
    BY <1>1, <2>1
  <2>2. CASE v # w
    <3>1. work'[v] = work[v] /\ Sound(work[v], stored)
      BY <1>1, <2>2 DEF Inv, AllSound
    <3> QED BY <3>1 DEF Sound
  <2> QED BY <2>1, <2>2
<1> QED BY <1>2, <1>3 DEF AllSound, Sound

(* Only the step changes in Goto, the step and the verdict in Fail.        *)
LEMMA GotoSound ==
  ASSUME Inv, risky' = risky, NEW w \in Workers, NEW s \in Steps, Goto(w, s),
         stored \subseteq stored',
         work[w].pc # "idle",
         s \in Selected => work[w].source # None,
         s \in Checked /\ work[w].source = "own" => work[w].req \notin risky,
         s = "persist" => work[w].source = "own" /\ work[w].req \in stored'
  PROVE  work' \in [Workers -> Execution] /\ AllSound'
<1> DEFINE e == [work[w] EXCEPT !.pc = s]
<1>1. work[w] \in Execution /\ Sound(work[w], stored)
  BY DEF Inv, TypeOK, AllSound
<1>2. /\ e \in Execution /\ e.pc = s /\ e.req = work[w].req
      /\ e.source = work[w].source /\ e.ran = work[w].ran
  BY <1>1 DEF Execution
<1>3. Becomes(w, e)
  BY DEF Goto
<1> HIDE DEF e
<1>4. Sound(e, stored')
  BY <1>1, <1>2 DEF Sound
<1> QED BY <1>2, <1>3, <1>4, BecomesSound

LEMMA FailSound ==
  ASSUME Inv, risky' = risky, NEW w \in Workers, Fail(w), work[w].pc # "idle",
         stored' = stored
  PROVE  work' \in [Workers -> Execution] /\ AllSound'
<1> DEFINE e == [work[w] EXCEPT !.pc = "cleanup", !.failed = TRUE]
<1>1. work[w] \in Execution /\ Sound(work[w], stored)
  BY DEF Inv, TypeOK, AllSound
<1>2. /\ e \in Execution /\ e.pc = "cleanup" /\ e.req = work[w].req
      /\ e.source = work[w].source /\ e.ran = work[w].ran
  BY <1>1 DEF Execution, Steps
<1>3. Becomes(w, e)
  BY DEF Fail
<1> HIDE DEF e
<1>4. Sound(e, stored')
  BY <1>1, <1>2 DEF Sound, Selected, Checked
<1> QED BY <1>2, <1>3, <1>4, BecomesSound

LEMMA IdleSound ==
  ASSUME risky \subseteq Own
  PROVE  Idle \in Execution /\ Sound(Idle, stored) /\ Sound(Idle, stored')
  BY DEF Idle, Execution, Sound, Selected, Checked, Scripts, Own

(* What an execution that selected a script finds there.                   *)
LEMMA ScriptSound ==
  ASSUME Inv, NEW w \in Workers, work[w].pc \in Selected
  PROVE  /\ Script(w) \in Scripts
         /\ work[w].source # "own" /\ work[w].source # None => Script(w) \notin risky
         /\ Script(w) # None /\ work[w].source = "own" => Script(w) = work[w].req
         /\ work[w].pc \in Checked => Script(w) \notin risky
<1>1. /\ work[w] \in Execution /\ Sound(work[w], stored) /\ custom \in Own \cup {None}
      /\ work[w].source \in {"own", "custom", "default", None}
      /\ custom # None => custom \notin risky
  BY DEF Inv, TypeOK, AllSound, OnlyProven, Execution
<1>2. Default \notin risky /\ None \notin risky
  BY DEF Inv, TypeOK, Own
<1>3. work[w].source # None /\ (work[w].source = "own" => work[w].req \in Own)
  BY <1>1 DEF Sound
<1>4. CASE work[w].source = "own"
  <2>1. Script(w) \in {work[w].req, None}
    BY <1>4 DEF Script
  <2> QED BY <1>1, <1>2, <1>3, <1>4, <2>1 DEF Scripts, Sound
<1>5. CASE work[w].source = "custom"
  <2>1. Script(w) = custom
    BY <1>5 DEF Script
  <2> QED BY <1>1, <1>2, <1>5, <2>1 DEF Scripts
<1>6. CASE work[w].source = "default"
  <2>1. Script(w) = Default
    BY <1>6 DEF Script
  <2> QED BY <1>2, <1>6, <2>1 DEF Scripts
<1> QED BY <1>1, <1>3, <1>4, <1>5, <1>6

-----------------------------------------------------------------------------
LEMMA InvInit == Init => Inv
<1> SUFFICES ASSUME Init PROVE Inv
  OBVIOUS
<1>1. (\A w \in Workers : work[w] = Idle) /\ risky \subseteq Own
  BY DEF Init
<1>2. AllSound
  BY <1>1, IdleSound DEF AllSound
<1>3. TypeOK
  BY <1>1, IdleSound DEF Init, TypeOK
<1>4. OnlyProven
  BY DEF Init, OnlyProven
<1> QED BY <1>2, <1>3, <1>4 DEF Inv

(* The directories, the messages and the API's progress keep their types.  *)
LEMMA SurroundingsType ==
  ASSUME TypeOK, [Next]_vars
  PROVE  /\ req' \in [Requests -> {"new", "saved", "submitting", "failing", "accepted", "over"}]
         /\ dir' \in [Requests -> SUBSET Content]
         /\ old' \subseteq Requests /\ doomed' \subseteq Requests
         /\ faults' \in 0..MaxFaults
<1> USE DEF TypeOK
<1>1. CASE UNCHANGED vars
  BY <1>1 DEF vars
<1>2. ASSUME NEW r \in Requests, Save(r) \/ ApiStep(r) \/ Age(r) \/ Inspect(r) \/ Sweep(r) \/ ApiDies(r)
      PROVE  /\ req' \in [Requests -> {"new", "saved", "submitting", "failing", "accepted", "over"}]
             /\ dir' \in [Requests -> SUBSET Content]
             /\ old' \subseteq Requests /\ doomed' \subseteq Requests
             /\ faults' \in 0..MaxFaults
  BY <1>2 DEF Save, ApiStep, Age, Inspect, Expired, Sweep, ApiDies, Validated, Rejected, Submit,
     SubmitFails, Cancelled, ReqGoto, Remove, Content
<1>3. ASSUME NEW w \in Workers,
             WorkerStep(w) \/ Terminated(w) \/ Dies(w) \/ Redeliver(w) \/ \E r \in Requests : Take(w, r)
      PROVE  /\ req' = req /\ doomed' = doomed /\ old' \subseteq old
             /\ dir' \in [Requests -> SUBSET Content]
             /\ faults' \in 0..MaxFaults
  <2>1. CASE Select(w)
    BY <2>1 DEF Select, Content
  <2>2. CASE Manifest(w)
    BY <2>2 DEF Manifest, Content
  <2>3. CASE Cleanup(w)
    BY <2>3 DEF Cleanup, Remove
  <2>4. CASE Validate(w) \/ Run(w) \/ Hash(w) \/ Stores(w) \/ Persist(w) \/ Raise(w)
    BY <2>4 DEF Validate, Run, Hash, Stores, Persist, Raise
  <2>5. CASE Terminated(w) \/ Dies(w) \/ Redeliver(w)
    BY <2>5 DEF Terminated, Dies, Redeliver
  <2>6. CASE \E r \in Requests : Take(w, r)
    BY <2>6 DEF Take
  <2> QED BY <1>3, <2>1, <2>2, <2>3, <2>4, <2>5, <2>6 DEF WorkerStep
<1> QED BY <1>1, <1>2, <1>3 DEF Next, Fault

(* Every step of an execution.                                             *)
LEMMA WorkerSound ==
  ASSUME Inv, risky' = risky, NEW w \in Workers,
         WorkerStep(w) \/ Terminated(w) \/ Dies(w) \/ Redeliver(w) \/ \E r \in Requests : Take(w, r)
  PROVE  /\ work' \in [Workers -> Execution] /\ AllSound' /\ OnlyProven'
         /\ takes' \in [Requests -> Nat] /\ message' \subseteq Requests
         /\ custom' \in Own \cup {None} /\ stored' \subseteq Requests
         /\ log' \subseteq (Scripts \X Scripts)
<1> DEFINE e == work[w]
<1>0. /\ e \in Execution /\ Sound(e, stored) /\ TypeOK /\ OnlyProven
      /\ e.pc \in {"idle"} \cup Steps /\ e.ran \in Scripts /\ e.sha \in Scripts
      /\ e.req \in Requests \cup {None} /\ risky \subseteq Own
  BY DEF Inv, TypeOK, AllSound, Execution
<1>1. ASSUME NEW r \in Requests, Take(w, r)
      PROVE  /\ work' \in [Workers -> Execution] /\ AllSound'
             /\ takes' \in [Requests -> Nat] /\ message' \subseteq Requests
             /\ UNCHANGED <<custom, stored, log>>
  <2> DEFINE t == [Idle EXCEPT !.pc = "select", !.req = r]
  <2>1. t \in Execution /\ Sound(t, stored)
    <3>1. Idle \in Execution /\ Idle.source = None /\ Idle.ran = None
      BY <1>0, IdleSound DEF Idle
    <3>2. /\ t \in Execution /\ t.pc = "select" /\ t.req = r
          /\ t.source = None /\ t.ran = None
      BY <3>1 DEF Execution, Steps
    <3> HIDE DEF t
    <3> QED BY <1>0, <3>2 DEF Sound, Selected, Checked, Own
  <2>2. stored' = stored /\ Becomes(w, t)
    BY <1>1 DEF Take
  <2> HIDE DEF t
  <2>3. work' \in [Workers -> Execution] /\ AllSound'
    BY <2>1, <2>2, BecomesSound
  <2>4. takes' = [takes EXCEPT ![r] = @ + 1] /\ takes \in [Requests -> Nat]
    BY <1>0, <1>1 DEF Take, TypeOK
  <2>5. takes' \in [Requests -> Nat]
    BY <2>4
  <2>6. message' \subseteq Requests /\ UNCHANGED <<custom, stored, log>>
    BY <1>0, <1>1 DEF Take, TypeOK
  <2> QED BY <2>3, <2>5, <2>6
<1>2. CASE Select(w)
  <2>1. PICK s \in {"own", "custom", "default"} :
          /\ Becomes(w, [e EXCEPT !.pc = "validate", !.source = s])
          /\ s = "own" => e.req \in Own
    BY <1>2 DEF Select, Own
  <2> DEFINE t == [e EXCEPT !.pc = "validate", !.source = s]
  <2>2. t \in Execution /\ t.pc = "validate" /\ t.req = e.req /\ t.source = s /\ t.ran = e.ran
    BY <1>0 DEF Execution, Steps
  <2>3. stored' = stored /\ e.pc # "idle"
    BY <1>2 DEF Select, At
  <2> HIDE DEF t
  <2>4. Sound(t, stored)
    BY <1>0, <2>1, <2>2, <2>3 DEF Sound, Checked
  <2>5. work' \in [Workers -> Execution] /\ AllSound'
    BY <2>1, <2>2, <2>3, <2>4, BecomesSound DEF t
  <2> QED BY <1>0, <1>2, <2>5 DEF Select, TypeOK, OnlyProven
<1>3. CASE Validate(w)
  <2>1. e.pc = "validate" /\ e.source # None /\ stored' = stored
    BY <1>0, <1>3 DEF Validate, At, Sound, Selected
  <2>2. CASE Fail(w)
    <3>1. work' \in [Workers -> Execution] /\ AllSound'
      BY <2>1, <2>2, FailSound
    <3> QED BY <1>0, <1>3, <3>1 DEF Validate, TypeOK, OnlyProven
  <2>3. CASE Goto(w, "manifest") /\ ~Fail(w)
    <3>1. e.source = "own" => e.req \notin risky
      BY <1>3, <2>1, <2>3, ScriptSound DEF Validate, Selected
    <3>2. work' \in [Workers -> Execution] /\ AllSound'
      BY <2>1, <2>3, <3>1, GotoSound DEF Steps
    <3> QED BY <1>0, <1>3, <3>2 DEF Validate, TypeOK, OnlyProven
  <2> QED BY <1>3, <2>2, <2>3 DEF Validate
<1>4. CASE Manifest(w)
  <2> DEFINE t == [e EXCEPT !.pc = "run", !.intact = Safe(e.req)]
  <2>1. /\ t \in Execution /\ t.pc = "run" /\ t.req = e.req /\ t.source = e.source
        /\ t.ran = e.ran
    BY <1>0 DEF Execution, Steps, Safe
  <2>2. stored' = stored /\ e.pc = "manifest" /\ Becomes(w, t)
    BY <1>4 DEF Manifest, At
  <2> HIDE DEF t
  <2>3. Sound(t, stored)
    BY <1>0, <2>1, <2>2 DEF Sound, Selected, Checked
  <2>4. work' \in [Workers -> Execution] /\ AllSound'
    BY <2>1, <2>2, <2>3, BecomesSound
  <2> QED BY <1>0, <1>4, <2>4 DEF Manifest, TypeOK, OnlyProven
<1>5. CASE Run(w)
  <2> DEFINE t == [e EXCEPT !.pc = "hash", !.ran = Script(w)]
  <2>1. e.pc = "run" /\ Script(w) \in Scripts /\ Script(w) \notin risky
    BY <1>5, ScriptSound DEF Run, At, Selected, Checked
  <2>2. /\ t \in Execution /\ t.pc = "hash" /\ t.req = e.req /\ t.source = e.source
        /\ t.ran = Script(w)
    BY <1>0, <2>1 DEF Execution, Steps
  <2>3. stored' = stored /\ Becomes(w, t)
    BY <1>5 DEF Run
  <2> HIDE DEF t
  <2>4. Sound(t, stored)
    BY <1>0, <2>1, <2>2 DEF Sound, Selected, Checked
  <2>5. work' \in [Workers -> Execution] /\ AllSound'
    BY <2>2, <2>3, <2>4, BecomesSound
  <2> QED BY <1>0, <1>5, <2>5 DEF Run, TypeOK, OnlyProven
<1>6. CASE Hash(w)
  <2>1. e.pc = "hash" /\ stored' = stored /\ Script(w) \in Scripts
    BY <1>6, ScriptSound DEF Hash, At, Selected, Checked
  <2>2. CASE Fail(w)
    <3>1. work' \in [Workers -> Execution] /\ AllSound'
      BY <2>1, <2>2, FailSound
    <3> QED BY <1>0, <1>6, <3>1 DEF Hash, TypeOK, OnlyProven
  <2>3. CASE Becomes(w, [e EXCEPT !.pc = "store", !.sha = Script(w)])
    <3> DEFINE t == [e EXCEPT !.pc = "store", !.sha = Script(w)]
    <3>1. /\ t \in Execution /\ t.pc = "store" /\ t.req = e.req /\ t.source = e.source
          /\ t.ran = e.ran
      BY <1>0, <2>1 DEF Execution, Steps
    <3> HIDE DEF t
    <3>2. Sound(t, stored)
      BY <1>0, <2>1, <3>1 DEF Sound, Selected, Checked
    <3>3. work' \in [Workers -> Execution] /\ AllSound'
      BY <2>1, <2>3, <3>1, <3>2, BecomesSound DEF t
    <3> QED BY <1>0, <1>6, <3>3 DEF Hash, TypeOK, OnlyProven
  <2> QED BY <1>6, <2>2, <2>3 DEF Hash
<1>7. CASE Stores(w)
  <2>1. /\ e.pc = "store" /\ e.req \in Requests
        /\ stored' = stored \cup {e.req} /\ log' = log \cup {<<e.ran, e.sha>>}
    BY <1>0, <1>7 DEF Stores, At, Sound
  <2> DEFINE s == IF e.source = "own" THEN "persist" ELSE "cleanup"
  <2>2. /\ s \in Steps /\ Goto(w, s)
        /\ s = "persist" => e.source = "own"
        /\ s \in Checked => s = "persist"
        /\ s \in Selected => s = "persist"
    BY <1>7 DEF Stores, Steps, Checked, Selected
  <2>3. e.source # None /\ (e.source = "own" => e.req \notin risky)
    BY <1>0, <2>1 DEF Sound, Checked, Selected
  <2> HIDE DEF s
  <2>4. work' \in [Workers -> Execution] /\ AllSound'
    BY <2>1, <2>2, <2>3, GotoSound
  <2>5. log' \subseteq (Scripts \X Scripts) /\ stored' \subseteq Requests
    BY <1>0, <2>1 DEF TypeOK
  <2> QED BY <1>0, <1>7, <2>1, <2>4, <2>5 DEF Stores, TypeOK, OnlyProven
<1>8. CASE Persist(w)
  <2>1. /\ e.pc = "persist" /\ stored' = stored
        /\ e.req \in Own /\ e.req \in stored /\ e.req \notin risky
    BY <1>0, <1>8 DEF Persist, At, Sound, Checked
  <2>2. CASE Fail(w) /\ UNCHANGED custom
    <3>1. work' \in [Workers -> Execution] /\ AllSound'
      BY <2>1, <2>2, FailSound
    <3> QED BY <1>0, <1>8, <2>2, <3>1 DEF Persist, TypeOK, OnlyProven
  <2>3. CASE custom' = e.req /\ Goto(w, "cleanup")
    <3>1. work' \in [Workers -> Execution] /\ AllSound'
      BY <2>1, <2>3, GotoSound DEF Steps, Checked, Selected
    <3> QED BY <1>0, <1>8, <2>1, <2>3, <3>1 DEF Persist, TypeOK, OnlyProven
  <2> QED BY <1>8, <2>2, <2>3 DEF Persist
<1>9. CASE Raise(w)
  <2>1. work' \in [Workers -> Execution] /\ AllSound'
    BY <1>9, FailSound DEF Raise, Steps
  <2> QED BY <1>0, <1>9, <2>1 DEF Raise, TypeOK, OnlyProven
<1>10. CASE Terminated(w)
  <2>1. work' \in [Workers -> Execution] /\ AllSound'
    BY <1>10, GotoSound DEF Terminated, Steps, Checked, Selected
  <2> QED BY <1>0, <1>10, <2>1 DEF Terminated, TypeOK, OnlyProven
<1>11. CASE Cleanup(w) \/ Dies(w)
  <2>1. stored' = stored /\ Becomes(w, Idle)
    BY <1>11 DEF Cleanup, Dies
  <2>2. work' \in [Workers -> Execution] /\ AllSound'
    BY <1>0, <2>1, IdleSound, BecomesSound
  <2>3. e.pc # "idle" => e.req \in Requests
    BY <1>0 DEF Sound
  <2> QED BY <1>0, <1>11, <2>2, <2>3 DEF Cleanup, Dies, At, TypeOK, OnlyProven
<1>12. CASE Redeliver(w)
  <2>1. e.pc # "idle" => e.req \in Requests
    BY <1>0 DEF Sound
  <2>2. UNCHANGED <<work, custom, stored, takes, log>>
    BY <1>12 DEF Redeliver, taskVars
  <2>3. AllSound' /\ OnlyProven'
    BY <2>2 DEF Inv, AllSound, OnlyProven, Sound
  <2> QED BY <1>0, <1>12, <2>1, <2>2, <2>3 DEF Redeliver, At, TypeOK
<1>13. CASE \E r \in Requests : Take(w, r)
  BY <1>0, <1>1, <1>13 DEF TypeOK, OnlyProven
<1> QED BY <1>2, <1>3, <1>4, <1>5, <1>6, <1>7, <1>8, <1>9, <1>10, <1>11, <1>12, <1>13
       DEF WorkerStep

(* What the guard says of a script does not change.                        *)
LEMMA RiskyKept ==
  ASSUME [Next]_vars
  PROVE  risky' = risky
<1>1. CASE UNCHANGED vars
  BY <1>1 DEF vars
<1>2. ASSUME NEW r \in Requests,
             Save(r) \/ ApiStep(r) \/ Age(r) \/ Inspect(r) \/ Sweep(r) \/ ApiDies(r)
      PROVE  risky' = risky
  BY <1>2 DEF Save, ApiStep, Age, Inspect, Sweep, ApiDies, Validated, Rejected, Submit,
     SubmitFails, Cancelled
<1>3. ASSUME NEW w \in Workers,
             WorkerStep(w) \/ Terminated(w) \/ Dies(w) \/ Redeliver(w) \/ \E r \in Requests : Take(w, r)
      PROVE  risky' = risky
  BY <1>3 DEF WorkerStep, Select, Validate, Manifest, Run, Hash, Stores, Persist, Raise,
     Cleanup, Terminated, Dies, Redeliver, Take
<1> QED BY <1>1, <1>2, <1>3 DEF Next, Fault

LEMMA InvStep == Inv /\ [Next]_vars => Inv'
<1> SUFFICES ASSUME Inv, [Next]_vars PROVE Inv'
  OBVIOUS
<1>0. risky' = risky
  BY RiskyKept
<1>1. ASSUME NEW r \in Requests,
             Save(r) \/ ApiStep(r) \/ Age(r) \/ Inspect(r) \/ Sweep(r) \/ ApiDies(r)
      PROVE  UNCHANGED taskVars /\ message' \subseteq Requests
  BY <1>1 DEF Inv, TypeOK, Save, ApiStep, Age, Inspect, Expired, Sweep, ApiDies, Validated,
     Rejected, Submit, SubmitFails, Cancelled
<1>2. CASE UNCHANGED taskVars /\ message' \subseteq Requests
  <2>1. AllSound' /\ OnlyProven'
    BY <1>0, <1>2 DEF Inv, AllSound, OnlyProven, Sound, taskVars
  <2> QED BY <1>0, <1>2, <2>1, SurroundingsType DEF Inv, TypeOK, taskVars
<1>3. CASE UNCHANGED vars
  BY <1>2, <1>3 DEF vars, Inv, TypeOK
<1>4. ASSUME NEW w \in Workers,
             WorkerStep(w) \/ Terminated(w) \/ Dies(w) \/ Redeliver(w) \/ \E r \in Requests : Take(w, r)
      PROVE  Inv'
  BY <1>0, <1>4, WorkerSound, SurroundingsType DEF Inv, TypeOK
<1> QED BY <1>1, <1>2, <1>3, <1>4 DEF Next, Fault

LEMMA Invariant == Spec => []Inv
<1>1. Init => Inv
  BY InvInit
<1>2. Inv /\ [Next]_vars => Inv'
  BY InvStep
<1> QED BY <1>1, <1>2, PTL DEF Spec

(* Type correctness of requests, directories and executions.               *)
THEOREM TypeCorrect == Spec => []TypeOK
<1>1. Inv => TypeOK
  BY DEF Inv
<1> QED BY <1>1, Invariant, PTL

(* A failed import never replaces the custom parser, and the guard has     *)
(* seen it.                                                                *)
THEOREM CustomIsProven == Spec => []OnlyProven
<1>1. Inv => OnlyProven
  BY DEF Inv
<1> QED BY <1>1, Invariant, PTL

(* No execution runs a script the guard refuses, although it looks at the  *)
(* path of the script twice.                                               *)
THEOREM RunIsValidated == Spec => []RunsOnlyValidated
<1>1. Inv => RunsOnlyValidated
  BY DEF Inv, AllSound, Sound, RunsOnlyValidated
<1> QED BY <1>1, Invariant, PTL

-----------------------------------------------------------------------------
(* The recorded digest.                                                    *)

Proven == stored \ risky

(* Scripts a and b are the same one, or were both the custom parser.       *)
Alike(a, b) == a = b \/ {a, b} \subseteq Proven

(* What ran in an execution, by the kind of script that was selected.      *)
RanSound(e) ==
  /\ e.pc = "hash" => CASE e.source = "own"     -> e.ran = e.req
                        [] e.source = "default" -> e.ran = Default
                        [] OTHER                -> e.ran \in Proven
  /\ e.pc = "store" => Alike(e.ran, e.sha)

AllRan == \A w \in Workers : RanSound(work[w])

DigestInv == Inv /\ AllRan /\ RecordedUnlessReplaced

LEMMA ProvenGrows ==
  ASSUME Inv, [Next]_vars
  PROVE  Proven \subseteq Proven'
<1>1. stored \subseteq stored'
  <2>1. ASSUME NEW w \in Workers,
               WorkerStep(w) \/ Terminated(w) \/ Dies(w) \/ Redeliver(w) \/ \E r \in Requests : Take(w, r)
        PROVE  stored \subseteq stored'
    BY <2>1 DEF WorkerStep, Select, Validate, Manifest, Run, Hash, Stores, Persist, Raise,
       Cleanup, Terminated, Dies, Redeliver, Take, taskVars
  <2>2. ASSUME NEW r \in Requests,
               Save(r) \/ ApiStep(r) \/ Age(r) \/ Inspect(r) \/ Sweep(r) \/ ApiDies(r)
        PROVE  stored \subseteq stored'
    BY <2>2 DEF Save, ApiStep, Age, Inspect, Sweep, ApiDies, Validated, Rejected, Submit,
       SubmitFails, Cancelled, taskVars
  <2>3. CASE UNCHANGED vars
    BY <2>3 DEF vars, taskVars
  <2> QED BY <2>1, <2>2, <2>3 DEF Next, Fault
<1> QED BY <1>1, RiskyKept DEF Proven

(* What the script of an execution is.                                     *)
LEMMA ScriptOf ==
  ASSUME Inv, NEW w \in Workers, work[w].pc \in {"run", "hash"}, Script(w) # None
  PROVE  /\ work[w].source \in {"own", "default", "custom"}
         /\ work[w].source = "own" => Script(w) = work[w].req
         /\ work[w].source = "default" => Script(w) = Default
         /\ work[w].source = "custom" => Script(w) \in Proven
<1>1. /\ work[w] \in Execution /\ Sound(work[w], stored) /\ OnlyProven
      /\ work[w].source \in {"own", "custom", "default", None} /\ work[w].source # None
  BY DEF Inv, TypeOK, AllSound, Execution, Sound, Selected, Checked
<1> QED BY <1>1 DEF Script, OnlyProven, Proven

(* The execution that goes on is sound when it has run and when it has     *)
(* read the script again.                                                  *)
LEMMA RanStep ==
  ASSUME DigestInv, NEW w \in Workers,
         WorkerStep(w) \/ Terminated(w) \/ Dies(w) \/ Redeliver(w) \/ \E r \in Requests : Take(w, r)
  PROVE  /\ RanSound(work'[w])
         /\ \A v \in Workers \ {w} : work'[v] = work[v]
         /\ \A x \in log' \ log : Alike(x[1], x[2])
<1>1. /\ work[w] \in Execution /\ RanSound(work[w]) /\ work \in [Workers -> Execution] /\ Inv
  BY DEF DigestInv, Inv, TypeOK, AllRan
<1>2. CASE Run(w)
  <2>1. /\ work' = [work EXCEPT ![w] = [work[w] EXCEPT !.pc = "hash", !.ran = Script(w)]]
        /\ log' = log /\ work[w].pc = "run" /\ Script(w) # None
    BY <1>2 DEF Run, Becomes, At
  <2>2. /\ work'[w].pc = "hash" /\ work'[w].ran = Script(w) /\ work'[w].req = work[w].req
        /\ work'[w].source = work[w].source
    BY <1>1, <2>1 DEF Execution
  <2> QED BY <1>1, <2>1, <2>2, ScriptOf DEF RanSound
<1>3. CASE Hash(w)
  <2>1. work[w].pc = "hash" /\ log' = log
    BY <1>3 DEF Hash, At
  <2>2. CASE Script(w) = None
    <3>1. work' = [work EXCEPT ![w] = [work[w] EXCEPT !.pc = "cleanup", !.failed = TRUE]]
      BY <1>3, <2>2 DEF Hash, Fail, Becomes
    <3>2. work'[w].pc = "cleanup"
      BY <1>1, <3>1 DEF Execution
    <3> QED BY <1>1, <2>1, <3>1, <3>2 DEF RanSound
  <2>3. CASE Script(w) # None
    <3>1. work' = [work EXCEPT ![w] = [work[w] EXCEPT !.pc = "store", !.sha = Script(w)]]
      BY <1>3, <2>3 DEF Hash, Becomes
    <3>2. work'[w].pc = "store" /\ work'[w].sha = Script(w) /\ work'[w].ran = work[w].ran
      BY <1>1, <3>1 DEF Execution
    <3>3. Alike(work[w].ran, Script(w))
      BY <1>1, <2>1, <2>3, ScriptOf DEF RanSound, Alike
    <3> QED BY <1>1, <2>1, <3>1, <3>2, <3>3 DEF RanSound
  <2> QED BY <2>2, <2>3
<1>4. CASE Stores(w)
  <2>1. PICK s \in {"persist", "cleanup"} : work' = [work EXCEPT ![w] = [work[w] EXCEPT !.pc = s]]
    BY <1>4 DEF Stores, Goto, Becomes
  <2>2. work'[w].pc \in {"persist", "cleanup"}
    BY <1>1, <2>1 DEF Execution
  <2>3. work[w].pc = "store" /\ log' = log \cup {<<work[w].ran, work[w].sha>>}
    BY <1>4 DEF Stores, At
  <2> QED BY <1>1, <2>1, <2>2, <2>3 DEF RanSound
<1>5. CASE Redeliver(w)
  BY <1>1, <1>5 DEF Redeliver, taskVars
<1>6. CASE \/ Select(w) \/ Validate(w) \/ Manifest(w) \/ Persist(w) \/ Raise(w) \/ Cleanup(w)
           \/ Terminated(w) \/ Dies(w) \/ \E r \in Requests : Take(w, r)
  <2>1. log' = log
    BY <1>6 DEF Select, Validate, Manifest, Persist, Raise, Cleanup, Terminated, Dies, Take
  <2>2. ASSUME NEW e, Becomes(w, e), e.pc \notin {"hash", "store"}
        PROVE  RanSound(work'[w]) /\ \A v \in Workers \ {w} : work'[v] = work[v]
    BY <1>1, <2>2 DEF Becomes, RanSound
  <2>3. ASSUME NEW s \in {"manifest", "cleanup"}, Goto(w, s)
        PROVE  RanSound(work'[w]) /\ \A v \in Workers \ {w} : work'[v] = work[v]
    <3>1. [work[w] EXCEPT !.pc = s].pc = s
      BY <1>1 DEF Execution
    <3> QED BY <2>2, <2>3, <3>1 DEF Goto
  <2>4. ASSUME Fail(w)
        PROVE  RanSound(work'[w]) /\ \A v \in Workers \ {w} : work'[v] = work[v]
    <3>1. [work[w] EXCEPT !.pc = "cleanup", !.failed = TRUE].pc = "cleanup"
      BY <1>1 DEF Execution
    <3> QED BY <2>2, <2>4, <3>1 DEF Fail
  <2>5. CASE Select(w)
    <3>1. PICK s \in {"own", "custom", "default"} :
            Becomes(w, [work[w] EXCEPT !.pc = "validate", !.source = s])
      BY <2>5 DEF Select
    <3>2. [work[w] EXCEPT !.pc = "validate", !.source = s].pc = "validate"
      BY <1>1 DEF Execution
    <3> QED BY <2>1, <2>2, <3>1, <3>2
  <2>6. CASE Manifest(w)
    <3>1. Becomes(w, [work[w] EXCEPT !.pc = "run", !.intact = Safe(work[w].req)])
      BY <2>6 DEF Manifest
    <3>2. [work[w] EXCEPT !.pc = "run", !.intact = Safe(work[w].req)].pc = "run"
      BY <1>1 DEF Execution
    <3> QED BY <2>1, <2>2, <3>1, <3>2
  <2>7. CASE Cleanup(w) \/ Dies(w)
    <3>1. Becomes(w, Idle) /\ Idle.pc = "idle"
      BY <2>7 DEF Cleanup, Dies, Idle
    <3> QED BY <2>1, <2>2, <3>1
  <2>8. ASSUME NEW r \in Requests, Take(w, r)
        PROVE  RanSound(work'[w]) /\ \A v \in Workers \ {w} : work'[v] = work[v]
    <3>1. Becomes(w, [Idle EXCEPT !.pc = "select", !.req = r])
      BY <2>8 DEF Take
    <3>2. [Idle EXCEPT !.pc = "select", !.req = r].pc = "select"
      BY DEF Idle
    <3> QED BY <2>2, <3>1, <3>2
  <2>9. CASE Validate(w) \/ Persist(w) \/ Raise(w) \/ Terminated(w)
    <3>1. Fail(w) \/ \E s \in {"manifest", "cleanup"} : Goto(w, s)
      BY <2>9 DEF Validate, Persist, Raise, Terminated
    <3> QED BY <2>1, <2>3, <2>4, <3>1
  <2> QED BY <1>6, <2>1, <2>5, <2>6, <2>7, <2>8, <2>9
<1> QED BY <1>2, <1>3, <1>4, <1>5, <1>6 DEF WorkerStep

LEMMA DigestStep == DigestInv /\ [Next]_vars => DigestInv'
<1> SUFFICES ASSUME DigestInv, [Next]_vars PROVE DigestInv'
  OBVIOUS
<1>1. Inv /\ Inv' /\ Proven \subseteq Proven' /\ AllRan
  BY InvStep, ProvenGrows DEF DigestInv
<1>2. CASE UNCHANGED <<work, log>>
  BY <1>1, <1>2 DEF DigestInv, AllRan, RanSound, Alike, RecordedUnlessReplaced, Proven
<1>3. ASSUME NEW r \in Requests,
             Save(r) \/ ApiStep(r) \/ Age(r) \/ Inspect(r) \/ Sweep(r) \/ ApiDies(r)
      PROVE  UNCHANGED <<work, log>>
  BY <1>3 DEF Save, ApiStep, Age, Inspect, Sweep, ApiDies, Validated, Rejected, Submit,
     SubmitFails, Cancelled, taskVars
<1>4. ASSUME NEW w \in Workers,
             WorkerStep(w) \/ Terminated(w) \/ Dies(w) \/ Redeliver(w) \/ \E r \in Requests : Take(w, r)
      PROVE  DigestInv'
  <2>1. /\ RanSound(work'[w]) /\ \A v \in Workers \ {w} : work'[v] = work[v]
        /\ \A x \in log' \ log : Alike(x[1], x[2])
    BY <1>4, RanStep
  <2>2. \A v \in Workers : RanSound(work'[v])
    BY <1>1, <2>1 DEF AllRan
  <2>3. AllRan'
    BY <1>1, <2>2 DEF AllRan, RanSound, Alike
  <2>4. \A x \in log' : Alike(x[1], x[2])
    BY <2>1 DEF DigestInv, RecordedUnlessReplaced, Alike, Proven
  <2>5. RecordedUnlessReplaced'
    BY <1>1, <2>4 DEF RecordedUnlessReplaced, Alike, Proven
  <2> QED BY <1>1, <2>3, <2>5 DEF DigestInv
<1>5. CASE UNCHANGED vars
  BY <1>2, <1>5 DEF vars, taskVars
<1> QED BY <1>2, <1>3, <1>4, <1>5 DEF Next, Fault

(* An import records the digest of the script that made its chunks, or,    *)
(* when the custom parser was replaced under it, of another script that    *)
(* the guard accepted and that was stored before.                          *)
THEOREM DigestIsOfScript == Spec => []RecordedUnlessReplaced
<1>1. Init => DigestInv
  <2> SUFFICES ASSUME Init PROVE DigestInv
    OBVIOUS
  <2>1. \A w \in Workers : work[w].pc = "idle"
    BY DEF Init, Idle
  <2> QED BY <2>1, InvInit DEF Init, DigestInv, AllRan, RanSound, RecordedUnlessReplaced
<1>2. DigestInv /\ [Next]_vars => DigestInv'
  BY DigestStep
<1>3. DigestInv => RecordedUnlessReplaced
  BY DEF DigestInv
<1> QED BY <1>1, <1>2, <1>3, PTL DEF Spec

-----------------------------------------------------------------------------
(* The uploads.                                                            *)

Early == {"select", "validate", "manifest"}
Late == {"run", "hash", "store", "persist", "cleanup"}

Runs(w, r) == work[w].pc # "idle" /\ work[w].req = r

(* The first execution of a request is alone, begins after the API is done *)
(* with submitting it, and is the first to write the manifest ...          *)
FirstIsAlone ==
  \A r \in Requests :
    /\ req[r] \in {"new", "saved", "submitting"} => r \notin message /\ takes[r] = 0
    /\ takes[r] = 0 => "manifest" \notin dir[r] /\ \A w \in Workers : ~Runs(w, r)
    /\ takes[r] = 1 => \A v, w \in Workers : Runs(v, r) /\ Runs(w, r) => v = w

FirstManifest ==
  \A w \in Workers :
    work[w].pc \in Early =>
      ~work[w].intact /\ (takes[work[w].req] = 1 => "manifest" \notin dir[work[w].req])

(* ... which keeps the sweeps away.                                        *)
Kept ==
  \A w \in Workers :
    LET r == work[w].req IN
    work[w].pc \in Late /\ work[w].intact /\ takes[r] = 1 /\ req[r] = "accepted"
    => "uploads" \in dir[r] /\ r \notin old \cup doomed

UploadInv == Inv /\ FirstIsAlone /\ FirstManifest /\ Kept

(* What the steps of an execution in progress have in common.              *)
LEMMA ExecutionStep ==
  ASSUME Inv, NEW w \in Workers, WorkerStep(w) \/ Terminated(w) \/ Dies(w) \/ Redeliver(w)
  PROVE  /\ work[w].pc # "idle" /\ work[w].req \in Requests
         /\ \A v \in Workers \ {w} : work'[v] = work[v]
         /\ work'[w].pc # "idle" => work'[w].req = work[w].req
         /\ UNCHANGED <<req, takes, doomed>> /\ old' \subseteq old
         /\ \A r \in Requests \ {work[w].req} : dir'[r] = dir[r]
         /\ message' \subseteq message \cup {work[w].req}
<1>0. /\ TypeOK /\ work \in [Workers -> Execution] /\ dir \in [Requests -> SUBSET Content]
      /\ work[w] \in Execution /\ Sound(work[w], stored)
  BY DEF Inv, TypeOK, AllSound
<1>1. work[w].pc # "idle"
  BY DEF WorkerStep, Terminated, Dies, Redeliver, Select, Validate, Manifest, Run, Hash, Stores,
     Persist, Raise, Cleanup, At, Steps
<1>2. \A v \in Workers \ {w} : work'[v] = work[v]
  BY <1>0 DEF WorkerStep, Terminated, Dies, Redeliver, Select, Validate, Manifest, Run, Hash,
     Stores, Persist, Raise, Cleanup, Fail, Goto, Becomes, taskVars
<1>3. work'[w].pc # "idle" => work'[w].req = work[w].req
  <2>1. CASE Select(w)
    BY <1>0, <2>1 DEF Select, Becomes, Execution
  <2>2. CASE Manifest(w)
    BY <1>0, <2>2 DEF Manifest, Becomes, Execution
  <2>3. CASE Fail(w) \/ \E s \in Steps : Goto(w, s)
    BY <1>0, <2>3 DEF Fail, Goto, Becomes, Execution
  <2>6. CASE Run(w)
    BY <1>0, <2>6 DEF Run, Becomes, Execution
  <2>7. CASE Becomes(w, [work[w] EXCEPT !.pc = "store", !.sha = Script(w)])
    BY <1>0, <2>7 DEF Becomes, Execution
  <2>8. Validate(w) \/ Stores(w) \/ Persist(w) \/ Raise(w) \/ Terminated(w)
        => Fail(w) \/ \E s \in Steps : Goto(w, s)
    BY DEF Validate, Stores, Persist, Raise, Terminated, Steps
  <2>4. CASE Cleanup(w) \/ Dies(w)
    BY <1>0, <2>4 DEF Cleanup, Dies, Becomes, Idle
  <2>5. CASE Redeliver(w)
    BY <2>5 DEF Redeliver, taskVars
  <2> QED BY <2>1, <2>2, <2>3, <2>4, <2>5, <2>6, <2>7, <2>8 DEF WorkerStep, Hash
<1>4. UNCHANGED <<req, takes, doomed>> /\ old' \subseteq old
  BY DEF WorkerStep, Terminated, Dies, Redeliver, Select, Validate, Manifest, Run, Hash, Stores,
     Persist, Raise, Cleanup, taskVars
<1>5. \A r \in Requests \ {work[w].req} : dir'[r] = dir[r]
  BY <1>0 DEF WorkerStep, Terminated, Dies, Redeliver, Select, Validate, Manifest, Run, Hash,
     Stores, Persist, Raise, Cleanup, Remove
<1>6. message' \subseteq message \cup {work[w].req}
  BY DEF WorkerStep, Terminated, Dies, Redeliver, Select, Validate, Manifest, Run, Hash, Stores,
     Persist, Raise, Cleanup
<1>7. work[w].req \in Requests
  BY <1>0, <1>1 DEF Sound
<1> QED BY <1>1, <1>2, <1>3, <1>4, <1>5, <1>6, <1>7

(* The manifest apart, a step does not add the manifest, only the last one *)
(* removes uploads, and none makes an execution intact.                    *)
LEMMA OrdinaryStep ==
  ASSUME Inv, NEW w \in Workers, WorkerStep(w) \/ Terminated(w) \/ Dies(w) \/ Redeliver(w),
         ~Manifest(w), work'[w].pc # "idle"
  PROVE  /\ work'[w].intact = work[w].intact
         /\ work'[w].pc \in Early => work[w].pc \in Early
         /\ work[w].pc \in Early \cup Late
         /\ "uploads" \in dir[work[w].req] => "uploads" \in dir'[work[w].req]
         /\ "manifest" \in dir'[work[w].req] => "manifest" \in dir[work[w].req]
<1>0. /\ TypeOK /\ work \in [Workers -> Execution] /\ dir \in [Requests -> SUBSET Content]
      /\ work[w] \in Execution /\ Sound(work[w], stored)
      /\ work[w].pc # "idle" /\ work[w].req \in Requests
  BY ExecutionStep DEF Inv, TypeOK, AllSound
<1>1. work[w].pc \in Early \cup Late
  BY <1>0 DEF Execution, Steps, Early, Late
<1>2. CASE Select(w)
  <2>1. work[w].pc \in Early
    BY <1>2 DEF Select, At, Early
  <2>2. work'[w].intact = work[w].intact
    <3>1. PICK s \in {"own", "custom", "default"} :
            work' = [work EXCEPT ![w] = [work[w] EXCEPT !.pc = "validate", !.source = s]]
      BY <1>2 DEF Select, Becomes
    <3> QED BY <1>0, <3>1 DEF Execution
  <2>3. /\ "uploads" \in dir[work[w].req] => "uploads" \in dir'[work[w].req]
        /\ "manifest" \in dir'[work[w].req] => "manifest" \in dir[work[w].req]
    <3>1. \/ dir' = dir
          \/ dir' = [dir EXCEPT ![work[w].req] = @ \cup {"script"}]
      BY <1>2 DEF Select
    <3> QED BY <1>0, <3>1
  <2> QED BY <1>1, <2>1, <2>2, <2>3
<1>3. CASE Run(w) \/ Hash(w)
  <2>1. work'[w].intact = work[w].intact /\ work'[w].pc \in Late
    <3>1. CASE Run(w)
      BY <1>0, <3>1 DEF Run, Becomes, Execution, Late
    <3>2. CASE Fail(w)
      BY <1>0, <3>2 DEF Fail, Becomes, Execution, Late
    <3>3. CASE Becomes(w, [work[w] EXCEPT !.pc = "store", !.sha = Script(w)])
      BY <1>0, <3>3 DEF Becomes, Execution, Late
    <3> QED BY <1>3, <3>1, <3>2, <3>3 DEF Hash
  <2>2. dir' = dir
    BY <1>3 DEF Run, Hash
  <2> QED BY <1>1, <2>1, <2>2 DEF Early, Late
<1>4. CASE Validate(w) \/ Stores(w) \/ Persist(w) \/ Raise(w) \/ Terminated(w)
  <2>1. work'[w].intact = work[w].intact /\ (work'[w].pc \in Late \/ Validate(w))
    <3>1. CASE Fail(w)
      BY <1>0, <3>1 DEF Fail, Becomes, Execution, Late
    <3>2. ASSUME NEW s \in Steps, Goto(w, s)
          PROVE  work'[w].intact = work[w].intact /\ work'[w].pc = s
      BY <1>0, <3>2 DEF Goto, Becomes, Execution
    <3>3. Fail(w) \/ Goto(w, "persist") \/ Goto(w, "cleanup") \/ (Validate(w) /\ Goto(w, "manifest"))
      BY <1>4 DEF Validate, Stores, Persist, Raise, Terminated
    <3> QED BY <3>1, <3>2, <3>3 DEF Late, Steps
  <2>2. dir' = dir
    BY <1>4 DEF Validate, Stores, Persist, Raise, Terminated
  <2>3. Validate(w) => work[w].pc \in Early
    BY DEF Validate, At, Early
  <2> QED BY <1>1, <2>1, <2>2, <2>3 DEF Early, Late
<1>5. CASE Cleanup(w) \/ Dies(w)
  <2>1. work'[w].pc = "idle"
    BY <1>0, <1>5 DEF Cleanup, Dies, Becomes, Idle
  <2> QED BY <2>1
<1>6. CASE Redeliver(w)
  BY <1>1, <1>6 DEF Redeliver, taskVars
<1> QED BY <1>2, <1>3, <1>4, <1>5, <1>6 DEF WorkerStep

LEMMA UploadInit == Init => UploadInv
<1> SUFFICES ASSUME Init PROVE UploadInv
  OBVIOUS
<1>1. \A w \in Workers : work[w].pc = "idle"
  BY DEF Init, Idle
<1>2. FirstIsAlone
  BY <1>1 DEF Init, FirstIsAlone, Runs
<1>3. FirstManifest /\ Kept
  BY <1>1 DEF FirstManifest, Kept, Early, Late
<1> QED BY <1>2, <1>3, InvInit DEF UploadInv

(* A step of an execution.                                                 *)
LEMMA UploadWorkerStep ==
  ASSUME UploadInv, NEW w \in Workers,
         WorkerStep(w) \/ Terminated(w) \/ Dies(w) \/ Redeliver(w)
  PROVE  FirstIsAlone' /\ FirstManifest' /\ Kept'
<1> DEFINE q == work[w].req
<1>0. /\ Inv /\ FirstIsAlone /\ FirstManifest /\ Kept
      /\ dir \in [Requests -> SUBSET Content] /\ work[w] \in Execution /\ takes \in [Requests -> Nat]
  BY DEF UploadInv, Inv, TypeOK
<1>1. /\ work[w].pc # "idle" /\ q \in Requests
      /\ \A v \in Workers \ {w} : work'[v] = work[v]
      /\ work'[w].pc # "idle" => work'[w].req = q
      /\ UNCHANGED <<req, takes, doomed>> /\ old' \subseteq old
      /\ \A r \in Requests \ {q} : dir'[r] = dir[r]
      /\ message' \subseteq message \cup {q}
  BY <1>0, ExecutionStep
<1>2. takes[q] # 0 /\ req[q] \notin {"new", "saved", "submitting"}
  BY <1>0, <1>1 DEF FirstIsAlone, Runs
<1>3. \A v \in Workers, r \in Requests : Runs(v, r)' => Runs(v, r)
  BY <1>1 DEF Runs
<1>4. FirstIsAlone'
  BY <1>0, <1>1, <1>2, <1>3 DEF FirstIsAlone
<1>5. \A v \in Workers \ {w} : takes[q] = 1 /\ work[v].pc # "idle" => work[v].req # q
  BY <1>0, <1>1 DEF FirstIsAlone, Runs
<1>6. CASE Manifest(w)
  <2>1. /\ work[w].pc = "manifest" /\ dir'[q] = dir[q] \cup {"manifest"}
        /\ old' = IF "manifest" \in dir[q] THEN old ELSE old \ {q}
    BY <1>0, <1>1, <1>6 DEF Manifest, At
  <2>2. work'[w] = [work[w] EXCEPT !.pc = "run", !.intact = Safe(q)] /\ work'[w].pc = "run"
    BY <1>0, <1>6 DEF Manifest, Becomes, Inv, TypeOK, Execution
  <2>3. work'[w].intact = Safe(q)
    BY <1>0, <2>2 DEF Execution
  <2>4. takes[q] = 1 => q \notin old'
    BY <1>0, <2>1 DEF FirstManifest, Early
  <2>5. ASSUME NEW v \in Workers, v # w PROVE work'[v] = work[v] /\ (takes[q] = 1 /\ work[v].pc # "idle" => work[v].req # q)
    BY <1>1, <1>5, <2>5
  <2>6. FirstManifest'
    <3>1. ASSUME NEW v \in Workers, work'[v].pc \in Early
          PROVE  ~work'[v].intact /\ (takes'[work'[v].req] = 1 => "manifest" \notin dir'[work'[v].req])
      <4>1. v # w
        BY <2>2, <3>1 DEF Early
      <4>2. work[v].pc # "idle" /\ work[v] = work'[v] /\ work[v].req \in Requests
        BY <1>0, <2>5, <3>1, <4>1 DEF Early, Inv, AllSound, Sound
      <4> QED BY <1>0, <1>1, <2>5, <3>1, <4>1, <4>2 DEF FirstManifest
    <3> QED BY <3>1 DEF FirstManifest
  <2>7. Kept'
    <3>1. ASSUME NEW v \in Workers, work'[v].pc \in Late, work'[v].intact,
                 takes'[work'[v].req] = 1, req'[work'[v].req] = "accepted"
          PROVE  "uploads" \in dir'[work'[v].req] /\ work'[v].req \notin old' \cup doomed'
      <4>1. CASE v = w
        BY <1>1, <2>1, <2>2, <2>3, <2>4, <3>1, <4>1 DEF Safe
      <4>2. CASE v # w
        <5>1. work[v].pc # "idle" /\ work[v] = work'[v] /\ work[v].req \in Requests
          BY <1>0, <2>5, <3>1, <4>2 DEF Late, Inv, AllSound, Sound
        <5> QED BY <1>0, <1>1, <2>5, <3>1, <4>2, <5>1 DEF Kept
      <4> QED BY <4>1, <4>2
    <3> QED BY <3>1 DEF Kept
  <2> QED BY <1>4, <2>6, <2>7
<1>7. CASE ~Manifest(w)
  <2>1. work'[w].pc # "idle" =>
          /\ work'[w].intact = work[w].intact
          /\ work'[w].pc \in Early => work[w].pc \in Early
          /\ work[w].pc \in Early \cup Late
          /\ "uploads" \in dir[q] => "uploads" \in dir'[q]
          /\ "manifest" \in dir'[q] => "manifest" \in dir[q]
    BY <1>0, <1>7, OrdinaryStep
  <2>2. FirstManifest'
    <3>1. ASSUME NEW v \in Workers, work'[v].pc \in Early
          PROVE  ~work'[v].intact /\ (takes'[work'[v].req] = 1 => "manifest" \notin dir'[work'[v].req])
      <4>1. CASE v = w
        BY <1>0, <1>1, <2>1, <3>1, <4>1 DEF FirstManifest, Early
      <4>2. CASE v # w
        <5>1. work[v].pc # "idle" /\ work[v] = work'[v] /\ work[v].req \in Requests
          BY <1>0, <1>1, <3>1, <4>2 DEF Early, Inv, AllSound, Sound
        <5> QED BY <1>0, <1>1, <1>5, <3>1, <4>2, <5>1 DEF FirstManifest
      <4> QED BY <4>1, <4>2
    <3> QED BY <3>1 DEF FirstManifest
  <2>3. Kept'
    <3>1. ASSUME NEW v \in Workers, work'[v].pc \in Late, work'[v].intact,
                 takes'[work'[v].req] = 1, req'[work'[v].req] = "accepted"
          PROVE  "uploads" \in dir'[work'[v].req] /\ work'[v].req \notin old' \cup doomed'
      <4>1. CASE v = w
        <5>1. work'[w].pc # "idle" /\ work[w].pc \in Late
          BY <1>0, <2>1, <3>1, <4>1 DEF Late, FirstManifest
        <5> QED BY <1>0, <1>1, <2>1, <3>1, <4>1, <5>1 DEF Kept
      <4>2. CASE v # w
        <5>1. work[v].pc # "idle" /\ work[v] = work'[v] /\ work[v].req \in Requests
          BY <1>0, <1>1, <3>1, <4>2 DEF Late, Inv, AllSound, Sound
        <5> QED BY <1>0, <1>1, <1>5, <3>1, <4>2, <5>1 DEF Kept
      <4> QED BY <4>1, <4>2
    <3> QED BY <3>1 DEF Kept
  <2> QED BY <1>4, <2>2, <2>3
<1> QED BY <1>6, <1>7

LEMMA UploadTakeStep ==
  ASSUME UploadInv, NEW w \in Workers, NEW q \in Requests, Take(w, q)
  PROVE  FirstIsAlone' /\ FirstManifest' /\ Kept'
<1>0. /\ Inv /\ FirstIsAlone /\ FirstManifest /\ Kept /\ takes \in [Requests -> Nat]
      /\ work \in [Workers -> Execution]
  BY DEF UploadInv, Inv, TypeOK
<1>1. /\ q \in message /\ message' = message \ {q} /\ UNCHANGED <<req, dir, old, doomed>>
      /\ takes' = [takes EXCEPT ![q] = @ + 1] /\ work[w].pc = "idle"
  BY DEF Take, At
<1>2. /\ work'[w].pc = "select" /\ work'[w].req = q /\ work'[w].intact = FALSE
      /\ \A v \in Workers \ {w} : work'[v] = work[v]
  BY <1>0 DEF Take, Becomes, Idle
<1>3. /\ takes'[q] = takes[q] + 1 /\ takes[q] \in Nat
      /\ \A r \in Requests \ {q} : takes'[r] = takes[r]
  BY <1>0, <1>1
<1>4. /\ takes'[q] # 0
      /\ takes'[q] = 1 => /\ "manifest" \notin dir[q]
                          /\ \A v \in Workers : ~Runs(v, q)
  BY <1>0, <1>3 DEF FirstIsAlone
<1>5. req[q] \notin {"new", "saved", "submitting"}
  BY <1>0, <1>1 DEF FirstIsAlone
<1>6. \A v \in Workers \ {w}, r \in Requests : Runs(v, r)' <=> Runs(v, r)
  BY <1>2 DEF Runs
<1>7. \A r \in Requests \ {q} : ~Runs(w, r)'
  BY <1>2 DEF Runs
<1>8. FirstIsAlone'
  <2>1. ASSUME NEW r \in Requests
        PROVE  /\ req'[r] \in {"new", "saved", "submitting"} => r \notin message' /\ takes'[r] = 0
               /\ takes'[r] = 0 => "manifest" \notin dir'[r] /\ \A v \in Workers : ~Runs(v, r)'
               /\ takes'[r] = 1 => \A v, u \in Workers : Runs(v, r)' /\ Runs(u, r)' => v = u
    <3>1. CASE r = q
      BY <1>1, <1>4, <1>5, <1>6, <3>1
    <3>2. CASE r # q
      BY <1>0, <1>1, <1>3, <1>6, <1>7, <3>2 DEF FirstIsAlone
    <3> QED BY <3>1, <3>2
  <2> QED BY <2>1 DEF FirstIsAlone
<1>9. ASSUME NEW v \in Workers, v # w, work[v].pc # "idle"
      PROVE  /\ work'[v] = work[v] /\ work[v].req \in Requests
             /\ takes'[work[v].req] = 1 => takes[work[v].req] = 1
  <2>1. work'[v] = work[v] /\ work[v].req \in Requests
    BY <1>0, <1>2, <1>9 DEF Inv, AllSound, Sound
  <2> QED BY <1>3, <1>4, <1>9, <2>1 DEF Runs
<1>10. FirstManifest'
  <2>1. ASSUME NEW v \in Workers, work'[v].pc \in Early
        PROVE  ~work'[v].intact /\ (takes'[work'[v].req] = 1 => "manifest" \notin dir'[work'[v].req])
    <3>1. CASE v = w
      BY <1>1, <1>2, <1>4, <3>1
    <3>2. CASE v # w
      BY <1>0, <1>1, <1>2, <1>9, <2>1, <3>2 DEF FirstManifest, Early
    <3> QED BY <3>1, <3>2
  <2> QED BY <2>1 DEF FirstManifest
<1>11. Kept'
  <2>1. ASSUME NEW v \in Workers, work'[v].pc \in Late, work'[v].intact,
               takes'[work'[v].req] = 1, req'[work'[v].req] = "accepted"
        PROVE  "uploads" \in dir'[work'[v].req] /\ work'[v].req \notin old' \cup doomed'
    <3>1. v # w
      BY <1>2, <2>1
    <3> QED BY <1>0, <1>1, <1>2, <1>9, <2>1, <3>1 DEF Kept, Late
  <2> QED BY <2>1 DEF Kept
<1> QED BY <1>8, <1>10, <1>11

(* A step of the API, of time or of a sweep.                               *)
LEMMA UploadOtherStep ==
  ASSUME UploadInv, NEW q \in Requests,
         Save(q) \/ ApiStep(q) \/ Age(q) \/ Inspect(q) \/ Sweep(q) \/ ApiDies(q)
  PROVE  FirstIsAlone' /\ FirstManifest' /\ Kept'
<1>0. /\ Inv /\ FirstIsAlone /\ FirstManifest /\ Kept
      /\ req \in [Requests -> {"new", "saved", "submitting", "failing", "accepted", "over"}]
      /\ dir \in [Requests -> SUBSET Content]
  BY DEF UploadInv, Inv, TypeOK
<1>1. UNCHANGED <<takes, work>>
  BY DEF Save, ApiStep, Age, Inspect, Sweep, ApiDies, Validated, Rejected, Submit, SubmitFails,
     Cancelled, taskVars
<1>2. \A r \in Requests \ {q} :
        /\ req'[r] = req[r] /\ dir'[r] = dir[r]
        /\ (r \in message' <=> r \in message)
        /\ (r \in old' <=> r \in old) /\ (r \in doomed' <=> r \in doomed)
  BY <1>0 DEF Save, ApiStep, Age, Inspect, Sweep, ApiDies, Validated, Rejected, Submit, SubmitFails,
     Cancelled, ReqGoto, Remove
<1>3. "manifest" \in dir'[q] => "manifest" \in dir[q]
  BY <1>0 DEF Save, ApiStep, Age, Inspect, Sweep, ApiDies, Validated, Rejected, Submit, SubmitFails,
     Cancelled, Remove
<1>4. req'[q] \in {"new", "saved", "submitting"}
      => req[q] \in {"new", "saved", "submitting"} /\ (q \in message' <=> q \in message)
  BY <1>0 DEF Save, ApiStep, Age, Inspect, Sweep, ApiDies, Validated, Rejected, Submit, SubmitFails,
     Cancelled, ReqGoto
<1>5. FirstIsAlone'
  <2>1. \A v \in Workers, r \in Requests : Runs(v, r)' <=> Runs(v, r)
    BY <1>1 DEF Runs
  <2> QED BY <1>0, <1>1, <1>2, <1>3, <1>4, <2>1 DEF FirstIsAlone
<1>6. \A w \in Workers : work[w].pc # "idle" => work[w].req \in Requests
  BY <1>0 DEF Inv, AllSound, Sound
<1>7. FirstManifest'
  BY <1>0, <1>1, <1>2, <1>3, <1>6 DEF FirstManifest, Early
<1>8. Kept'
  <2>1. ASSUME NEW w \in Workers, work'[w].pc \in Late, work'[w].intact,
               takes'[work'[w].req] = 1, req'[work'[w].req] = "accepted"
        PROVE  "uploads" \in dir'[work'[w].req] /\ work'[w].req \notin old' \cup doomed'
    <3>1. work'[w] = work[w] /\ work[w].req \in Requests /\ takes[work[w].req] = 1 /\ Runs(w, work[w].req)
      BY <1>1, <1>6, <2>1 DEF Late, Runs
    <3>2. CASE work[w].req # q
      BY <1>0, <1>2, <2>1, <3>1, <3>2 DEF Kept
    <3>3. CASE work[w].req = q
      <4>1. req[q] \notin {"new", "saved", "submitting"}
        BY <1>0, <3>1, <3>3 DEF FirstIsAlone
      <4>2. req[q] = "accepted"
        BY <1>0, <2>1, <3>1, <3>3, <4>1 DEF Save, ApiStep, Age, Inspect, Sweep, ApiDies, Validated,
           Rejected, Submit, SubmitFails, Cancelled, ReqGoto
      <4>3. "uploads" \in dir[q] /\ q \notin old \cup doomed
        BY <1>0, <2>1, <3>1, <3>3, <4>2 DEF Kept
      <4>4. Age(q)
        BY <1>0, <4>2, <4>3 DEF Save, ApiStep, Inspect, Expired, Sweep, ApiDies, Validated,
           Rejected, Submit, SubmitFails, Cancelled, ReqGoto
      <4>5. ~Renewed(w, q)
        BY <3>1, <3>3, <4>4 DEF Age
      <4> QED BY <2>1, <3>1, <3>3, <4>5 DEF Renewed, Late
    <3> QED BY <3>2, <3>3
  <2> QED BY <2>1 DEF Kept
<1> QED BY <1>5, <1>7, <1>8

LEMMA UploadStep == UploadInv /\ [Next]_vars => UploadInv'
<1> SUFFICES ASSUME UploadInv, [Next]_vars PROVE UploadInv'
  OBVIOUS
<1>1. Inv'
  BY InvStep DEF UploadInv
<1>2. FirstIsAlone' /\ FirstManifest' /\ Kept'
  <2>1. CASE UNCHANGED vars
    BY <2>1 DEF UploadInv, FirstIsAlone, Runs, FirstManifest, Kept, vars, taskVars
  <2> QED BY <2>1, UploadWorkerStep, UploadTakeStep, UploadOtherStep DEF Next, Fault
<1> QED BY <1>1, <1>2 DEF UploadInv

(* The uploads of a request delivered once stay to the end of its          *)
(* execution, whatever other imports, the API and the sweeps do.           *)
THEOREM UploadsAreKept == Spec => []UploadsStay
<1>1. Init => UploadInv
  BY UploadInit
<1>2. UploadInv /\ [Next]_vars => UploadInv'
  BY UploadStep
<1>3. UploadInv => UploadsStay
  BY DEF UploadInv, Kept, UploadsStay, Late
<1> QED BY <1>1, <1>2, <1>3, PTL DEF Spec
=============================================================================
