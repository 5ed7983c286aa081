------------------------- MODULE ImportStoreProofs -------------------------
(***************************************************************************)
(* Proofs about ImportStore, for any number of imports, documents, models  *)
(* and pool processes, and both domains.                                   *)
(***************************************************************************)
EXTENDS ImportStore, TLAPS

USE ConstantsOK DEF ConstantsOK

(* Only an import with a model prepares a vector mapping.                  *)
MappingSteps == {"index.exists", "index.create", "mapping.get", "mapping.put"}

ModelSteps == \A i \in Imports : exec[i].pc \in MappingSteps => ModelOf[i] # None

(* An import past its look at the binding, unless it is to create it, has  *)
(* a binding: bindings are never removed.                                  *)
BoundSteps ==
  \A i \in Imports : exec[i].pc \in Bound \cup {"binding.update"} => binding # NoBinding

TypeInv == TypeOK /\ ModelSteps /\ BoundSteps

LEMMA DimType == ASSUME NEW i \in Imports, ModelOf[i] # None
                 PROVE  Dim(i) \in Dims
  BY DEF Dim, Dims

LEMMA FreshType == ASSUME NEW i \in Imports PROVE Fresh(i) \in Execution
  BY DEF Fresh, Execution, NoBinding, Settings

(* A step of an import changes its own execution.                          *)
LEMMA BecomesType ==
  ASSUME TypeOK, NEW i \in Imports, NEW e \in Execution, Becomes(i, e)
  PROVE  /\ exec' \in [Imports -> Execution]
         /\ exec'[i] = e
         /\ \A j \in Imports \ {i} : exec'[j] = exec[j]
  BY DEF TypeOK, Becomes

LEMMA ExecType == ASSUME TypeOK, NEW i \in Imports PROVE exec[i] \in Execution
  BY DEF TypeOK

LEMMA GotoType ==
  ASSUME TypeOK, NEW i \in Imports, NEW s \in {"new"} \cup Working \cup Ended, Goto(i, s)
  PROVE  /\ exec' \in [Imports -> Execution]
         /\ exec'[i] = [exec[i] EXCEPT !.pc = s]
         /\ exec'[i].pc = s
         /\ \A j \in Imports \ {i} : exec'[j] = exec[j]
<1> DEFINE e == [exec[i] EXCEPT !.pc = s]
<1>1. e \in Execution /\ e.pc = s
  BY ExecType DEF Execution
<1> HIDE DEF e
<1>2. Becomes(i, e)
  BY DEF Goto, e
<1> QED BY <1>1, <1>2, BecomesType DEF e

LEMMA BindType ==
  ASSUME NEW i \in Imports, Bind(i)
  PROVE  binding' \in Settings /\ binding' # NoBinding
  BY DEF Bind, Settings, NoBinding

LEMMA PatchType ==
  ASSUME NEW i \in Imports, binding \in Settings, Patch(i)
  PROVE  binding' \in Settings /\ binding' # NoBinding
  BY DEF Patch, Settings, NoBinding

LEMMA MergedType ==
  ASSUME TypeOK, NEW i \in Imports, NEW d \in Docs
  PROVE  Merged(i, d) \in Doc
<1>1. docs[d] \in Doc /\ exec[i] \in Execution
  BY DEF TypeOK
<1> QED BY <1>1 DEF Merged, Doc, Execution

-----------------------------------------------------------------------------
LEMMA TypeInit == Init => TypeInv
<1> SUFFICES ASSUME Init PROVE TypeInv
  OBVIOUS
<1>1. NoDoc \in Doc
  BY DEF NoDoc, Doc
<1>2. \A i \in Imports : Fresh(i) \in Execution
  BY FreshType
<1>3. TypeOK
  BY <1>1, <1>2 DEF Init, TypeOK, Dims
<1>4. ModelSteps /\ BoundSteps
  BY DEF Init, ModelSteps, MappingSteps, BoundSteps, Bound, Fresh
<1> QED BY <1>3, <1>4 DEF TypeInv

(* What each step of an import does to the type invariant.                 *)
LEMMA TypeStep == TypeInv /\ [Next]_vars => TypeInv'
<1> SUFFICES ASSUME TypeInv, [Next]_vars PROVE TypeInv'
  OBVIOUS
<1> USE DEF TypeInv
<1>1. ASSUME NEW i \in Imports, Begin(i) PROVE TypeInv'
  <2>1. exec' \in [Imports -> Execution]
    BY <1>1, GotoType DEF Begin, Working
  <2> QED BY GotoType, <1>1, <2>1 DEF Begin, TypeOK, ModelSteps, MappingSteps, BoundSteps, Bound, Working
<1>2. ASSUME NEW i \in Imports, SaveFiles(i) PROVE TypeInv'
  <2>1. /\ exec' \in [Imports -> Execution]
        /\ exec'[i].pc = "binding.get"
        /\ \A j \in Imports \ {i} : exec'[j] = exec[j]
    <3>1. CASE Goto(i, "binding.get")
      BY <3>1, GotoType DEF Working
    <3>2. CASE Becomes(i, [exec[i] EXCEPT !.pc = "binding.get", !.saved = i])
      <4>1. [exec[i] EXCEPT !.pc = "binding.get", !.saved = i] \in Execution
        BY ExecType DEF Execution, Working
      <4>2. [exec[i] EXCEPT !.pc = "binding.get", !.saved = i].pc = "binding.get"
        BY ExecType DEF Execution
      <4> QED BY <3>2, <4>1, <4>2, BecomesType
    <3> QED BY <1>2, <3>1, <3>2 DEF SaveFiles
  <2>2. files' \subseteq Imports
    BY <1>2 DEF SaveFiles, TypeOK
  <2> QED BY <1>2, <2>1, <2>2 DEF SaveFiles, TypeOK, ModelSteps, MappingSteps, BoundSteps, Bound
<1>3. ASSUME NEW i \in Imports, GetBinding(i) PROVE TypeInv'
  <2> DEFINE next == IF binding = NoBinding THEN "binding.create"
                     ELSE IF SetsModel(i, binding) \/ SetsProfile(i, binding)
                          THEN "binding.update" ELSE "embed"
             e == [exec[i] EXCEPT !.pc = next, !.seen = binding]
  <2>1. next = "binding.create" \/ (binding # NoBinding /\ next \in {"binding.update", "embed"})
    <3>1. CASE binding = NoBinding
      BY <3>1
    <3>2. CASE binding # NoBinding
      BY <3>2
    <3> QED BY <3>1, <3>2
  <2>2. Becomes(i, e)
    BY <1>3 DEF GetBinding
  <2> HIDE DEF next
  <2>3. e \in Execution /\ e.pc = next
    BY <2>1, ExecType DEF Execution, Working, TypeOK
  <2> HIDE DEF e
  <2>4. /\ exec' \in [Imports -> Execution]
        /\ exec'[i].pc = next
        /\ \A j \in Imports \ {i} : exec'[j] = exec[j]
    BY <2>2, <2>3, BecomesType
  <2> QED BY <1>3, <2>1, <2>4 DEF GetBinding, TypeOK, ModelSteps, MappingSteps, BoundSteps, Bound
<1>4. ASSUME NEW i \in Imports, CreateBinding(i) PROVE TypeInv'
  <2>1. exec' \in [Imports -> Execution]
    BY <1>4, GotoType DEF CreateBinding, Working, Ended
  <2>2. binding' \in Settings /\ binding' # NoBinding
    BY <1>4, BindType DEF CreateBinding, TypeOK
  <2>3. exec'[i].pc \in {"embed", "conflict"} /\ \A j \in Imports \ {i} : exec'[j] = exec[j]
    BY GotoType, <1>4 DEF CreateBinding, Working, Ended
  <2> QED BY <1>4, <2>1, <2>2, <2>3 DEF CreateBinding, TypeOK, ModelSteps, MappingSteps, BoundSteps, Bound
<1>5. ASSUME NEW i \in Imports, UpdateBinding(i) PROVE TypeInv'
  <2>1. exec' \in [Imports -> Execution]
    BY <1>5, GotoType DEF UpdateBinding, Working
  <2>2. binding \in Settings
    BY <1>5 DEF UpdateBinding, At, BoundSteps, TypeOK
  <2>3. binding' \in Settings /\ binding' # NoBinding
    BY <1>5, <2>2, PatchType DEF UpdateBinding
  <2>4. exec'[i].pc = "embed" /\ \A j \in Imports \ {i} : exec'[j] = exec[j]
    BY GotoType, <1>5 DEF UpdateBinding, Working
  <2> QED BY <1>5, <2>1, <2>3, <2>4 DEF UpdateBinding, TypeOK, ModelSteps, MappingSteps, BoundSteps, Bound
<1>6. ASSUME NEW i \in Imports, Embed(i) PROVE TypeInv'
  <2>1. exec' \in [Imports -> Execution]
    BY <1>6, GotoType DEF Embed, Working
  <2>2. exec'[i].pc \in {"bulk"} \cup (IF ModelOf[i] # None THEN {"index.exists"} ELSE {})
        /\ \A j \in Imports \ {i} : exec'[j] = exec[j]
    BY GotoType, <1>6 DEF Embed, Working
  <2> QED BY <1>6, <2>1, <2>2 DEF Embed, At, TypeOK, ModelSteps, MappingSteps, BoundSteps, Bound
<1>7. ASSUME NEW i \in Imports, IndexExists(i) PROVE TypeInv'
  <2>1. exec' \in [Imports -> Execution]
    BY <1>7, GotoType DEF IndexExists, Working
  <2>2. exec'[i].pc \in {"mapping.get", "index.create"} /\ \A j \in Imports \ {i} : exec'[j] = exec[j]
    BY GotoType, <1>7 DEF IndexExists, Working
  <2> QED BY <1>7, <2>1, <2>2 DEF IndexExists, At, TypeOK, ModelSteps, MappingSteps, BoundSteps, Bound
<1>8. ASSUME NEW i \in Imports, CreateIndex(i) PROVE TypeInv'
  <2>1. exec' \in [Imports -> Execution]
    BY <1>8, GotoType DEF CreateIndex, Working, Ended
  <2>2. exec'[i].pc \in {"bulk", "failed"} /\ \A j \in Imports \ {i} : exec'[j] = exec[j]
    BY GotoType, <1>8 DEF CreateIndex, Working, Ended
  <2>3. index' \in [exists : BOOLEAN, dim : Dims]
    <3>1. exec[i].pc \in MappingSteps => Dim(i) \in Dims
      BY DimType DEF ModelSteps
    <3>2. Dim(i) \in Dims => [exists |-> TRUE, dim |-> Dim(i)] \in [exists : BOOLEAN, dim : Dims]
      OBVIOUS
    <3> QED BY <1>8, <3>1, <3>2 DEF CreateIndex, At, MappingSteps, TypeOK
  <2> QED BY <1>8, <2>1, <2>2, <2>3 DEF CreateIndex, At, TypeOK, ModelSteps, MappingSteps, BoundSteps, Bound
<1>9. ASSUME NEW i \in Imports, GetMapping(i) PROVE TypeInv'
  <2>1. exec' \in [Imports -> Execution]
    BY <1>9, GotoType DEF GetMapping, Working
  <2>2. exec'[i].pc \in {"mapping.put", "bulk"} /\ \A j \in Imports \ {i} : exec'[j] = exec[j]
    BY GotoType, <1>9 DEF GetMapping, Working
  <2> QED BY <1>9, <2>1, <2>2 DEF GetMapping, At, TypeOK, ModelSteps, MappingSteps, BoundSteps, Bound
<1>10. ASSUME NEW i \in Imports, PutMapping(i) PROVE TypeInv'
  <2>1. exec' \in [Imports -> Execution]
    BY <1>10, GotoType DEF PutMapping, Working, Ended
  <2>2. exec'[i].pc \in {"bulk", "failed"} /\ \A j \in Imports \ {i} : exec'[j] = exec[j]
    BY GotoType, <1>10 DEF PutMapping, Working, Ended
  <2>3. index' \in [exists : BOOLEAN, dim : Dims]
    <3>1. exec[i].pc \in MappingSteps => Dim(i) \in Dims
      BY DimType DEF ModelSteps
    <3>2. Dim(i) \in Dims => [exists |-> TRUE, dim |-> Dim(i)] \in [exists : BOOLEAN, dim : Dims]
      OBVIOUS
    <3> QED BY <1>10, <3>1, <3>2 DEF PutMapping, At, MappingSteps, TypeOK
  <2> QED BY <1>10, <2>1, <2>2, <2>3 DEF PutMapping, At, TypeOK, ModelSteps, MappingSteps, BoundSteps, Bound
<1>11. ASSUME NEW i \in Imports, NEW d \in Docs, Upsert(i, d) PROVE TypeInv'
  <2> DEFINE e == [exec[i] EXCEPT !.todo = @ \ {d}]
  <2>1. e \in Execution /\ e.pc = exec[i].pc
    BY ExecType DEF Execution
  <2>2. Becomes(i, e)
    BY <1>11 DEF Upsert
  <2> HIDE DEF e
  <2>3. exec' \in [Imports -> Execution] /\ \A j \in Imports : exec'[j].pc = exec[j].pc
    BY <2>1, <2>2, BecomesType
  <2>4. docs' \in [Docs -> Doc]
    BY <1>11, MergedType DEF Upsert, TypeOK
  <2>5. index' \in [exists : BOOLEAN, dim : Dims]
    BY <1>11 DEF Upsert, TypeOK
  <2> QED BY <1>11, <2>3, <2>4, <2>5 DEF Upsert, TypeOK, ModelSteps, BoundSteps
<1>12. ASSUME NEW i \in Imports, NEW d \in Docs, Refuse(i, d) PROVE TypeInv'
  <2> DEFINE e == [exec[i] EXCEPT !.todo = @ \ {d}, !.rejected = TRUE]
  <2>1. e \in Execution /\ e.pc = exec[i].pc
    BY ExecType DEF Execution
  <2>2. Becomes(i, e)
    BY <1>12 DEF Refuse
  <2> HIDE DEF e
  <2>3. exec' \in [Imports -> Execution] /\ \A j \in Imports : exec'[j].pc = exec[j].pc
    BY <2>1, <2>2, BecomesType
  <2> QED BY <1>12, <2>3 DEF Refuse, TypeOK, ModelSteps, BoundSteps
<1>13. ASSUME NEW i \in Imports, Return(i) PROVE TypeInv'
  <2>1. exec' \in [Imports -> Execution]
    BY <1>13, GotoType DEF Return, Ended
  <2>2. exec'[i].pc = "done" /\ \A j \in Imports \ {i} : exec'[j] = exec[j]
    BY GotoType, <1>13 DEF Return, Ended
  <2> QED BY <1>13, <2>1, <2>2 DEF Return, At, TypeOK, ModelSteps, MappingSteps, BoundSteps, Bound
<1>14. ASSUME NEW i \in Imports, Interrupt(i) PROVE TypeInv'
  <2>1. /\ exec' \in [Imports -> Execution]
        /\ exec'[i].pc \in {"failed", "new"}
        /\ \A j \in Imports \ {i} : exec'[j] = exec[j]
    <3>1. CASE Goto(i, "failed")
      BY <3>1, GotoType DEF Ended
    <3>2. CASE Becomes(i, Fresh(i))
      BY <3>2, BecomesType, FreshType DEF Fresh
    <3> QED BY <1>14, <3>1, <3>2 DEF Interrupt
  <2>3. binding' = binding \/ (binding' \in Settings /\ binding' # NoBinding)
    <3>1. At(i, "binding.update") => binding \in Settings
      BY DEF At, BoundSteps, TypeOK
    <3> QED BY <1>14, <3>1, BindType, PatchType DEF Interrupt
  <2>4. index' \in [exists : BOOLEAN, dim : Dims]
    <3>1. exec[i].pc \in MappingSteps => Dim(i) \in Dims
      BY DimType DEF ModelSteps
    <3>2. Dim(i) \in Dims => [exists |-> TRUE, dim |-> Dim(i)] \in [exists : BOOLEAN, dim : Dims]
      OBVIOUS
    <3> QED BY <1>14, <3>1, <3>2 DEF Interrupt, At, MappingSteps, TypeOK
  <2>5. files' \subseteq Imports /\ faults' \in 0..MaxFaults
    BY <1>14 DEF Interrupt, TypeOK
  <2> QED BY <1>14, <2>1, <2>3, <2>4, <2>5 DEF Interrupt, TypeOK, ModelSteps, MappingSteps, BoundSteps, Bound
<1>15. CASE UNCHANGED vars
  BY <1>15 DEF vars, TypeOK, ModelSteps, BoundSteps
<1> QED
  BY <1>1, <1>2, <1>3, <1>4, <1>5, <1>6, <1>7, <1>8, <1>9, <1>10, <1>11, <1>12, <1>13, <1>14, <1>15
  DEF Next, Import

(* Type correctness of the stores and of the executions of imports.        *)
THEOREM TypeCorrect == Spec => []TypeOK
<1>1. Spec => []TypeInv
  BY TypeInit, TypeStep, PTL DEF Spec
<1> QED BY <1>1, PTL DEF TypeInv

-----------------------------------------------------------------------------
(* What a step of import i may do, as far as the properties tell.          *)
Shape(i) ==
  /\ domain' = domain
  /\ files \subseteq files'
  /\ \A j \in Imports \ {i} : exec'[j] = exec[j]
  /\ exec'[i].saved \in {exec[i].saved, None} \/ (exec'[i].saved = i /\ i \in files')
  /\ \/ binding' = binding
     \/ binding = NoBinding /\ Bind(i)
     \/ At(i, "binding.update") /\ Patch(i)
  /\ index'.exists = index.exists \/ exec[i].pc \in Bound
  /\ \/ docs' = docs
     \/ /\ At(i, "bulk")
        /\ \E d \in Docs : docs' = [docs EXCEPT ![d] = Merged(i, d)]
  /\ exec'[i].pc = "binding.update" =>
       /\ binding # NoBinding /\ exec'[i].seen = binding
       /\ SetsModel(i, binding) \/ SetsProfile(i, binding)
  /\ exec'[i].pc \in Bound =>
       \/ exec[i].pc \in Bound
       \/ Bind(i)
       \/ At(i, "binding.update") /\ Patch(i)
       \/ binding' = binding /\ ~SetsModel(i, binding)
  /\ exec'[i].pc \in Bound /\ exec'[i].seen = NoBinding =>
       \/ binding' = binding /\ exec[i].seen = NoBinding /\ exec[i].pc \in Bound
       \/ At(i, "binding.update") /\ exec[i].seen = NoBinding
       \/ Bind(i)

(* A step that only moves import i on, to a step that is no update, and    *)
(* beyond the binding only from there.                                     *)
LEMMA GotoShape ==
  ASSUME TypeOK, NEW i \in Imports, NEW s \in ({"new"} \cup Working \cup Ended) \ {"binding.update"},
         Goto(i, s), s \in Bound => exec[i].pc \in Bound,
         UNCHANGED <<domain, binding, docs>>, files \subseteq files',
         index'.exists = index.exists \/ exec[i].pc \in Bound
  PROVE  Shape(i)
<1>1. /\ exec'[i] = [exec[i] EXCEPT !.pc = s]
      /\ exec'[i].pc = s
      /\ \A j \in Imports \ {i} : exec'[j] = exec[j]
  BY GotoType
<1>2. exec'[i].seen = exec[i].seen /\ exec'[i].saved = exec[i].saved
  BY <1>1, ExecType DEF Execution
<1> QED BY <1>1, <1>2 DEF Shape

LEMMA StepShape ==
  ASSUME TypeInv, NEW i \in Imports, Import(i) \/ Interrupt(i)
  PROVE  Shape(i)
<1> USE DEF TypeInv
<1>1. ASSUME Begin(i) PROVE Shape(i)
  BY <1>1, GotoShape DEF Begin, At, Bound, Working, Ended
<1>2. ASSUME SaveFiles(i) PROVE Shape(i)
  <2> DEFINE e == [exec[i] EXCEPT !.pc = "binding.get", !.saved = i]
  <2>1. e \in Execution /\ e.pc = "binding.get" /\ e.saved = i
    BY ExecType DEF Execution, Working
  <2> HIDE DEF e
  <2>2. CASE files' = files \cup {i} /\ Becomes(i, e)
    <3>1. exec'[i] = e /\ \A j \in Imports \ {i} : exec'[j] = exec[j]
      BY <2>1, <2>2, BecomesType
    <3> QED BY <1>2, <2>1, <2>2, <3>1 DEF SaveFiles, Shape, Bound
  <2>3. CASE Goto(i, "binding.get") /\ UNCHANGED files
    BY <1>2, <2>3, GotoShape DEF SaveFiles, At, Bound, Working
  <2> QED BY <1>2, <2>2, <2>3 DEF SaveFiles, e
<1>3. ASSUME GetBinding(i) PROVE Shape(i)
  <2> DEFINE next == IF binding = NoBinding THEN "binding.create"
                     ELSE IF SetsModel(i, binding) \/ SetsProfile(i, binding)
                          THEN "binding.update" ELSE "embed"
             e == [exec[i] EXCEPT !.pc = next, !.seen = binding]
  <2>1. \/ next = "binding.create"
        \/ /\ next = "binding.update" /\ binding # NoBinding
           /\ SetsModel(i, binding) \/ SetsProfile(i, binding)
        \/ next = "embed" /\ binding # NoBinding /\ ~SetsModel(i, binding)
    <3>1. CASE binding = NoBinding
      BY <3>1
    <3>2. CASE binding # NoBinding
      BY <3>2
    <3> QED BY <3>1, <3>2
  <2>2. Becomes(i, e)
    BY <1>3 DEF GetBinding
  <2> HIDE DEF next
  <2>3. e \in Execution /\ e.pc = next /\ e.seen = binding /\ e.saved = exec[i].saved
    BY <2>1, ExecType DEF Execution, Working, TypeOK
  <2> HIDE DEF e
  <2>4. exec'[i] = e /\ \A j \in Imports \ {i} : exec'[j] = exec[j]
    BY <2>2, <2>3, BecomesType
  <2> QED BY <1>3, <2>1, <2>3, <2>4 DEF GetBinding, Shape, Bound
<1>4. ASSUME CreateBinding(i) PROVE Shape(i)
  <2>1. CASE binding = NoBinding /\ Bind(i) /\ Goto(i, "embed")
    <3>1. /\ exec'[i] = [exec[i] EXCEPT !.pc = "embed"] /\ exec'[i].pc = "embed"
          /\ \A j \in Imports \ {i} : exec'[j] = exec[j]
      BY <2>1, GotoType DEF Working
    <3>2. exec'[i].saved = exec[i].saved
      BY <3>1, ExecType DEF Execution
    <3> QED BY <1>4, <2>1, <3>1, <3>2 DEF CreateBinding, Shape
  <2>2. CASE Goto(i, "conflict") /\ UNCHANGED binding
    BY <1>4, <2>2, GotoShape DEF CreateBinding, At, Bound, Ended
  <2> QED BY <1>4, <2>1, <2>2 DEF CreateBinding
<1>5. ASSUME UpdateBinding(i) PROVE Shape(i)
  <2>1. /\ exec'[i] = [exec[i] EXCEPT !.pc = "embed"] /\ exec'[i].pc = "embed"
        /\ \A j \in Imports \ {i} : exec'[j] = exec[j]
    BY <1>5, GotoType DEF UpdateBinding, Working
  <2>2. exec'[i].saved = exec[i].saved /\ exec'[i].seen = exec[i].seen
    BY <2>1, ExecType DEF Execution
  <2> QED BY <1>5, <2>1, <2>2 DEF UpdateBinding, Shape
<1>6. ASSUME Embed(i) PROVE Shape(i)
  <2>1. CASE Goto(i, "bulk")
    BY <1>6, <2>1, GotoShape DEF Embed, At, Bound, Working, Ended
  <2>2. CASE Goto(i, "index.exists")
    BY <1>6, <2>2, GotoShape DEF Embed, At, Bound, Working, Ended
  <2> QED BY <1>6, <2>1, <2>2 DEF Embed
<1>7. ASSUME IndexExists(i) PROVE Shape(i)
  <2>1. CASE Goto(i, "mapping.get")
    BY <1>7, <2>1, GotoShape DEF IndexExists, At, Bound, Working, Ended
  <2>2. CASE Goto(i, "index.create")
    BY <1>7, <2>2, GotoShape DEF IndexExists, At, Bound, Working, Ended
  <2> QED BY <1>7, <2>1, <2>2 DEF IndexExists
<1>8. ASSUME CreateIndex(i) PROVE Shape(i)
  <2>1. CASE Goto(i, "bulk")
    BY <1>8, <2>1, GotoShape DEF CreateIndex, At, Bound, Working, Ended
  <2>2. CASE Goto(i, "failed")
    BY <1>8, <2>2, GotoShape DEF CreateIndex, At, Bound, Working, Ended
  <2> QED BY <1>8, <2>1, <2>2 DEF CreateIndex
<1>9. ASSUME GetMapping(i) PROVE Shape(i)
  <2>1. CASE Goto(i, "mapping.put")
    BY <1>9, <2>1, GotoShape DEF GetMapping, At, Bound, Working, Ended
  <2>2. CASE Goto(i, "bulk")
    BY <1>9, <2>2, GotoShape DEF GetMapping, At, Bound, Working, Ended
  <2> QED BY <1>9, <2>1, <2>2 DEF GetMapping
<1>10. ASSUME PutMapping(i) PROVE Shape(i)
  <2>1. CASE Goto(i, "bulk")
    BY <1>10, <2>1, GotoShape DEF PutMapping, At, Bound, Working, Ended
  <2>2. CASE Goto(i, "failed")
    BY <1>10, <2>2, GotoShape DEF PutMapping, At, Bound, Working, Ended
  <2> QED BY <1>10, <2>1, <2>2 DEF PutMapping
<1>11. ASSUME NEW d \in Docs, Upsert(i, d) PROVE Shape(i)
  <2> DEFINE e == [exec[i] EXCEPT !.todo = @ \ {d}]
  <2>1. e \in Execution /\ e.pc = exec[i].pc /\ e.saved = exec[i].saved /\ e.seen = exec[i].seen
    BY ExecType DEF Execution
  <2>2. Becomes(i, e)
    BY <1>11 DEF Upsert
  <2> HIDE DEF e
  <2>3. exec'[i] = e /\ \A j \in Imports \ {i} : exec'[j] = exec[j]
    BY <2>1, <2>2, BecomesType
  <2> QED BY <1>11, <2>1, <2>3 DEF Upsert, Shape, At, Bound
<1>12. ASSUME NEW d \in Docs, Refuse(i, d) PROVE Shape(i)
  <2> DEFINE e == [exec[i] EXCEPT !.todo = @ \ {d}, !.rejected = TRUE]
  <2>1. e \in Execution /\ e.pc = exec[i].pc /\ e.saved = exec[i].saved /\ e.seen = exec[i].seen
    BY ExecType DEF Execution
  <2>2. Becomes(i, e)
    BY <1>12 DEF Refuse
  <2> HIDE DEF e
  <2>3. exec'[i] = e /\ \A j \in Imports \ {i} : exec'[j] = exec[j]
    BY <2>1, <2>2, BecomesType
  <2> QED BY <1>12, <2>1, <2>3 DEF Refuse, Shape, At, Bound
<1>13. ASSUME Return(i) PROVE Shape(i)
  BY <1>13, GotoShape DEF Return, At, Bound, Working, Ended
<1>14. ASSUME Interrupt(i) PROVE Shape(i)
  <2>1. /\ exec'[i].pc \in {"failed", "new"}
        /\ exec'[i].saved \in {exec[i].saved, None}
        /\ \A j \in Imports \ {i} : exec'[j] = exec[j]
    <3>1. CASE Goto(i, "failed")
      <4>1. exec'[i] = [exec[i] EXCEPT !.pc = "failed"] /\ exec'[i].pc = "failed"
            /\ \A j \in Imports \ {i} : exec'[j] = exec[j]
        BY <3>1, GotoType DEF Ended
      <4>2. exec'[i].saved = exec[i].saved
        BY <4>1, ExecType DEF Execution
      <4> QED BY <4>1, <4>2
    <3>2. CASE Becomes(i, Fresh(i))
      BY <3>2, BecomesType, FreshType DEF Fresh
    <3> QED BY <1>14, <3>1, <3>2 DEF Interrupt
  <2>2. /\ files \subseteq files' /\ docs' = docs
        /\ \/ binding' = binding
           \/ binding = NoBinding /\ Bind(i)
           \/ At(i, "binding.update") /\ Patch(i)
    BY <1>14 DEF Interrupt
  <2>3. index' = index \/ exec[i].pc \in Bound
    BY <1>14 DEF Interrupt, At, Bound
  <2>4. domain' = domain
    BY <1>14 DEF Interrupt
  <2> QED BY <2>1, <2>2, <2>3, <2>4 DEF Shape, Bound
<1> QED BY <1>1, <1>2, <1>3, <1>4, <1>5, <1>6, <1>7, <1>8, <1>9, <1>10, <1>11, <1>12, <1>13, <1>14 DEF Import

-----------------------------------------------------------------------------
(* A kb_index keeps the parser and profile it was first bound to (memory). *)
LEMMA ProfileStep ==
  ASSUME domain = "MEMORY", binding # NoBinding, NEW i \in Imports, Shape(i)
  PROVE  binding'.profile = binding.profile
  BY DEF Shape, Patch, SetsProfile

(* Paths are stored before they are written: the invariant adds that what  *)
(* an import saved is stored.                                              *)
FilesInv == FilesBehindDocs /\ \A i \in Imports : exec[i].saved \in files \cup {None}

(* Memory: a binding is only updated to fill in its model, and an import   *)
(* with a model leaves none without one behind it.                         *)
VectorsInv ==
  /\ VectorsBound
  /\ domain = "MEMORY" =>
       \A i \in Imports :
         /\ exec[i].pc = "binding.update" => exec[i].seen.model = None /\ ModelOf[i] # None
         /\ exec[i].pc \in Bound /\ ModelOf[i] # None => binding.model # None

(* An update was chosen on a binding that was read.                        *)
SeenInv == \A i \in Imports : exec[i].pc = "binding.update" => exec[i].seen # NoBinding

Inv == TypeInv /\ BoundBeforeIndexed /\ FilesInv /\ SeenInv /\ CreatorBinds /\ VectorsInv

LEMMA InvInit == Init => Inv
<1> SUFFICES ASSUME Init PROVE Inv
  OBVIOUS
<1>1. TypeInv
  BY TypeInit
<1>2. BoundBeforeIndexed /\ SeenInv /\ CreatorBinds
  BY DEF Init, BoundBeforeIndexed, SeenInv, CreatorBinds, Fresh, Bound
<1>3. FilesInv /\ VectorsInv
  BY DEF Init, FilesInv, FilesBehindDocs, VectorsInv, VectorsBound, Fresh, NoDoc, Bound
<1> QED BY <1>1, <1>2, <1>3 DEF Inv

LEMMA VectorsStep ==
  ASSUME TypeInv, VectorsInv, NEW i \in Imports, Shape(i)
  PROVE  VectorsInv'
<1> USE DEF Shape
<1>1. CASE domain # "MEMORY"
  BY <1>1 DEF VectorsInv, VectorsBound
<1>2. CASE domain = "MEMORY"
  <2> USE <1>2
  <2>1. At(i, "binding.update") /\ Patch(i) => ModelOf[i] # None /\ binding'.model = ModelOf[i]
    BY DEF VectorsInv, At, Patch, SetsModel
  <2>2. Bind(i) => binding'.model = ModelOf[i]
    BY DEF Bind
  <2>3. binding.model # None => binding'.model # None
    BY <2>1 DEF NoBinding
  <2>4. ASSUME NEW j \in Imports, exec'[j].pc = "binding.update"
        PROVE  exec'[j].seen.model = None /\ ModelOf[j] # None
    <3>1. CASE j = i
      BY <2>4, <3>1 DEF SetsModel, SetsProfile
    <3>2. CASE j # i
      BY <2>4, <3>2 DEF VectorsInv
    <3> QED BY <3>1, <3>2
  <2>5. ASSUME NEW j \in Imports, exec'[j].pc \in Bound, ModelOf[j] # None
        PROVE  binding'.model # None
    <3>1. CASE exec[j].pc \in Bound
      BY <2>3, <2>5, <3>1 DEF VectorsInv
    <3>2. CASE j = i /\ exec[i].pc \notin Bound
      BY <2>1, <2>2, <2>5, <3>2 DEF SetsModel
    <3> QED BY <2>5, <3>1, <3>2
  <2>6. VectorsBound'
    <3> SUFFICES ASSUME NEW x \in Docs, docs'[x].vector # None PROVE binding'.model # None
      BY DEF VectorsBound
    <3>1. CASE docs'[x].vector = docs[x].vector
      BY <2>3, <3>1 DEF VectorsInv, VectorsBound
    <3>2. CASE docs'[x].vector # docs[x].vector
      <4>1. PICK d \in Docs : At(i, "bulk") /\ docs' = [docs EXCEPT ![d] = Merged(i, d)]
        BY <3>2
      <4>2. x = d /\ docs'[x] = Merged(i, d)
        BY <3>2, <4>1 DEF TypeInv, TypeOK
      <4>3. ModelOf[i] # None
        BY <3>2, <4>2 DEF Merged
      <4> QED BY <2>3, <4>1, <4>3 DEF VectorsInv, At, Bound
    <3> QED BY <3>1, <3>2
  <2> QED BY <2>4, <2>5, <2>6 DEF VectorsInv
<1> QED BY <1>1, <1>2

LEMMA InvStep == Inv /\ [Next]_vars => Inv'
<1> SUFFICES ASSUME Inv, [Next]_vars PROVE Inv'
  OBVIOUS
<1>1. TypeInv /\ TypeInv'
  BY TypeStep DEF Inv
<1>2. CASE UNCHANGED vars
  BY <1>1, <1>2 DEF vars, Inv, BoundBeforeIndexed, FilesInv, FilesBehindDocs, SeenInv,
                    CreatorBinds, VectorsInv, VectorsBound
<1>3. ASSUME NEW i \in Imports, Shape(i) PROVE Inv'
  <2> USE <1>3 DEF Shape
  <2>1. binding # NoBinding => binding' # NoBinding
    <3>1. At(i, "binding.update") => binding \in Settings
      BY <1>1 DEF TypeInv, TypeOK, BoundSteps, At
    <3> QED BY <3>1, BindType, PatchType
  <2>2. BoundBeforeIndexed'
    <3>1. docs' # docs \/ index'.exists # index.exists => binding # NoBinding
      BY <1>1 DEF TypeInv, BoundSteps, At, Bound
    <3> QED BY <2>1, <3>1 DEF Inv, BoundBeforeIndexed
  <2>3. \A j \in Imports : exec'[j].saved \in files' \cup {None}
    BY DEF Inv, FilesInv
  <2>4. FilesBehindDocs'
    <3>1. CASE docs' = docs
      BY <3>1 DEF Inv, FilesInv, FilesBehindDocs
    <3>2. ASSUME NEW d \in Docs, docs' = [docs EXCEPT ![d] = Merged(i, d)] PROVE FilesBehindDocs'
      <4>1. Merged(i, d).file \in files \cup {None}
        BY DEF Merged, Inv, FilesInv, FilesBehindDocs
      <4>2. \A x \in Docs : docs'[x] = docs[x] \/ docs'[x] = Merged(i, d)
        BY <1>1, <3>2 DEF TypeInv, TypeOK
      <4> QED BY <4>1, <4>2 DEF Inv, FilesInv, FilesBehindDocs
    <3> QED BY <3>1, <3>2
  <2>5. SeenInv'
    BY DEF Inv, SeenInv
  <2>6. CreatorBinds'
    <3> SUFFICES ASSUME domain = "MEMORY", NEW j \in Imports,
                        exec'[j].pc \in Bound, exec'[j].seen = NoBinding
                 PROVE  binding'.profile = ProfileOf[j]
      BY DEF CreatorBinds
    <3>1. CASE exec[j].pc \in Bound /\ exec[j].seen = NoBinding
      <4>1. binding # NoBinding /\ binding.profile = ProfileOf[j]
        BY <1>1, <3>1 DEF Inv, TypeInv, BoundSteps, CreatorBinds
      <4> QED BY <4>1, ProfileStep
    <3>2. CASE j = i /\ ~(exec[j].pc \in Bound /\ exec[j].seen = NoBinding)
      <4>1. Bind(i)
        BY <3>2 DEF Inv, SeenInv, At
      <4> QED BY <3>2, <4>1 DEF Bind
    <3> QED BY <3>1, <3>2
  <2>7. VectorsInv'
    BY <1>1, VectorsStep DEF Inv
  <2> QED BY <1>1, <2>2, <2>3, <2>4, <2>5, <2>6, <2>7 DEF Inv, FilesInv
<1> QED BY <1>1, <1>2, <1>3, StepShape DEF Next

LEMMA InvAlways == Spec => []Inv
  BY InvInit, InvStep, PTL DEF Spec

(* No document and no content index without a binding, for any number of   *)
(* racing, failing and repeated imports (store_memory.py:196-219).         *)
THEOREM BoundFirst == Spec => []BoundBeforeIndexed
  BY InvAlways, PTL DEF Inv

(* Every path in a document is that of a stored file                       *)
(* (store_memory.py:189-193).                                              *)
THEOREM FilesFirst == Spec => []FilesBehindDocs
  BY InvAlways, PTL DEF Inv, FilesInv

(* Of racing first memory imports only those of the profile that was bound *)
(* write documents (store_memory.py:410).                                  *)
THEOREM CreatorIsBound == Spec => []CreatorBinds
  BY InvAlways, PTL DEF Inv

(* A memory index with vectors is bound to a model, whatever races, fails  *)
(* or starts over between the look at the binding, its update and the bulk *)
(* (store_memory.py:368-384).                                              *)
THEOREM VectorsAreBound == Spec => []VectorsBound
  BY InvAlways, PTL DEF Inv, VectorsInv

(* The profile of a memory kb_index is never replaced                      *)
(* (opensearch/writer.py:147-159).                                         *)
THEOREM ProfileIsKept == Spec => ProfileKept
<1>1. TypeInv /\ [Next]_vars =>
        [domain = "MEMORY" /\ binding # NoBinding => binding'.profile = binding.profile]_vars
  BY StepShape, ProfileStep DEF Next
<1>2. Spec => []TypeInv
  BY TypeInit, TypeStep, PTL DEF Spec
<1> QED BY <1>1, <1>2, PTL DEF Spec, ProfileKept

-----------------------------------------------------------------------------
(* One model per kb_index is kept by the requests, not by the code: the    *)
(* imports that name a vector model name the same one.                     *)
ModelsAgree ==
  \A i, j \in Imports : None \notin {ModelOf[i], ModelOf[j]} => ModelOf[i] = ModelOf[j]

(* Memory: the model of the binding is that of an import and stays, an     *)
(* update was chosen to fill it in, and past the binding an import with a  *)
(* model finds its own there.                                              *)
ModelInv ==
  domain = "MEMORY" =>
    /\ binding.model # None => \E i \in Imports : binding.model = ModelOf[i]
    /\ \A i \in Imports :
         /\ exec[i].pc = "binding.update" => exec[i].seen.model = None /\ ModelOf[i] # None
         /\ exec[i].pc \in Bound /\ ModelOf[i] # None => binding.model = ModelOf[i]

(* A step of an import leaves the model of a memory binding alone, or sets *)
(* it to the model of the import.                                          *)
LEMMA ModelSet ==
  ASSUME ModelsAgree, ModelInv, domain = "MEMORY", NEW i \in Imports, Shape(i)
  PROVE  /\ \/ binding'.model = binding.model
            \/ binding.model = None /\ binding'.model = ModelOf[i]
         /\ binding' = binding \/ binding'.model = ModelOf[i]
<1>1. CASE binding' = binding
  BY <1>1
<1>2. CASE binding = NoBinding /\ Bind(i)
  BY <1>2 DEF Bind, NoBinding
<1>3. CASE At(i, "binding.update") /\ Patch(i)
  <2>1. SetsModel(i, exec[i].seen) /\ ModelOf[i] # None
    BY <1>3 DEF ModelInv, At, SetsModel
  <2>2. binding'.model = ModelOf[i]
    BY <1>3, <2>1 DEF Patch
  <2>3. binding.model # None => binding.model = ModelOf[i]
    BY <2>1 DEF ModelInv, ModelsAgree
  <2> QED BY <2>2, <2>3
<1> QED BY <1>1, <1>2, <1>3 DEF Shape

LEMMA ModelStep ==
  ASSUME ModelsAgree, TypeInv, ModelInv, OneVectorModel, [Next]_vars
  PROVE  ModelInv' /\ OneVectorModel'
<1>1. CASE UNCHANGED vars
  BY <1>1 DEF vars, ModelInv, OneVectorModel, SetsModel
<1>2. ASSUME NEW i \in Imports, Shape(i), domain = "MEMORY" PROVE ModelInv' /\ OneVectorModel'
  <2> USE <1>2 DEF Shape
  <2>1. /\ binding'.model = binding.model \/ (binding.model = None /\ binding'.model = ModelOf[i])
        /\ binding' = binding \/ binding'.model = ModelOf[i]
    BY ModelSet
  <2>2. binding'.model # None => \E j \in Imports : binding'.model = ModelOf[j]
    BY <2>1 DEF ModelInv
  <2>3. ASSUME NEW j \in Imports, exec'[j].pc = "binding.update"
        PROVE  exec'[j].seen.model = None /\ ModelOf[j] # None
    <3>1. CASE j = i
      BY <2>3, <3>1 DEF SetsModel, SetsProfile
    <3>2. CASE j # i
      BY <2>3, <3>2 DEF ModelInv
    <3> QED BY <3>1, <3>2
  <2>4. ASSUME NEW j \in Imports, exec'[j].pc \in Bound, ModelOf[j] # None
        PROVE  binding'.model = ModelOf[j]
    <3>1. CASE exec[j].pc \in Bound
      BY <2>1, <2>4, <3>1 DEF ModelInv
    <3>2. CASE j = i /\ exec[i].pc \notin Bound /\ binding' = binding /\ ~SetsModel(i, binding)
      <4>1. binding.model # None
        BY <2>4, <3>2 DEF SetsModel
      <4> QED BY <2>4, <3>2, <4>1 DEF ModelInv, ModelsAgree
    <3>3. CASE j = i /\ Bind(i)
      BY <3>3 DEF Bind
    <3>4. CASE j = i /\ At(i, "binding.update") /\ Patch(i)
      <4>1. SetsModel(i, exec[i].seen)
        BY <3>4 DEF ModelInv, At, SetsModel
      <4> QED BY <3>4, <4>1 DEF Patch
    <3> QED BY <2>4, <3>1, <3>2, <3>3, <3>4
  <2>5. ModelInv'
    BY <2>2, <2>3, <2>4 DEF ModelInv
  <2>6. ASSUME NEW x \in Docs PROVE docs'[x].vector \in {None, binding'.model}
    <3>1. docs[x].vector \in {None, binding'.model}
      BY <2>1 DEF OneVectorModel
    <3>2. CASE docs'[x].vector # docs[x].vector
      <4>1. PICK d \in Docs : At(i, "bulk") /\ docs' = [docs EXCEPT ![d] = Merged(i, d)]
        BY <3>2
      <4>2. x = d /\ docs'[x] = Merged(i, d)
        BY <3>2, <4>1 DEF TypeInv, TypeOK
      <4>3. ModelOf[i] # None /\ docs'[x].vector = ModelOf[i]
        BY <3>2, <4>2 DEF Merged
      <4>4. binding.model = ModelOf[i]
        BY <4>1, <4>3 DEF ModelInv, At, Bound
      <4> QED BY <2>1, <4>3, <4>4
    <3> QED BY <3>1, <3>2
  <2> QED BY <2>5, <2>6 DEF OneVectorModel
<1>3. ASSUME NEW i \in Imports, Shape(i), domain # "MEMORY" PROVE ModelInv' /\ OneVectorModel'
  BY <1>3 DEF Shape, ModelInv, OneVectorModel
<1> QED BY <1>1, <1>2, <1>3, StepShape DEF Next

(* "One kb_index is bound to one vector model" (02_API, section 3) as far  *)
(* as the code keeps it: if the requests with a vector_model agree on it,  *)
(* every vector of a memory index is of the bound model, however first     *)
(* imports with and without a model race, fail and start over              *)
(* (store_memory.py:368-384).  StoreOtherModel shows that requests which   *)
(* disagree break it.                                                      *)
THEOREM OneModelIfAgreed == ASSUME ModelsAgree PROVE Spec => []OneVectorModel
<1>1. Init => ModelInv /\ OneVectorModel
  BY DEF Init, ModelInv, OneVectorModel, NoBinding, NoDoc, Fresh, Bound
<1>2. TypeInv /\ ModelInv /\ OneVectorModel /\ [Next]_vars => ModelInv' /\ OneVectorModel'
  BY ModelStep
<1>3. Spec => []TypeInv
  BY TypeInit, TypeStep, PTL DEF Spec
<1> QED BY <1>1, <1>2, <1>3, PTL DEF Spec

-----------------------------------------------------------------------------
(* What imports do to the binding and the documents is what DocumentStore, *)
(* the writers' promise, lets their calls do: the memory of one kb_index,  *)
(* whose writes are merged; a binding is told apart by its settings.       *)
AsWritten ==
  [x \in {"kb"} |-> IF binding = NoBinding THEN [state |-> "none", by |-> None]
                    ELSE [state |-> "active", by |-> binding]]

NoRecord == [status |-> "none", note |-> None]

DS == INSTANCE DocumentStore WITH
        Indexes <- {"kb"}, Ids <- Docs, Vectors <- Models, Calls <- Imports \cup Settings,
        merges <- TRUE, bindings <- AsWritten,
        docs <- [d \in Docs |-> [text |-> docs[d].text, vector |-> docs[d].vector]],
        task <- NoRecord, versions <- {NoRecord}

OnWriter == DS!Spec

LEMMA OneStore ==
  ASSUME TypeInv, NEW i \in Imports, Import(i) \/ Interrupt(i)
  PROVE  binding' = binding \/ docs' = docs
<1>1. CASE Interrupt(i)
  BY <1>1 DEF Interrupt
<1>2. CASE Import(i)
  BY <1>2 DEF Import, Begin, SaveFiles, GetBinding, CreateBinding, UpdateBinding, Embed,
              IndexExists, CreateIndex, GetMapping, PutMapping, Upsert, Refuse, Return
<1> QED BY <1>1, <1>2

(* A new binding is created or patched through the writer.                 *)
LEMMA BindingWritten ==
  ASSUME TypeInv, NEW i \in Imports, docs' = docs,
         \/ binding = NoBinding /\ Bind(i)
         \/ At(i, "binding.update") /\ Patch(i)
  PROVE  DS!Next
<1>1. At(i, "binding.update") => binding \in Settings
  BY DEF TypeInv, TypeOK, BoundSteps, At, Bound
<1>2. binding' \in Settings /\ binding' # NoBinding
  BY <1>1, BindType, PatchType
<1>3. AsWritten' = [AsWritten EXCEPT !["kb"] = [state |-> "active", by |-> binding']]
  BY <1>2 DEF AsWritten
<1>4. AsWritten["kb"].state = IF binding = NoBinding THEN "none" ELSE "active"
  BY DEF AsWritten
<1>5. CASE binding = NoBinding
  <2>1. DS!Bind("kb", binding')
    BY <1>3, <1>4, <1>5 DEF DS!Bind, DS!Store
  <2> QED BY <1>2, <2>1 DEF DS!Next
<1>6. CASE binding # NoBinding
  <2>1. DS!Rebind("kb", binding')
    BY <1>3, <1>4, <1>6 DEF DS!Rebind, DS!Store
  <2> QED BY <1>2, <2>1 DEF DS!Next
<1> QED BY <1>5, <1>6

(* A document is merged over the one it replaces: an import without a      *)
(* model sends no vector.                                                  *)
LEMMA DocumentWritten ==
  ASSUME TypeInv, NEW i \in Imports, NEW d \in Docs, binding' = binding,
         docs' = [docs EXCEPT ![d] = Merged(i, d)]
  PROVE  DS!Next
<1> DEFINE v   == ModelOf[i]
           new == [x \in {d} |-> v]
           old == [x \in Docs |-> [text |-> docs[x].text, vector |-> docs[x].vector]]
           upd == [x \in Docs |-> [text |-> docs'[x].text, vector |-> docs'[x].vector]]
<1>1. v \in Models \cup {None}
  OBVIOUS
<1>2. /\ docs'[d] = Merged(i, d)
      /\ \A x \in Docs \ {d} : docs'[x] = docs[x]
  BY DEF TypeInv, TypeOK
<1>3. /\ Merged(i, d).text = i
      /\ Merged(i, d).vector = IF v = None THEN docs[d].vector ELSE v
  BY <1>1 DEF Merged
<1>4. new \in [{d} -> Models \cup {None}] /\ new[d] = v
  BY <1>1
<1> HIDE DEF v, new
<1>5. upd = [x \in Docs |->
               IF x \notin {d} THEN old[x]
               ELSE [text |-> i, vector |-> IF TRUE /\ new[x] = None THEN old[x].vector ELSE new[x]]]
  BY <1>2, <1>3, <1>4
<1>6. AsWritten' = AsWritten
  BY DEF AsWritten
<1>7. DS!Upsert(i)
  <2>1. {d} \in SUBSET Docs /\ \E x \in Docs : {d} \subseteq {x}
    OBVIOUS
  <2> QED BY <1>4, <1>5, <1>6, <2>1 DEF DS!Upsert
<1> QED BY <1>7 DEF DS!Next

(* Every step of an import is a call that IDatabaseWriter serves, or       *)
(* leaves the binding and the documents alone, also where it fails half    *)
(* way: imports ask no more of the store than the writers are shown to     *)
(* keep (KeepsPromise in WritersProofs; infrastructure/database/base.py:8).*)
THEOREM WritesAsPromised == Spec => OnWriter
<1>1. Init => DS!Init
  BY DEF Init, DS!Init, AsWritten, NoRecord, NoDoc, DS!NoBinding, DS!NoDoc, DS!NoTask
<1>2. TypeInv /\ [Next]_vars => [DS!Next]_(DS!vars)
  <2> SUFFICES ASSUME TypeInv, [Next]_vars PROVE DS!Next \/ UNCHANGED DS!vars
    OBVIOUS
  <2>1. binding' = binding /\ docs' = docs => UNCHANGED DS!vars
    BY DEF DS!vars, AsWritten
  <2>2. ASSUME NEW i \in Imports, Import(i) \/ Interrupt(i) PROVE DS!Next \/ UNCHANGED DS!vars
    <3>1. Shape(i) /\ (binding' = binding \/ docs' = docs)
      BY <2>2, StepShape, OneStore
    <3> QED BY <2>1, <3>1, BindingWritten, DocumentWritten DEF Shape
  <2> QED BY <2>1, <2>2 DEF Next, vars
<1>3. Spec => []TypeInv
  BY TypeInit, TypeStep, PTL DEF Spec
<1> QED BY <1>1, <1>2, <1>3, PTL DEF Spec, OnWriter, DS!Spec
=============================================================================
