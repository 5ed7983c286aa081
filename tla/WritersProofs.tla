--------------------------- MODULE WritersProofs ---------------------------
(***************************************************************************)
(* Theorems about the database writers: types, the bindings, the vector    *)
(* field, the claims of a task, and that the writers implement the store   *)
(* of DocumentStore.                                                       *)
(***************************************************************************)
EXTENDS DatabaseWriters, FiniteSetTheorems, TLAPS

Element == [id : Ids \cup {None}, dim : Dims \cup {None}]

(* A call that was made has a request.                                     *)
Made == \A k \in Calls : call[k].pc # "new" => call[k].req \in Requests

TInv == TypeOK /\ Made

LEMMA RequestKinds ==
  ASSUME NEW r \in Requests
  PROVE  /\ r.op \in {"bind", "unbind", "rebind"} => r.index \in Indexes
         /\ r.op = "upsert" => r.docs \in Batches
         /\ r.op = "task.update" => r.update \in Updates
  BY DEF Requests

LEMMA BatchElements ==
  ASSUME NEW b \in Batches
  PROVE  b \in Seq(Element)
  BY ConstantsOK DEF ConstantsOK, Element

(* What a step of call k that ends in c leaves behind.                     *)
LEMMA Moved ==
  ASSUME TInv, NEW k \in Calls, NEW c, Becomes(k, c)
  PROVE  /\ call' = [call EXCEPT ![k] = c]
         /\ call'[k] = c
         /\ \A l \in Calls \ {k} : call'[l] = call[l]
         /\ backend' = backend /\ before' = before
         /\ c \in Call /\ c.req = call[k].req /\ call[k].pc # "new" =>
              call' \in [Calls -> Call] /\ Made'
  BY DEF TInv, TypeOK, Made, Becomes

LEMMA Going ==
  ASSUME TInv, NEW k \in Calls, NEW s \in Steps
  PROVE  LET c == [call[k] EXCEPT !.pc = s]
         IN  /\ c \in Call /\ c.pc = s /\ c.req = call[k].req
             /\ c.todo = call[k].todo /\ c.bad = call[k].bad
             /\ c.copy = call[k].copy /\ c.answer = call[k].answer
<1>1. call[k] \in Call
  BY DEF TInv, TypeOK
<1>. QED  BY <1>1 DEF Call

LEMMA Ending ==
  ASSUME TInv, NEW k \in Calls, NEW a \in Answers
  PROVE  LET c == [call[k] EXCEPT !.pc = "ended", !.answer = a]
         IN  /\ c \in Call /\ c.pc = "ended" /\ c.req = call[k].req
             /\ c.todo = call[k].todo /\ c.bad = call[k].bad
             /\ c.copy = call[k].copy /\ c.answer = a
<1>1. call[k] \in Call
  BY DEF TInv, TypeOK
<1>. QED  BY <1>1 DEF Call, Steps

LEMMA Returned ==
  ASSUME TInv, NEW k \in Calls, NEW a \in Answers, Return(k, a), call[k].pc # "new"
  PROVE  /\ call' \in [Calls -> Call] /\ Made'
         /\ backend' = backend /\ before' = before
         /\ faults' \in 0..MaxFaults
         /\ \A l \in Calls \ {k} : call'[l] = call[l]
         /\ call'[k].pc = "ended" /\ call'[k].req = call[k].req
         /\ call'[k].answer \in {a, "raised"}
         /\ call'[k].bad = call[k].bad /\ call'[k].todo = call[k].todo
<1>1. "raised" \in Answers
  BY DEF Answers
<1>2. faults \in Nat /\ MaxFaults \in Nat /\ faults <= MaxFaults
  BY ConstantsOK DEF ConstantsOK, TInv, TypeOK
<1>3. CASE /\ Becomes(k, [call[k] EXCEPT !.pc = "ended", !.answer = a])
           /\ UNCHANGED faults
  <2>. DEFINE c == [call[k] EXCEPT !.pc = "ended", !.answer = a]
  <2>1. /\ c \in Call /\ c.pc = "ended" /\ c.req = call[k].req /\ c.answer = a
        /\ c.todo = call[k].todo /\ c.bad = call[k].bad
    BY Ending
  <2>2. Becomes(k, c)
    BY <1>3
  <2>. HIDE DEF c
  <2>. QED  BY <1>2, <1>3, <2>1, <2>2, Moved
<1>4. CASE /\ faults < MaxFaults /\ faults' = faults + 1
           /\ Becomes(k, [call[k] EXCEPT !.pc = "ended", !.answer = "raised"])
  <2>. DEFINE c == [call[k] EXCEPT !.pc = "ended", !.answer = "raised"]
  <2>1. /\ c \in Call /\ c.pc = "ended" /\ c.req = call[k].req /\ c.answer = "raised"
        /\ c.todo = call[k].todo /\ c.bad = call[k].bad
    BY <1>1, Ending
  <2>2. Becomes(k, c)
    BY <1>4
  <2>. HIDE DEF c
  <2>. QED  BY <1>2, <1>4, <2>1, <2>2, Moved
<1>. QED  BY <1>3, <1>4 DEF Return

LEMMA SendingLemma ==
  ASSUME TInv, NEW k \in Calls, NEW n \in Nat, NEW f \in Nat, Sent(k, n, f),
         call[k].pc # "new", n <= Len(call[k].todo)
  PROVE  /\ call' \in [Calls -> Call] /\ Made'
         /\ backend' = backend /\ before' = before
         /\ \A l \in Calls \ {k} : call'[l] = call[l]
         /\ call'[k].pc = call[k].pc /\ call'[k].req = call[k].req
         /\ call'[k].answer = call[k].answer
         /\ call'[k].bad = call[k].bad + f
         /\ call'[k].todo = SubSeq(call[k].todo, n + 1, Len(call[k].todo))
<1>. DEFINE todo == SubSeq(call[k].todo, n + 1, Len(call[k].todo))
            bad == call[k].bad + f
            c == [call[k] EXCEPT !.todo = todo, !.bad = bad]
<1>1. call[k] \in Call
  BY DEF TInv, TypeOK
<1>2. /\ call[k].todo \in Seq(Element) /\ call[k].bad \in Nat
  BY <1>1 DEF Call, Element
<1>3. todo \in Seq(Element) /\ bad \in Nat
  BY <1>2
<1>5. Becomes(k, c)
  BY DEF Sent
<1>4. /\ c \in Call /\ c.pc = call[k].pc /\ c.req = call[k].req
      /\ c.answer = call[k].answer /\ c.bad = bad /\ c.todo = todo
  <2>. HIDE DEF todo, bad
  <2>. QED  BY <1>1, <1>3 DEF Call, Element
<1>. HIDE DEF c
<1>. QED  BY <1>4, <1>5, Moved

LEMMA WrittenType ==
  ASSUME TInv, NEW k \in Calls, NEW d \in Ids, NEW e \in Element
  PROVE  Written(k, d, e) \in DS!Doc
<1>1. docs[d] \in DS!Doc
  BY DEF TInv, TypeOK
<1>2. Vector(k, e) \in Vectors \cup {None}
  BY DEF Vector, Vectors, Element
<1>. QED  BY <1>1, <1>2 DEF Written, DS!Doc

-----------------------------------------------------------------------------
LEMMA TInvInit == Init => TInv
<1>. SUFFICES ASSUME Init PROVE TInv
  OBVIOUS
<1>1. DS!NoBinding \in DS!Binding /\ DS!NoDoc \in DS!Doc /\ DS!NoTask \in DS!Task
  BY DEF DS!NoBinding, DS!NoDoc, DS!NoTask, DS!Binding, DS!Doc, DS!Task
<1>2. New \in Call /\ New.pc = "new"
  BY <1>1 DEF New, Call, Steps, Answers
<1>3. 0 \in 0..MaxFaults
  BY ConstantsOK DEF ConstantsOK
<1>. QED  BY <1>1, <1>2, <1>3 DEF Init, TInv, TypeOK, Made

LEMMA TInvAsk ==
  ASSUME TInv, NEW k \in Calls, NEW r \in Requests, Ask(k, r)
  PROVE  /\ TInv'
         /\ call'[k].req = r /\ call'[k].pc = FirstStep(r)
         /\ call'[k].pc \notin {"new", "ended"}
         /\ call'[k].todo = IF r.op = "upsert" THEN r.docs ELSE <<>>
         /\ call'[k].bad = 0
         /\ before'[k] = {l \in Calls : call[l].pc = "ended"}
         /\ \A l \in Calls \ {k} : call'[l] = call[l] /\ before'[l] = before[l]
<1>. DEFINE todo == IF r.op = "upsert" THEN r.docs ELSE <<>>
            c == [req |-> r, pc |-> FirstStep(r), todo |-> todo,
                  bad |-> 0, copy |-> DS!NoTask, answer |-> None]
<1>1. FirstStep(r) \in Steps \ {"new", "ended"}
  <2>1. r.op = "upsert" \/ r.op = "task.update" \/ r.op \notin {"upsert", "task.update"}
    OBVIOUS
  <2>. QED  BY <2>1 DEF FirstStep, Steps
<1>2. todo \in Seq(Element)
  BY RequestKinds, BatchElements
<1>3. DS!NoTask \in DS!Task
  BY DEF DS!NoTask, DS!Task
<1>4. c \in Call
  BY <1>1, <1>2, <1>3 DEF Call, Element, Answers
<1>5. call' = [call EXCEPT ![k] = c] /\ call \in [Calls -> Call]
  BY DEF Ask, TInv, TypeOK
<1>6. before' = [before EXCEPT ![k] = {l \in Calls : call[l].pc = "ended"}]
      /\ before \in [Calls -> SUBSET Calls]
  BY DEF Ask, TInv, TypeOK
<1>7. UNCHANGED <<backend, store, faults>>
  BY DEF Ask
<1>8. TypeOK'
  BY <1>4, <1>5, <1>6, <1>7 DEF TInv, TypeOK, store
<1>9. Made'
  BY <1>5 DEF TInv, Made
<1>. QED  BY <1>1, <1>5, <1>6, <1>8, <1>9 DEF TInv

(* What every step of call k leaves as it is.                              *)
Shape(k) ==
  /\ backend' = backend
  /\ \A l \in Calls \ {k} : call'[l] = call[l] /\ before'[l] = before[l]
  /\ call[k].pc # "ended" /\ call'[k].pc # "new"
  /\ call[k].pc # "new" => call'[k].req = call[k].req /\ before' = before

LEMMA GoTo ==
  ASSUME TInv, NEW k \in Calls, NEW s \in Steps \ {"new"}, Goto(k, s),
         call[k].pc \notin {"new", "ended"}
  PROVE  /\ call' \in [Calls -> Call] /\ Made' /\ Shape(k)
         /\ before' = before /\ call'[k].pc = s /\ call'[k].req = call[k].req
         /\ call'[k].todo = call[k].todo /\ call'[k].bad = call[k].bad
         /\ call'[k].answer = call[k].answer
<1>. DEFINE c == [call[k] EXCEPT !.pc = s]
<1>1. /\ c \in Call /\ c.pc = s /\ c.req = call[k].req /\ c.todo = call[k].todo
      /\ c.bad = call[k].bad /\ c.answer = call[k].answer
  BY Going
<1>2. Becomes(k, c)
  BY DEF Goto
<1>. HIDE DEF c
<1>. QED  BY <1>1, <1>2, Moved DEF Shape

LEMMA EndsWith ==
  ASSUME TInv, NEW k \in Calls, NEW a \in Answers,
         Becomes(k, [call[k] EXCEPT !.pc = "ended", !.answer = a]),
         call[k].pc \notin {"new", "ended"}
  PROVE  /\ call' \in [Calls -> Call] /\ Made' /\ Shape(k)
         /\ before' = before /\ call'[k].pc = "ended" /\ call'[k].req = call[k].req
         /\ call'[k].todo = call[k].todo /\ call'[k].bad = call[k].bad
         /\ call'[k].answer = a
<1>. DEFINE c == [call[k] EXCEPT !.pc = "ended", !.answer = a]
<1>1. /\ c \in Call /\ c.pc = "ended" /\ c.req = call[k].req /\ c.todo = call[k].todo
      /\ c.bad = call[k].bad /\ c.answer = a
  BY Ending
<1>2. Becomes(k, c)
  OBVIOUS
<1>. HIDE DEF c
<1>. QED  BY <1>1, <1>2, Moved DEF Shape

LEMMA StepRaise ==
  ASSUME TInv, NEW k \in Calls, Raise(k)
  PROVE  /\ TInv' /\ Shape(k) /\ UNCHANGED store
         /\ call'[k].pc = "ended" /\ call'[k].answer = "raised"
<1>1. /\ Becomes(k, [call[k] EXCEPT !.pc = "ended", !.answer = "raised"])
      /\ call[k].pc \notin {"new", "ended"} /\ UNCHANGED store
      /\ faults < MaxFaults /\ faults' = faults + 1
  BY DEF Raise
<1>2. "raised" \in Answers
  BY DEF Answers
<1>3. backend' = backend
  BY <1>1 DEF Becomes
<1>4. faults' \in 0..MaxFaults
  BY <1>1, ConstantsOK DEF ConstantsOK, TInv, TypeOK
<1>. QED  BY <1>1, <1>2, <1>3, <1>4, EndsWith DEF TInv, TypeOK, store

LEMMA BindingType ==
  ASSUME TInv, NEW i \in Indexes, NEW s \in {"none", "active", "inactive"},
         NEW b \in Calls \cup {None},
         bindings' = [bindings EXCEPT ![i] = [state |-> s, by |-> b]]
  PROVE  /\ bindings' \in [Indexes -> DS!Binding]
         /\ bindings'[i] = [state |-> s, by |-> b]
         /\ \A j \in Indexes \ {i} : bindings'[j] = bindings[j]
BY DEF TInv, TypeOK, DS!Binding

(* The three operations on a binding: what they write, and the answer.     *)
LEMMA StepBind ==
  ASSUME TInv, NEW k \in Calls, Bind(k)
  PROVE  /\ TInv' /\ Shape(k) /\ UNCHANGED <<docs, task, versions, mapping>>
         /\ call[k].req.op = "bind" /\ call[k].req.index \in Indexes
         /\ call'[k].pc = "ended"
         /\ \/ /\ UNCHANGED bindings /\ call'[k].answer # "created"
            \/ /\ ~Taken(call[k].req.index)
               /\ bindings' = [bindings EXCEPT ![call[k].req.index] =
                                  [state |-> "active", by |-> k]]
<1>. DEFINE i == call[k].req.index
<1>1. call[k].pc = "write" /\ call[k].req.op = "bind"
  BY DEF Bind, At
<1>2. i \in Indexes
  BY <1>1, RequestKinds DEF TInv, Made
<1>3. UNCHANGED <<docs, task, versions, mapping>>
  BY DEF Bind
<1>4. CASE Taken(i)
  <2>1. Return(k, "conflict") /\ UNCHANGED bindings
    BY <1>4 DEF Bind
  <2>2. "conflict" \in Answers
    BY DEF Answers
  <2>. QED  BY <1>1, <1>2, <1>3, <2>1, <2>2, Returned DEF TInv, TypeOK, Shape
<1>5. CASE ~Taken(i)
  <2>1. /\ bindings' = [bindings EXCEPT ![i] = [state |-> "active", by |-> k]]
        /\ Return(k, "created")
    BY <1>5 DEF Bind
  <2>2. "created" \in Answers
    BY DEF Answers
  <2>3. bindings' \in [Indexes -> DS!Binding]
    BY <1>2, <2>1, BindingType
  <2>. QED  BY <1>1, <1>2, <1>3, <1>5, <2>1, <2>2, <2>3, Returned DEF TInv, TypeOK, Shape
<1>. QED  BY <1>4, <1>5

LEMMA StepUnbind ==
  ASSUME TInv, NEW k \in Calls, Unbind(k)
  PROVE  /\ TInv' /\ Shape(k) /\ UNCHANGED <<docs, task, versions, mapping>>
         /\ call[k].req.op = "unbind" /\ call[k].req.index \in Indexes
         /\ call'[k].pc = "ended"
         /\ \/ /\ UNCHANGED bindings /\ call'[k].answer # "updated"
            \/ /\ CanUnbind(call[k].req.index)
               /\ bindings' = [bindings EXCEPT ![call[k].req.index] =
                    [state |-> "inactive", by |-> bindings[call[k].req.index].by]]
<1>. DEFINE i == call[k].req.index
<1>1. call[k].pc = "write" /\ call[k].req.op = "unbind"
  BY DEF Unbind, At
<1>2. i \in Indexes
  BY <1>1, RequestKinds DEF TInv, Made
<1>3. UNCHANGED <<docs, task, versions, mapping>>
  BY DEF Unbind
<1>4. CASE ~CanUnbind(i)
  <2>1. Return(k, "not_bound") /\ UNCHANGED bindings
    BY <1>4 DEF Unbind
  <2>2. "not_bound" \in Answers
    BY DEF Answers
  <2>. QED  BY <1>1, <1>2, <1>3, <2>1, <2>2, Returned DEF TInv, TypeOK, Shape
<1>5. CASE CanUnbind(i)
  <2>1. /\ bindings' = [bindings EXCEPT ![i] = [state |-> "inactive", by |-> bindings[i].by]]
        /\ Return(k, "updated")
    BY <1>5 DEF Unbind
  <2>2. "updated" \in Answers
    BY DEF Answers
  <2>3. bindings[i].by \in Calls \cup {None}
    BY <1>2 DEF TInv, TypeOK, DS!Binding
  <2>4. bindings' \in [Indexes -> DS!Binding]
    BY <1>2, <2>1, <2>3, BindingType
  <2>. QED  BY <1>1, <1>2, <1>3, <1>5, <2>1, <2>2, <2>4, Returned DEF TInv, TypeOK, Shape
<1>. QED  BY <1>4, <1>5

LEMMA StepRebind ==
  ASSUME TInv, NEW k \in Calls, Rebind(k)
  PROVE  /\ TInv' /\ Shape(k) /\ UNCHANGED <<docs, task, versions, mapping>>
         /\ call[k].req.op = "rebind" /\ call[k].req.index \in Indexes
         /\ call'[k].pc = "ended"
         /\ \/ UNCHANGED bindings
            \/ /\ bindings[call[k].req.index].state # "none"
               /\ bindings' = [bindings EXCEPT ![call[k].req.index] =
                    [state |-> bindings[call[k].req.index].state, by |-> k]]
<1>. DEFINE i == call[k].req.index
<1>1. call[k].pc = "write" /\ call[k].req.op = "rebind"
  BY DEF Rebind, At
<1>2. i \in Indexes
  BY <1>1, RequestKinds DEF TInv, Made
<1>3. UNCHANGED <<docs, task, versions, mapping>>
  BY DEF Rebind
<1>0. {"updated", "not_bound"} \subseteq Answers
  BY DEF Answers
<1>6. CASE /\ Becomes(k, [call[k] EXCEPT !.pc = "ended", !.answer = "false"])
           /\ UNCHANGED <<bindings, faults>>
  <2>1. "false" \in Answers /\ backend' = backend
    BY <1>6 DEF Answers, Becomes
  <2>. QED  BY <1>1, <1>2, <1>3, <1>6, <2>1, EndsWith DEF TInv, TypeOK
<1>4. CASE Return(k, Unpatched) /\ UNCHANGED bindings
  <2>1. PICK a \in Answers : Return(k, a)
    BY <1>0, <1>4 DEF Unpatched
  <2>. QED  BY <1>1, <1>2, <1>3, <1>4, <2>1, Returned DEF TInv, TypeOK, Shape
<1>5. CASE /\ bindings[i].state # "none"
           /\ bindings' = [bindings EXCEPT ![i] = [state |-> bindings[i].state, by |-> k]]
           /\ Return(k, "updated")
  <2>1. /\ bindings' = [bindings EXCEPT ![i] = [state |-> bindings[i].state, by |-> k]]
        /\ Return(k, "updated")
    BY <1>5
  <2>3. bindings[i].state \in {"none", "active", "inactive"}
    BY <1>2 DEF TInv, TypeOK, DS!Binding
  <2>4. bindings' \in [Indexes -> DS!Binding]
    BY <1>2, <2>1, <2>3, BindingType
  <2>. QED  BY <1>0, <1>1, <1>2, <1>3, <1>5, <2>1, <2>4, Returned DEF TInv, TypeOK, Shape
<1>. QED  BY <1>4, <1>5, <1>6 DEF Rebind

-----------------------------------------------------------------------------
(* The requests that prepare the vector field.                             *)
LEMMA StepExists ==
  ASSUME TInv, NEW k \in Calls, IndexExists(k)
  PROVE  /\ TInv' /\ Shape(k) /\ UNCHANGED store
         /\ call[k].pc = "exists" /\ call'[k].pc \in {"mapping", "create"}
         /\ call'[k].todo = call[k].todo
<1>1. call[k].pc = "exists" /\ UNCHANGED store /\ UNCHANGED faults
  BY DEF IndexExists, At
<1>2. PICK s \in {"mapping", "create"} : Goto(k, s)
  BY DEF IndexExists
<1>3. s \in Steps \ {"new"}
  BY <1>2 DEF Steps
<1>. QED  BY <1>1, <1>2, <1>3, GoTo DEF TInv, TypeOK, store, Shape

LEMMA StepMapping ==
  ASSUME TInv, NEW k \in Calls, MappingGet(k)
  PROVE  /\ TInv' /\ Shape(k) /\ UNCHANGED store
         /\ call[k].pc = "mapping" /\ call'[k].pc \in {"put", "bulk"}
         /\ call'[k].pc = "bulk" => mapping.dim # None
         /\ call'[k].todo = call[k].todo
<1>1. call[k].pc = "mapping" /\ UNCHANGED store /\ UNCHANGED faults
  BY DEF MappingGet, At
<1>2. PICK s \in {"put", "bulk"} : Goto(k, s) /\ (s = "bulk" => mapping.dim # None)
  BY DEF MappingGet
<1>3. s \in Steps \ {"new"}
  BY <1>2 DEF Steps
<1>. QED  BY <1>1, <1>2, <1>3, GoTo DEF TInv, TypeOK, store, Shape

LEMMA StepFail ==
  ASSUME TInv, NEW k \in Calls, Fail(k), UNCHANGED store, UNCHANGED faults,
         call[k].pc \notin {"new", "ended"}
  PROVE  /\ TInv' /\ Shape(k) /\ call'[k].pc = "ended" /\ call'[k].answer = "raised"
<1>1. "raised" \in Answers
  BY DEF Answers
<1>2. Becomes(k, [call[k] EXCEPT !.pc = "ended", !.answer = "raised"])
  BY DEF Fail
<1>3. backend' = backend
  BY <1>2 DEF Becomes
<1>. QED  BY <1>1, <1>2, <1>3, EndsWith DEF TInv, TypeOK, store

LEMMA StepField ==
  ASSUME TInv, NEW k \in Calls, NEW dim \in Dims, Goto(k, "bulk"),
         mapping' = [exists |-> TRUE, dim |-> dim],
         UNCHANGED <<bindings, docs, task, versions, faults>>,
         call[k].pc \notin {"new", "ended"}
  PROVE  /\ TInv' /\ Shape(k) /\ call'[k].pc = "bulk"
         /\ call'[k].todo = call[k].todo
<1>1. "bulk" \in Steps \ {"new"}
  BY DEF Steps
<1>2. mapping' \in [exists : BOOLEAN, dim : Dims \cup {None}]
  OBVIOUS
<1>3. backend' = backend
  BY DEF Goto, Becomes
<1>. QED  BY <1>1, <1>2, <1>3, GoTo DEF TInv, TypeOK

LEMMA StepCreate ==
  ASSUME TInv, NEW k \in Calls, IndexCreate(k)
  PROVE  /\ TInv' /\ Shape(k) /\ UNCHANGED <<bindings, docs, task, versions>>
         /\ call[k].pc = "create" /\ call'[k].pc \in {"bulk", "ended"}
         /\ \/ UNCHANGED mapping /\ call'[k].pc = "ended" /\ call'[k].answer = "raised"
            \/ /\ call'[k].pc = "bulk"
               /\ ~mapping.exists /\ call'[k].todo = call[k].todo
               /\ mapping'.dim \in Dims /\ mapping'.exists
<1>1. /\ call[k].pc = "create"
      /\ UNCHANGED <<bindings, docs, task, versions, faults>>
  BY DEF IndexCreate, At
<1>2. CASE mapping.exists
  BY <1>1, <1>2, StepFail DEF IndexCreate, store
<1>3. CASE ~mapping.exists
  <2>1. PICK dim \in Dims : mapping' = [exists |-> TRUE, dim |-> dim]
    BY <1>3 DEF IndexCreate
  <2>2. Goto(k, "bulk")
    BY <1>3 DEF IndexCreate
  <2>. QED  BY <1>1, <1>3, <2>1, <2>2, StepField
<1>. QED  BY <1>2, <1>3

LEMMA StepPut ==
  ASSUME TInv, NEW k \in Calls, MappingPut(k)
  PROVE  /\ TInv' /\ Shape(k) /\ UNCHANGED <<bindings, docs, task, versions>>
         /\ call[k].pc = "put" /\ call'[k].pc \in {"bulk", "ended"}
         /\ \/ UNCHANGED mapping /\ call'[k].pc = "ended" /\ call'[k].answer = "raised"
            \/ /\ call'[k].pc = "bulk"
               /\ mapping.dim \in {None, mapping'.dim} /\ call'[k].todo = call[k].todo
               /\ mapping'.dim \in Dims /\ mapping'.exists
<1>1. /\ call[k].pc = "put"
      /\ UNCHANGED <<bindings, docs, task, versions, faults>>
  BY DEF MappingPut, At
<1>2. PICK dim \in Dims :
        IF mapping.dim \notin {None, dim} THEN Fail(k) /\ UNCHANGED mapping
        ELSE mapping' = [exists |-> TRUE, dim |-> dim] /\ Goto(k, "bulk")
  BY DEF MappingPut
<1>3. CASE mapping.dim \notin {None, dim}
  BY <1>1, <1>2, <1>3, StepFail DEF store
<1>4. CASE mapping.dim \in {None, dim}
  BY <1>1, <1>2, <1>4, StepField
<1>. QED  BY <1>3, <1>4

-----------------------------------------------------------------------------
(* The bulk requests.                                                      *)
LEMMA TailOf ==
  ASSUME NEW S, NEW s \in Seq(S), NEW n \in Nat, n <= Len(s)
  PROVE  /\ SubSeq(s, n + 1, Len(s)) \in Seq(S)
         /\ Len(SubSeq(s, n + 1, Len(s))) = Len(s) - n
         /\ \A m \in 1..(Len(s) - n) : SubSeq(s, n + 1, Len(s))[m] = s[m + n]
  OBVIOUS

LEMMA TodoType ==
  ASSUME TInv, NEW k \in Calls
  PROVE  call[k].todo \in Seq(Element) /\ call[k].bad \in Nat
  BY DEF TInv, TypeOK, Call, Element

(* Counted as f failures, the first n documents are sent.                  *)
Advanced(k, n, f) ==
  /\ call'[k].pc = "bulk" /\ call'[k].answer = call[k].answer
  /\ call'[k].bad = call[k].bad + f
  /\ call'[k].todo = SubSeq(call[k].todo, n + 1, Len(call[k].todo))

LEMMA StepApply ==
  ASSUME TInv, NEW k \in Calls, ApplyDoc(k)
  PROVE  /\ TInv' /\ Shape(k) /\ UNCHANGED <<bindings, task, versions>>
         /\ backend = "elastic" /\ call[k].pc = "bulk" /\ call[k].req.op = "upsert"
         /\ call[k].todo # <<>> /\ Head(call[k].todo) \in Element
         /\ \E f \in {0, 1} :
              /\ Advanced(k, 1, f)
              /\ \/ f = 1 /\ UNCHANGED <<docs, mapping>>
                 \/ LET e == Head(call[k].todo)
                    IN  /\ e.id \in Ids /\ Fits(e)
                        /\ docs' = [docs EXCEPT ![e.id] = Written(k, e.id, e)]
                        /\ mapping' = [exists |-> TRUE, dim |-> mapping.dim]
<1>. DEFINE e == Head(call[k].todo)
<1>1. /\ call[k].pc = "bulk" /\ call[k].req.op = "upsert" /\ call[k].todo # <<>>
      /\ backend = "elastic"
  BY DEF ApplyDoc, At
<1>2. e \in Element /\ 1 <= Len(call[k].todo)
  BY <1>1, TodoType
<1>3. CASE e.id = None \/ ~Fits(e)
  <2>1. Sent(k, 1, 1) /\ UNCHANGED <<store, faults>>
    BY <1>3 DEF ApplyDoc
  <2>. QED
    BY <1>1, <1>2, <2>1, SendingLemma DEF TInv, TypeOK, Shape, store, Advanced
<1>5. CASE /\ faults < MaxFaults /\ faults' = faults + 1
           /\ Sent(k, 1, 1) /\ UNCHANGED store
  <2>1. faults' \in 0..MaxFaults
    BY <1>5, ConstantsOK DEF ConstantsOK, TInv, TypeOK
  <2>. QED
    BY <1>1, <1>2, <1>5, <2>1, SendingLemma DEF TInv, TypeOK, Shape, store, Advanced
<1>4. CASE /\ ~(e.id = None \/ ~Fits(e))
           /\ docs' = [docs EXCEPT ![e.id] = Written(k, e.id, e)]
           /\ mapping' = [exists |-> TRUE, dim |-> mapping.dim]
           /\ \/ Sent(k, 1, 0) /\ UNCHANGED faults
              \/ faults < MaxFaults /\ faults' = faults + 1 /\ Sent(k, 1, 1)
           /\ UNCHANGED <<bindings, task, versions>>
  <2>1. /\ docs' = [docs EXCEPT ![e.id] = Written(k, e.id, e)]
        /\ mapping' = [exists |-> TRUE, dim |-> mapping.dim]
        /\ UNCHANGED <<bindings, task, versions>>
    BY <1>4
  <2>2. PICK f \in {0, 1} : /\ Sent(k, 1, f)
                            /\ faults' \in {faults, faults + 1}
                            /\ faults' = faults \/ faults < MaxFaults
    BY <1>4
  <2>3. e.id \in Ids /\ Fits(e)
    BY <1>2, <1>4 DEF Element
  <2>4. docs' \in [Ids -> DS!Doc]
    BY <1>2, <2>1, <2>3, WrittenType DEF TInv, TypeOK
  <2>5. faults' \in 0..MaxFaults
    BY <2>2, ConstantsOK DEF ConstantsOK, TInv, TypeOK
  <2>6. mapping' \in [exists : BOOLEAN, dim : Dims \cup {None}]
    BY <2>1 DEF TInv, TypeOK
  <2>7. /\ call' \in [Calls -> Call] /\ Made'
        /\ backend' = backend /\ before' = before
        /\ \A l \in Calls \ {k} : call'[l] = call[l]
        /\ call'[k].req = call[k].req /\ Advanced(k, 1, f)
    BY <1>1, <1>2, <2>2, SendingLemma DEF Advanced
  <2>8. Shape(k)
    BY <1>1, <2>7 DEF Shape, Advanced
  <2>9. TInv'
    BY <2>1, <2>4, <2>5, <2>6, <2>7 DEF TInv, TypeOK
  <2>. QED  BY <1>1, <1>2, <2>1, <2>3, <2>7, <2>8, <2>9
<1>. QED  BY <1>3, <1>4, <1>5 DEF ApplyDoc


(* The rows of a chunk are all written, or none is and each is counted.    *)
Rows(k, n, ids) ==
  \E last \in [ids -> 1..n] :
    docs' = [d \in Ids |-> IF d \in ids THEN Written(k, d, call[k].todo[last[d]])
                           ELSE docs[d]]

LEMMA RowsType ==
  ASSUME TInv, NEW k \in Calls, NEW n \in 1..Len(call[k].todo),
         NEW ids \in SUBSET Ids, Rows(k, n, ids)
  PROVE  /\ docs' \in [Ids -> DS!Doc]
         /\ \A d \in Ids : docs'[d].text = IF d \in ids THEN k ELSE docs[d].text
<1>1. PICK last \in [ids -> 1..n] :
        docs' = [d \in Ids |-> IF d \in ids THEN Written(k, d, call[k].todo[last[d]])
                               ELSE docs[d]]
  BY DEF Rows
<1>2. ASSUME NEW d \in Ids
      PROVE  /\ docs'[d] \in DS!Doc
             /\ docs'[d].text = IF d \in ids THEN k ELSE docs[d].text
  <2>1. CASE d \in ids
    <3>1. call[k].todo[last[d]] \in Element
      BY <2>1, TodoType
    <3>2. docs'[d] = Written(k, d, call[k].todo[last[d]])
      BY <1>1, <2>1
    <3>3. Written(k, d, call[k].todo[last[d]]) \in DS!Doc
      BY <3>1, WrittenType
    <3>4. Written(k, d, call[k].todo[last[d]]).text = k
      BY DEF Written
    <3>. QED  BY <2>1, <3>2, <3>3, <3>4
  <2>2. CASE d \notin ids
    BY <1>1, <2>2 DEF TInv, TypeOK
  <2>. QED  BY <2>1, <2>2
<1>3. DOMAIN docs' = Ids
  BY <1>1
<1>. QED  BY <1>1, <1>2, <1>3

LEMMA StepChunk ==
  ASSUME TInv, NEW k \in Calls, SendChunk(k)
  PROVE  /\ TInv' /\ Shape(k) /\ UNCHANGED <<bindings, task, versions, mapping>>
         /\ backend = "postgres" /\ call[k].pc = "bulk" /\ call[k].req.op = "upsert"
         /\ \E n \in 1..Len(call[k].todo), f \in Nat, ids \in SUBSET Ids :
              /\ Advanced(k, n, f)
              /\ f = 0 => /\ \A m \in 1..n : call[k].todo[m].id \in ids
                          /\ Rows(k, n, ids)
              /\ UNCHANGED docs \/ Rows(k, n, ids)
<1>. DEFINE todo == call[k].todo
            n    == IF Chunk < Len(todo) THEN Chunk ELSE Len(todo)
            rows == {m \in 1..n : todo[m].id # None}
            ids  == {todo[m].id : m \in rows}
            Commit == \E last \in [ids -> rows] :
              /\ \A m \in rows : /\ todo[last[todo[m].id]].id = todo[m].id
                                 /\ m <= last[todo[m].id]
              /\ docs' = [d \in Ids |-> IF d \in ids THEN Written(k, d, todo[last[d]])
                                         ELSE docs[d]]
<1>1. /\ call[k].pc = "bulk" /\ call[k].req.op = "upsert" /\ call[k].todo # <<>>
      /\ backend = "postgres" /\ UNCHANGED <<bindings, task, versions, mapping>>
  BY DEF SendChunk, At
<1>2. \/ Commit /\ Sent(k, n, Cardinality((1..n) \ rows)) /\ UNCHANGED faults
      \/ /\ rows # {} /\ faults < MaxFaults
         /\ faults' = faults + 1
         /\ Commit \/ UNCHANGED docs
         /\ Sent(k, n, n)
  BY DEF SendChunk
<1>3. todo \in Seq(Element) /\ n \in 1..Len(todo)
  BY <1>1, TodoType, ConstantsOK DEF ConstantsOK
<1>4. ids \in SUBSET Ids
  <2>1. \A m \in rows : todo[m] \in Element
    BY <1>3
  <2>2. \A m \in rows : todo[m].id \in Ids
    BY <2>1 DEF Element
  <2>. QED  BY <2>2
<1>5. Commit => Rows(k, n, ids)
  <2>. SUFFICES ASSUME Commit PROVE Rows(k, n, ids)
    OBVIOUS
  <2>1. PICK last \in [ids -> rows] :
          docs' = [d \in Ids |-> IF d \in ids THEN Written(k, d, todo[last[d]]) ELSE docs[d]]
    OBVIOUS
  <2>2. last \in [ids -> 1..n]
    OBVIOUS
  <2>. QED  BY <2>1, <2>2 DEF Rows
<1>6. IsFiniteSet((1..n) \ rows)
  BY <1>3, FS_Interval, FS_Subset
<1>7. /\ Cardinality((1..n) \ rows) \in Nat
      /\ Cardinality((1..n) \ rows) = 0 => \A m \in 1..n : todo[m].id \in ids
  <2>. DEFINE rest == (1..n) \ rows
  <2>1. Cardinality(rest) \in Nat /\ (Cardinality(rest) = 0 => rest = {})
    <3>. HIDE DEF rest
    <3>. QED  BY <1>6, FS_CardinalityType, FS_EmptySet DEF rest
  <2>2. rest = {} => \A m \in 1..n : todo[m].id \in ids
    OBVIOUS
  <2>. QED  BY <2>1, <2>2
<1>. HIDE DEF Commit, ids, rows, n
<1>8. PICK f \in Nat :
        /\ Sent(k, n, f) /\ faults' \in 0..MaxFaults
        /\ f = 0 => (\A m \in 1..n : todo[m].id \in ids) /\ Rows(k, n, ids)
        /\ UNCHANGED docs \/ Rows(k, n, ids)
  <2>1. CASE Commit /\ Sent(k, n, Cardinality((1..n) \ rows)) /\ UNCHANGED faults
    BY <1>5, <1>7, <2>1 DEF TInv, TypeOK
  <2>2. CASE /\ faults < MaxFaults /\ faults' = faults + 1
             /\ Commit \/ UNCHANGED docs
             /\ Sent(k, n, n)
    <3>1. faults' \in 0..MaxFaults
      BY <2>2, ConstantsOK DEF ConstantsOK, TInv, TypeOK
    <3>. QED  BY <1>3, <1>5, <2>2, <3>1
  <2>. QED  BY <1>2, <2>1, <2>2
<1>9. /\ call' \in [Calls -> Call] /\ Made'
      /\ backend' = backend /\ before' = before
      /\ \A l \in Calls \ {k} : call'[l] = call[l]
      /\ call'[k].req = call[k].req /\ Advanced(k, n, f)
  BY <1>1, <1>3, <1>8, SendingLemma DEF Advanced
<1>10. docs' \in [Ids -> DS!Doc]
  BY <1>3, <1>4, <1>8, RowsType DEF TInv, TypeOK
<1>11. Shape(k)
  BY <1>1, <1>9 DEF Shape, Advanced
<1>12. TInv'
  BY <1>1, <1>8, <1>9, <1>10 DEF TInv, TypeOK
<1>. QED  BY <1>1, <1>3, <1>4, <1>8, <1>9, <1>11, <1>12

LEMMA StepBulked ==
  ASSUME TInv, NEW k \in Calls, Bulked(k)
  PROVE  /\ TInv' /\ Shape(k) /\ UNCHANGED store
         /\ call[k].pc = "bulk" /\ call[k].req.op = "upsert" /\ call[k].todo = <<>>
         /\ call'[k].pc = "ended" /\ call'[k].answer = "counted"
         /\ call'[k].todo = <<>> /\ call'[k].bad = call[k].bad
<1>1. /\ call[k].pc = "bulk" /\ call[k].req.op = "upsert" /\ call[k].todo = <<>>
      /\ Becomes(k, [call[k] EXCEPT !.pc = "ended", !.answer = "counted"])
      /\ UNCHANGED <<store, faults>>
  BY DEF Bulked, At
<1>2. "counted" \in Answers
  BY DEF Answers
<1>3. backend' = backend
  BY <1>1 DEF Becomes
<1>. QED  BY <1>1, <1>2, <1>3, EndsWith DEF TInv, TypeOK, store

-----------------------------------------------------------------------------
(* The task record.                                                        *)
LEMMA TaskType ==
  ASSUME TInv, NEW new \in DS!Task, SetTask(new)
  PROVE  task' \in DS!Task /\ versions' \subseteq DS!Task
  BY DEF TInv, TypeOK, SetTask

LEMMA StepTaskCreate ==
  ASSUME TInv, NEW k \in Calls, TaskCreate(k)
  PROVE  /\ TInv' /\ Shape(k) /\ UNCHANGED <<bindings, docs, mapping>>
         /\ call[k].req.op = "task.create" /\ call'[k].pc = "ended"
         /\ \/ UNCHANGED <<task, versions>>
            \/ task = DS!NoTask /\ SetTask([status |-> "pending", note |-> None])
<1>1. /\ call[k].pc = "write" /\ call[k].req.op = "task.create"
      /\ UNCHANGED <<bindings, docs, mapping>>
  BY DEF TaskCreate, At
<1>2. PICK a \in {"created", "conflict"} : Return(k, a)
  BY DEF TaskCreate
<1>3. a \in Answers
  BY <1>2 DEF Answers
<1>4. \/ UNCHANGED <<task, versions>>
      \/ task = DS!NoTask /\ SetTask([status |-> "pending", note |-> None])
  BY DEF TaskCreate
<1>5. [status |-> "pending", note |-> None] \in DS!Task
  BY DEF DS!Task
<1>6. task' \in DS!Task /\ versions' \subseteq DS!Task
  BY <1>4, <1>5, TaskType DEF TInv, TypeOK
<1>. QED  BY <1>1, <1>2, <1>3, <1>4, <1>6, Returned DEF TInv, TypeOK, Shape

LEMMA StepTaskRead ==
  ASSUME TInv, NEW k \in Calls, TaskRead(k)
  PROVE  /\ TInv' /\ Shape(k) /\ UNCHANGED store
         /\ call[k].pc = "read" /\ call[k].req.op = "task.update"
         /\ \/ call'[k].pc = "ended" /\ call'[k].answer = "false"
            \/ /\ call'[k].pc = "store" /\ call'[k].copy = task
               /\ task # DS!NoTask /\ Expected(k)
<1>1. call[k].pc = "read" /\ call[k].req.op = "task.update" /\ UNCHANGED <<store, faults>>
  BY DEF TaskRead, At
<1>2. CASE task # DS!NoTask /\ Expected(k)
  <2>. DEFINE c == [call[k] EXCEPT !.pc = "store", !.copy = task]
  <2>1. Becomes(k, c)
    BY <1>2 DEF TaskRead
  <2>2. call[k] \in Call /\ task \in DS!Task
    BY DEF TInv, TypeOK
  <2>3. c \in Call /\ c.pc = "store" /\ c.req = call[k].req /\ c.copy = task
    BY <2>2 DEF Call, Steps
  <2>. HIDE DEF c
  <2>. QED  BY <1>1, <1>2, <2>1, <2>3, Moved DEF TInv, TypeOK, Shape, store
<1>3. CASE ~(task # DS!NoTask /\ Expected(k))
  <2>1. Becomes(k, [call[k] EXCEPT !.pc = "ended", !.answer = "false"])
    BY <1>3 DEF TaskRead
  <2>2. "false" \in Answers
    BY DEF Answers
  <2>3. backend' = backend
    BY <2>1 DEF Becomes
  <2>. QED  BY <1>1, <2>1, <2>2, <2>3, EndsWith DEF TInv, TypeOK, store
<1>. QED  BY <1>2, <1>3

(* The task that a patch of call k makes of the record base.               *)
Patched(k, base) ==
  IF call[k].req.update.sets = "status" THEN [status |-> "running", note |-> base.note]
                                        ELSE [status |-> base.status, note |-> k]

LEMMA StepTaskStore ==
  ASSUME TInv, NEW k \in Calls, TaskStore(k)
  PROVE  /\ TInv' /\ Shape(k) /\ UNCHANGED <<bindings, docs, mapping>>
         /\ call[k].pc = "store" /\ call[k].req.op = "task.update"
         /\ call'[k].pc = "ended"
         /\ \/ UNCHANGED <<task, versions>> /\ call'[k].answer # "true"
            \/ task # DS!NoTask /\ SetTask(Patched(k, Base(k)))
<1>1. /\ call[k].pc = "store" /\ call[k].req.op = "task.update"
      /\ UNCHANGED <<bindings, docs, mapping>>
  BY DEF TaskStore, At
<1>2. CASE Return(k, "false") /\ UNCHANGED <<task, versions>>
  <2>2. "false" \in Answers
    BY DEF Answers
  <2>. QED  BY <1>1, <1>2, <2>2, Returned DEF TInv, TypeOK, Shape
<1>3. CASE task # DS!NoTask /\ SetTask(Patched(k, Base(k))) /\ Return(k, "true")
  <2>1. SetTask(Patched(k, Base(k))) /\ Return(k, "true")
    BY <1>3
  <2>2. "true" \in Answers
    BY DEF Answers
  <2>3. Base(k) \in DS!Task
    BY DEF Base, TInv, TypeOK, Call
  <2>4. Patched(k, Base(k)) \in DS!Task
    BY <2>3 DEF Patched, DS!Task
  <2>5. task' \in DS!Task /\ versions' \subseteq DS!Task
    BY <2>1, <2>4, TaskType
  <2>. QED  BY <1>1, <1>3, <2>1, <2>2, <2>5, Returned DEF TInv, TypeOK, Shape
<1>. QED  BY <1>2, <1>3 DEF TaskStore, Patched

-----------------------------------------------------------------------------
LEMMA StepAsk ==
  ASSUME TInv, NEW k \in Calls, NEW r \in Requests, Ask(k, r)
  PROVE  TInv' /\ Shape(k)
<1>1. call[k].pc = "new" /\ backend' = backend
  BY DEF Ask
<1>2. TInv' /\ call'[k].pc # "new"
      /\ \A l \in Calls \ {k} : call'[l] = call[l] /\ before'[l] = before[l]
  BY TInvAsk
<1>. QED  BY <1>1, <1>2 DEF Shape

LEMMA StepType ==
  ASSUME TInv, NEW k \in Calls, Step(k)
  PROVE  TInv' /\ Shape(k)
<1>1. ASSUME NEW r \in Requests, Ask(k, r) PROVE TInv' /\ Shape(k)
  BY <1>1, StepAsk
<1>2. CASE Raise(k)
  BY <1>2, StepRaise
<1>3. CASE Bind(k)
  BY <1>3, StepBind
<1>4. CASE Unbind(k)
  BY <1>4, StepUnbind
<1>5. CASE Rebind(k)
  BY <1>5, StepRebind
<1>6. CASE IndexExists(k)
  BY <1>6, StepExists
<1>7. CASE IndexCreate(k)
  BY <1>7, StepCreate
<1>8. CASE MappingGet(k)
  BY <1>8, StepMapping
<1>9. CASE MappingPut(k)
  BY <1>9, StepPut
<1>10. CASE ApplyDoc(k)
  BY <1>10, StepApply
<1>11. CASE SendChunk(k)
  BY <1>11, StepChunk
<1>12. CASE Bulked(k)
  BY <1>12, StepBulked
<1>13. CASE TaskCreate(k)
  BY <1>13, StepTaskCreate
<1>14. CASE TaskRead(k)
  BY <1>14, StepTaskRead
<1>15. CASE TaskStore(k)
  BY <1>15, StepTaskStore
<1>. QED
  BY <1>1, <1>2, <1>3, <1>4, <1>5, <1>6, <1>7, <1>8, <1>9, <1>10, <1>11, <1>12, <1>13,
     <1>14, <1>15 DEF Step

LEMMA TInvStutter == TInv /\ UNCHANGED vars => TInv'
  BY DEF TInv, TypeOK, Made, vars, store

(* Every variable keeps its type, whatever the callers ask in whatever     *)
(* order.                                                                  *)
THEOREM TypeCorrect == Spec => []TypeOK
<1>1. TInv /\ [Next]_vars => TInv'
  BY StepType, TInvStutter DEF Next
<1>2. TInv => TypeOK
  BY DEF TInv
<1>. QED  BY TInvInit, <1>1, <1>2, PTL DEF Spec

LEMMA TypeInvariant == Spec => []TInv
<1>1. TInv /\ [Next]_vars => TInv'
  BY StepType, TInvStutter DEF Next
<1>. QED  BY TInvInit, <1>1, PTL DEF Spec

-----------------------------------------------------------------------------
(* The bindings: who was told what.                                        *)
CreatedIsBound ==
  \A k \in Calls : Did(k, "bind", "created") => bindings[call[k].req.index].state # "none"

UnboundStays ==
  backend = "postgres" =>
    \A k \in Calls : Did(k, "unbind", "updated") =>
                       bindings[call[k].req.index].state = "inactive"

BInv == CreatedIsBound /\ UnboundStays /\ AnsweredOnce /\ OneActivePerTag

LEMMA Elsewhere ==
  ASSUME TInv, NEW k \in Calls, Step(k), ~Bind(k), ~Unbind(k), ~Rebind(k)
  PROVE  /\ UNCHANGED bindings
         /\ \/ call'[k].pc # "ended" \/ call'[k].answer = "raised"
            \/ call'[k].req.op \notin {"bind", "unbind"}
<1>1. ASSUME NEW r \in Requests, Ask(k, r) PROVE UNCHANGED bindings /\ call'[k].pc # "ended"
  <2>1. UNCHANGED bindings
    BY <1>1 DEF Ask, store
  <2>. QED  BY <1>1, <2>1, TInvAsk
<1>2. CASE Raise(k)
  BY <1>2, StepRaise DEF store
<1>3. CASE IndexExists(k) \/ IndexCreate(k) \/ MappingGet(k) \/ MappingPut(k)
  <2>1. call'[k].pc # "ended" \/ call'[k].answer = "raised"
    <3>1. CASE IndexExists(k)
      BY <3>1, StepExists
    <3>2. CASE IndexCreate(k)
      BY <3>2, StepCreate
    <3>3. CASE MappingGet(k)
      BY <3>3, StepMapping
    <3>4. CASE MappingPut(k)
      BY <3>4, StepPut
    <3>. QED  BY <1>3, <3>1, <3>2, <3>3, <3>4
  <2>2. UNCHANGED bindings
    BY <1>3, StepExists, StepCreate, StepMapping, StepPut DEF store
  <2>. QED  BY <2>1, <2>2
<1>4. CASE ApplyDoc(k)
  BY <1>4, StepApply DEF Shape
<1>5. CASE SendChunk(k)
  BY <1>5, StepChunk DEF Shape
<1>6. CASE Bulked(k)
  BY <1>6, StepBulked DEF Shape, store
<1>7. CASE TaskCreate(k)
  <2>1. call[k].pc # "new"
    BY <1>7 DEF TaskCreate, At
  <2>. QED  BY <1>7, <2>1, StepTaskCreate DEF Shape
<1>8. CASE TaskRead(k)
  BY <1>8, StepTaskRead DEF Shape, store
<1>9. CASE TaskStore(k)
  BY <1>9, StepTaskStore DEF Shape
<1>. QED  BY <1>1, <1>2, <1>3, <1>4, <1>5, <1>6, <1>7, <1>8, <1>9 DEF Step

(* What an ended call was told does not change.                            *)
LEMMA ToldStays ==
  ASSUME TInv, NEW k \in Calls, Shape(k), NEW l \in Calls, call[l].pc = "ended"
  PROVE  call'[l] = call[l] /\ before'[l] = before[l]
  BY DEF Shape

LEMMA ToldBefore ==
  ASSUME NEW k \in Calls, Shape(k), NEW l \in Calls \ {k}, NEW op, NEW a, Did(l, op, a)'
  PROVE  Did(l, op, a) /\ call'[l] = call[l]
  BY DEF Shape, Did

LEMMA BInvStep ==
  ASSUME TInv, BInv, NEW k \in Calls, Step(k)
  PROVE  BInv'
<1>1. TInv' /\ Shape(k)
  BY StepType
<1>2. backend' = backend
  BY <1>1 DEF Shape
<1>3. CASE UNCHANGED bindings /\ ~Did(k, "bind", "created")' /\ ~Did(k, "unbind", "updated")'
  <2>1. \A l \in Calls :
          /\ Did(l, "bind", "created")' =>
               Did(l, "bind", "created") /\ call'[l] = call[l]
          /\ Did(l, "unbind", "updated")' =>
               Did(l, "unbind", "updated") /\ call'[l] = call[l]
    BY <1>1, <1>3, ToldBefore
  <2>2. AnsweredOnce'
    BY <1>2, <2>1 DEF BInv, AnsweredOnce
  <2>3. CreatedIsBound' /\ UnboundStays'
    BY <1>2, <1>3, <2>1 DEF BInv, CreatedIsBound, UnboundStays
  <2>4. OneActivePerTag'
    BY <1>2, <1>3 DEF BInv, OneActivePerTag
  <2>. QED  BY <2>2, <2>3, <2>4 DEF BInv
<1>4. ASSUME NEW i \in Indexes, NEW s, call[k].req.index = i,
             call'[k].req = call[k].req,
             bindings'[i].state = s,
             (\A j \in Indexes \ {i} : bindings'[j] = bindings[j]),
             (\/ call[k].req.op = "bind" /\ ~Taken(i) /\ s = "active"
              \/ call[k].req.op = "unbind" /\ CanUnbind(i) /\ s = "inactive"
              \/ call[k].req.op = "rebind" /\ bindings[i].state = s /\ s # "none")
      PROVE  BInv'
  <2>1. \A l \in Calls \ {k} :
          /\ Did(l, "bind", "created")' =>
               Did(l, "bind", "created") /\ call'[l] = call[l]
          /\ Did(l, "unbind", "updated")' =>
               Did(l, "unbind", "updated") /\ call'[l] = call[l]
    BY <1>1, ToldBefore
  <2>2. /\ Did(k, "bind", "created")' => call[k].req.op = "bind"
        /\ Did(k, "unbind", "updated")' => call[k].req.op = "unbind"
    BY <1>4 DEF Did
  <2>3. \A l \in Calls : call'[l].pc = "ended" /\ call'[l].req.op \in {"bind", "unbind"} =>
                           call'[l].req.index \in Indexes
    BY <1>1, RequestKinds DEF TInv, Made
  <2>4. \A l \in Calls : call[l].pc = "ended" /\ call[l].req.op \in {"bind", "unbind"} =>
                           call[l].req.index \in Indexes
    BY RequestKinds DEF TInv, Made
  <2>5. CreatedIsBound'
    <3>. SUFFICES ASSUME NEW l \in Calls, Did(l, "bind", "created")'
                  PROVE  bindings'[call'[l].req.index].state # "none"
      BY DEF CreatedIsBound
    <3>1. CASE l = k
      BY <1>4, <2>2, <3>1
    <3>2. CASE l # k
      <4>1. Did(l, "bind", "created") /\ call'[l] = call[l]
        BY <2>1, <3>2
      <4>2. bindings[call[l].req.index].state # "none" /\ call[l].req.index \in Indexes
        BY <2>4, <4>1 DEF BInv, CreatedIsBound, Did
      <4>. QED  BY <1>4, <4>1, <4>2
    <3>. QED  BY <3>1, <3>2
  <2>6. UnboundStays'
    <3>. SUFFICES ASSUME backend = "postgres",
                         NEW l \in Calls, Did(l, "unbind", "updated")'
                  PROVE  bindings'[call'[l].req.index].state = "inactive"
      BY <1>2 DEF UnboundStays
    <3>1. CASE l = k
      BY <1>4, <2>2, <3>1
    <3>2. CASE l # k
      <4>1. Did(l, "unbind", "updated") /\ call'[l] = call[l]
        BY <2>1, <3>2
      <4>2. bindings[call[l].req.index].state = "inactive" /\ call[l].req.index \in Indexes
        BY <2>4, <4>1 DEF BInv, UnboundStays, Did
      <4>. QED  BY <1>4, <4>1, <4>2 DEF Taken, CanUnbind
    <3>. QED  BY <3>1, <3>2
  <2>7. AnsweredOnce'
    <3>. SUFFICES ASSUME NEW l \in Calls \ {k}, call'[k].req.index = call'[l].req.index,
                         (\/ Did(k, "bind", "created")' /\ Did(l, "bind", "created")'
                          \/ /\ backend = "postgres"
                             /\ Did(k, "unbind", "updated")' /\ Did(l, "unbind", "updated")')
                  PROVE  FALSE
      <4>1. \A l, m \in Calls \ {k} :
              /\ l # m /\ (\/ Did(l, "bind", "created")' /\ Did(m, "bind", "created")'
                           \/ /\ backend = "postgres"
                              /\ Did(l, "unbind", "updated")' /\ Did(m, "unbind", "updated")')
              => call'[l].req.index # call'[m].req.index
        BY <2>1 DEF BInv, AnsweredOnce
      <4>. QED  BY <1>2, <4>1 DEF AnsweredOnce
    <3>1. CASE Did(k, "bind", "created")' /\ Did(l, "bind", "created")'
      <4>1. Did(l, "bind", "created") /\ call'[l] = call[l] /\ call[k].req.op = "bind"
        BY <2>1, <2>2, <3>1
      <4>2. bindings[call[l].req.index].state # "none"
        BY <4>1 DEF BInv, CreatedIsBound
      <4>. QED  BY <1>4, <4>1, <4>2 DEF Taken
    <3>2. CASE /\ backend = "postgres"
               /\ Did(k, "unbind", "updated")' /\ Did(l, "unbind", "updated")'
      <4>1. Did(l, "unbind", "updated") /\ call'[l] = call[l] /\ call[k].req.op = "unbind"
        BY <2>1, <2>2, <3>2
      <4>2. bindings[call[l].req.index].state = "inactive"
        BY <3>2, <4>1 DEF BInv, UnboundStays
      <4>. QED  BY <1>4, <3>2, <4>1, <4>2 DEF CanUnbind
    <3>. QED  BY <3>1, <3>2
  <2>8. OneActivePerTag'
    <3>. SUFFICES ASSUME backend = "postgres", NEW a \in Indexes, NEW b \in Indexes,
                         bindings'[a].state = "active", bindings'[b].state = "active",
                         a # b
                  PROVE  FALSE
      BY <1>2 DEF OneActivePerTag
    <3>1. \A c, d \in Indexes : bindings[c].state = "active" /\ bindings[d].state = "active"
                                  => c = d
      BY DEF BInv, OneActivePerTag
    <3>. QED  BY <1>4, <3>1 DEF Taken
  <2>. QED  BY <2>5, <2>6, <2>7, <2>8 DEF BInv
<1>5. CASE Bind(k)
  <2>1. CASE UNCHANGED bindings /\ call'[k].answer # "created"
    <3>1. call'[k].req.op = "bind"
      BY <1>5, StepBind DEF Shape, Bind, At
    <3>. QED  BY <1>3, <2>1, <3>1 DEF Did
  <2>2. CASE /\ ~Taken(call[k].req.index)
             /\ bindings' = [bindings EXCEPT ![call[k].req.index] = [state |-> "active", by |-> k]]
    <3>1. call[k].req.index \in Indexes /\ call[k].req.op = "bind"
          /\ call'[k].req = call[k].req
      BY <1>5, StepBind DEF Shape, Bind, At
    <3>2. /\ bindings'[call[k].req.index].state = "active"
          /\ \A j \in Indexes \ {call[k].req.index} : bindings'[j] = bindings[j]
      BY <2>2, <3>1, BindingType
    <3>. QED  BY <1>4, <2>2, <3>1, <3>2
  <2>. QED  BY <1>5, <2>1, <2>2, StepBind
<1>6. CASE Unbind(k)
  <2>1. CASE UNCHANGED bindings /\ call'[k].answer # "updated"
    <3>1. call'[k].req.op = "unbind"
      BY <1>6, StepUnbind DEF Shape, Unbind, At
    <3>. QED  BY <1>3, <2>1, <3>1 DEF Did
  <2>2. CASE /\ CanUnbind(call[k].req.index)
             /\ bindings' = [bindings EXCEPT ![call[k].req.index] =
                   [state |-> "inactive", by |-> bindings[call[k].req.index].by]]
    <3>1. call[k].req.index \in Indexes /\ call[k].req.op = "unbind"
          /\ call'[k].req = call[k].req
      BY <1>6, StepUnbind DEF Shape, Unbind, At
    <3>3. bindings[call[k].req.index].by \in Calls \cup {None}
      BY <3>1 DEF TInv, TypeOK, DS!Binding
    <3>2. /\ bindings'[call[k].req.index].state = "inactive"
          /\ \A j \in Indexes \ {call[k].req.index} : bindings'[j] = bindings[j]
      BY <2>2, <3>1, <3>3, BindingType
    <3>. QED  BY <1>4, <2>2, <3>1, <3>2
  <2>. QED  BY <1>6, <2>1, <2>2, StepUnbind
<1>7. CASE Rebind(k)
  <2>1. call'[k].req.op = "rebind" /\ call[k].req.op = "rebind"
        /\ call[k].req.index \in Indexes /\ call'[k].req = call[k].req
    BY <1>7, StepRebind DEF Shape, Rebind, At
  <2>2. CASE UNCHANGED bindings
    BY <1>3, <2>1, <2>2 DEF Did
  <2>3. CASE /\ bindings[call[k].req.index].state # "none"
             /\ bindings' = [bindings EXCEPT ![call[k].req.index] =
                   [state |-> bindings[call[k].req.index].state, by |-> k]]
    <3>1. bindings[call[k].req.index].state \in {"none", "active", "inactive"}
      BY <2>1 DEF TInv, TypeOK, DS!Binding
    <3>2. /\ bindings'[call[k].req.index].state = bindings[call[k].req.index].state
          /\ \A j \in Indexes \ {call[k].req.index} : bindings'[j] = bindings[j]
      BY <2>1, <2>3, <3>1, BindingType
    <3>. QED  BY <1>4, <2>1, <2>3, <3>2
  <2>. QED  BY <1>7, <2>2, <2>3, StepRebind
<1>8. CASE ~Bind(k) /\ ~Unbind(k) /\ ~Rebind(k)
  BY <1>3, <1>8, Elsewhere DEF Did
<1>. QED  BY <1>5, <1>6, <1>7, <1>8

LEMMA BInvHolds == Spec => []BInv
<1>1. Init => BInv
  <2>. SUFFICES ASSUME Init PROVE BInv
    OBVIOUS
  <2>1. \A k \in Calls : call[k].pc = "new"
    BY DEF Init, New
  <2>2. \A i \in Indexes : bindings[i].state = "none"
    BY DEF Init, DS!NoBinding
  <2>. QED  BY <2>1, <2>2 DEF BInv, CreatedIsBound, UnboundStays, AnsweredOnce,
                             OneActivePerTag, Did
<1>2. TInv /\ BInv /\ [Next]_vars => BInv'
  <2>1. BInv /\ UNCHANGED vars => BInv'
    BY DEF BInv, CreatedIsBound, UnboundStays, AnsweredOnce, OneActivePerTag, Did,
           vars, store
  <2>. QED  BY <2>1, BInvStep DEF Next
<1>. QED  BY TypeInvariant, <1>1, <1>2, PTL DEF Spec

(* No two callers are told that they created the binding of one kb_index,  *)
(* and on PostgreSQL no two that they deactivated it.                      *)
THEOREM OneAnswer == Spec => []AnsweredOnce
<1>1. BInv => AnsweredOnce
  BY DEF BInv
<1>. QED  BY BInvHolds, <1>1, PTL

(* PostgreSQL never has two active bindings of one tag.                    *)
THEOREM OneBindingPerTag == Spec => []OneActivePerTag
<1>1. BInv => OneActivePerTag
  BY DEF BInv
<1>. QED  BY BInvHolds, <1>1, PTL

-----------------------------------------------------------------------------
(* The vector field: a call that still has vectors to send finds it        *)
(* declared.                                                               *)
FieldDeclared ==
  backend = "elastic" =>
    \A k \in Calls : call[k].pc = "bulk" /\ HasVectors(call[k].todo) => mapping.dim # None

NoFieldYet == ~mapping.exists => mapping.dim = None

VInv == FieldDeclared /\ NoFieldYet /\ VectorsFit

LEMMA VInvStep ==
  ASSUME TInv, VInv, NEW k \in Calls, Step(k)
  PROVE  VInv'
<1>1. TInv' /\ Shape(k)
  BY StepType
<1>2. backend' = backend /\ \A l \in Calls \ {k} : call'[l] = call[l]
  BY <1>1 DEF Shape
<1>3. \A d \in Ids : docs[d].vector # None => docs[d].vector.dim \in Dims
  BY DEF TInv, TypeOK, DS!Doc, Vectors
<1>4. CASE UNCHANGED <<docs, mapping>> /\ (call'[k].pc = "bulk" /\ backend = "elastic" =>
             (HasVectors(call'[k].todo) => mapping.dim # None))
  <2>1. FieldDeclared'
    BY <1>2, <1>4 DEF VInv, FieldDeclared
  <2>2. NoFieldYet' /\ VectorsFit'
    BY <1>2, <1>4 DEF VInv, NoFieldYet, VectorsFit
  <2>. QED  BY <2>1, <2>2 DEF VInv
<1>5. CASE /\ UNCHANGED docs /\ mapping'.exists /\ mapping'.dim \in Dims
           /\ mapping.dim \in {None, mapping'.dim}
  <2>1. mapping'.dim # None
    BY <1>5, ConstantsOK DEF ConstantsOK
  <2>2. FieldDeclared' /\ NoFieldYet'
    BY <1>5, <2>1 DEF FieldDeclared, NoFieldYet
  <2>3. VectorsFit'
    BY <1>2, <1>3, <1>5, ConstantsOK DEF ConstantsOK, VInv, VectorsFit
  <2>. QED  BY <2>2, <2>3 DEF VInv
<1>6. ASSUME NEW r \in Requests, Ask(k, r) PROVE VInv'
  <2>1. UNCHANGED <<docs, mapping>>
    BY <1>6 DEF Ask, store
  <2>2. call'[k].pc = FirstStep(r)
        /\ call'[k].todo = IF r.op = "upsert" THEN r.docs ELSE <<>>
    BY <1>6, TInvAsk
  <2>3. ~HasVectors(<<>>)
    BY DEF HasVectors
  <2>4. r.op = "upsert" /\ FirstStep(r) = "bulk" /\ backend = "elastic" => ~HasVectors(r.docs)
    BY DEF FirstStep
  <2>. QED  BY <1>4, <2>1, <2>2, <2>3, <2>4
<1>7. CASE Raise(k)
  BY <1>4, <1>7, StepRaise DEF store
<1>8. CASE Bind(k) \/ Unbind(k) \/ Rebind(k)
  BY <1>4, <1>8, StepBind, StepUnbind, StepRebind
<1>9. CASE IndexExists(k)
  BY <1>4, <1>9, StepExists DEF store
<1>10. CASE IndexCreate(k)
  <2>1. CASE UNCHANGED mapping /\ call'[k].pc = "ended"
    BY <1>4, <1>10, <2>1, StepCreate
  <2>2. CASE ~mapping.exists /\ mapping'.dim \in Dims /\ mapping'.exists
    <3>1. mapping.dim = None
      BY <2>2 DEF VInv, NoFieldYet
    <3>. QED  BY <1>5, <1>10, <2>2, <3>1, StepCreate
  <2>. QED  BY <1>10, <2>1, <2>2, StepCreate
<1>11. CASE MappingGet(k)
  BY <1>4, <1>11, StepMapping DEF store
<1>12. CASE MappingPut(k)
  <2>1. CASE UNCHANGED mapping /\ call'[k].pc = "ended"
    BY <1>4, <1>12, <2>1, StepPut
  <2>2. CASE mapping.dim \in {None, mapping'.dim} /\ mapping'.dim \in Dims /\ mapping'.exists
    BY <1>5, <1>12, <2>2, StepPut
  <2>. QED  BY <1>12, <2>1, <2>2, StepPut
<1>13. CASE ApplyDoc(k)
  <2>. DEFINE e == Head(call[k].todo)
  <2>1. PICK f \in {0, 1} :
          /\ Advanced(k, 1, f)
          /\ \/ UNCHANGED <<docs, mapping>>
             \/ /\ e.id \in Ids /\ Fits(e)
                /\ docs' = [docs EXCEPT ![e.id] = Written(k, e.id, e)]
                /\ mapping' = [exists |-> TRUE, dim |-> mapping.dim]
    BY <1>13, StepApply
  <2>2. /\ backend = "elastic" /\ call[k].pc = "bulk" /\ call[k].todo # <<>>
        /\ e \in Element
    BY <1>13, StepApply
  <2>3. call[k].todo \in Seq(Element)
    BY TodoType
  <2>4. 1 \in DOMAIN call[k].todo /\ call[k].todo[1] = e
    BY <2>2, <2>3
  <2>5. HasVectors(call'[k].todo) => HasVectors(call[k].todo)
    <3>1. call'[k].todo = SubSeq(call[k].todo, 2, Len(call[k].todo))
      BY <2>1 DEF Advanced
    <3>2. /\ Len(call'[k].todo) = Len(call[k].todo) - 1
          /\ call'[k].todo \in Seq(Element)
          /\ \A m \in 1..(Len(call[k].todo) - 1) : call'[k].todo[m] = call[k].todo[m + 1]
      BY <2>3, <2>4, <3>1, TailOf
    <3>. DEFINE old == call[k].todo
                new == call'[k].todo
    <3>. SUFFICES ASSUME \E m \in DOMAIN new : new[m].dim # None
                  PROVE  \E m \in DOMAIN old : old[m].dim # None
      BY DEF HasVectors
    <3>3. PICK m \in DOMAIN new : new[m].dim # None
      OBVIOUS
    <3>4. DOMAIN new = 1..Len(new) /\ DOMAIN old = 1..Len(old) /\ Len(old) \in Nat
      BY <2>3, <3>2
    <3>. HIDE DEF old, new
    <3>5. m \in 1..(Len(old) - 1)
      BY <3>2, <3>3, <3>4 DEF old, new
    <3>6. m + 1 \in DOMAIN old
      BY <3>4, <3>5
    <3>7. \A i \in 1..(Len(old) - 1) : new[i] = old[i + 1]
      BY <3>2 DEF old, new
    <3>. QED  BY <3>3, <3>5, <3>6, <3>7
  <2>6. HasVectors(call[k].todo) => mapping.dim # None
    BY <2>2 DEF VInv, FieldDeclared
  <2>7. CASE UNCHANGED <<docs, mapping>>
    BY <1>4, <2>5, <2>6, <2>7
  <2>8. CASE /\ e.id \in Ids /\ Fits(e)
             /\ docs' = [docs EXCEPT ![e.id] = Written(k, e.id, e)]
             /\ mapping' = [exists |-> TRUE, dim |-> mapping.dim]
    <3>1. FieldDeclared' /\ NoFieldYet'
      BY <1>2, <2>5, <2>6, <2>8 DEF VInv, FieldDeclared, NoFieldYet
    <3>2. e.dim # None => e.dim = mapping.dim
      <4>1. e.dim # None => HasVectors(call[k].todo)
        BY <2>4 DEF HasVectors
      <4>. QED  BY <2>6, <2>8, <4>1 DEF Fits
    <3>3. \A d \in Ids : docs[d].vector # None => docs[d].vector.dim = mapping.dim
      BY <2>2 DEF VInv, VectorsFit
    <3>4. LET v == Written(k, e.id, e).vector IN v # None => v.dim = mapping.dim
      BY <2>2, <2>8, <3>2, <3>3 DEF Written, Vector
    <3>5. ASSUME NEW d \in Ids, docs'[d].vector # None PROVE docs'[d].vector.dim = mapping.dim
      <4>1. docs'[d] = IF d = e.id THEN Written(k, e.id, e) ELSE docs[d]
        BY <2>8 DEF TInv, TypeOK
      <4>. QED  BY <3>3, <3>4, <3>5, <4>1
    <3>6. VectorsFit'
      BY <2>8, <3>5 DEF VectorsFit
    <3>. QED  BY <3>1, <3>6 DEF VInv
  <2>. QED  BY <2>1, <2>7, <2>8
<1>14. CASE SendChunk(k)
  <2>1. backend = "postgres" /\ UNCHANGED mapping
    BY <1>14, StepChunk
  <2>. QED  BY <1>2, <2>1 DEF VInv, FieldDeclared, NoFieldYet, VectorsFit
<1>15. CASE Bulked(k)
  BY <1>4, <1>15, StepBulked DEF store
<1>16. CASE TaskCreate(k)
  BY <1>4, <1>16, StepTaskCreate
<1>17. CASE TaskRead(k)
  BY <1>4, <1>17, StepTaskRead DEF store
<1>18. CASE TaskStore(k)
  BY <1>4, <1>18, StepTaskStore
<1>. QED
  BY <1>6, <1>7, <1>8, <1>9, <1>10, <1>11, <1>12, <1>13, <1>14, <1>15, <1>16, <1>17,
     <1>18 DEF Step

(* In a search engine every stored vector fits the vector field.           *)
THEOREM VectorsSearchable == Spec => []VectorsFit
<1>1. Init => VInv
  <2>. SUFFICES ASSUME Init PROVE VInv
    OBVIOUS
  <2>1. (\A k \in Calls : call[k].pc = "new") /\ \A d \in Ids : docs[d].vector = None
    BY DEF Init, New, DS!NoDoc
  <2>2. mapping.dim = None
    BY DEF Init
  <2>. QED  BY <2>1, <2>2 DEF VInv, FieldDeclared, NoFieldYet, VectorsFit
<1>2. TInv /\ VInv /\ [Next]_vars => VInv'
  <2>1. VInv /\ UNCHANGED vars => VInv'
    BY DEF VInv, FieldDeclared, NoFieldYet, VectorsFit, vars, store
  <2>. QED  BY <2>1, VInvStep DEF Next
<1>3. VInv => VectorsFit
  BY DEF VInv
<1>. QED  BY TypeInvariant, <1>1, <1>2, <1>3, PTL DEF Spec

-----------------------------------------------------------------------------
(* What a call knows to have ended before it has ended.                    *)
Early == \A k \in Calls : \A l \in before[k] : call[l].pc = "ended"

LEMMA EarlyStep ==
  ASSUME TInv, Early, NEW k \in Calls, Step(k)
  PROVE  Early'
<1>1. Shape(k)
  BY StepType
<1>2. before \in [Calls -> SUBSET Calls]
  BY DEF TInv, TypeOK
<1>3. \A l \in Calls : call[l].pc = "ended" => call'[l].pc = "ended"
  BY <1>1, ToldStays
<1>4. ASSUME NEW l \in Calls \ {k} PROVE \A j \in before'[l] : call'[j].pc = "ended"
  BY <1>1, <1>2, <1>3 DEF Early, Shape
<1>5. \A j \in before'[k] : call'[j].pc = "ended"
  <2>1. ASSUME NEW r \in Requests, Ask(k, r) PROVE \A j \in before'[k] : call'[j].pc = "ended"
    <3>1. before'[k] = {j \in Calls : call[j].pc = "ended"}
      BY <2>1, TInvAsk
    <3>. QED  BY <1>3, <3>1
  <2>2. CASE call[k].pc # "new"
    BY <1>1, <1>2, <1>3, <2>2 DEF Early, Shape
  <2>3. call[k].pc # "new" \/ \E r \in Requests : Ask(k, r)
    BY DEF Step, Raise, Bind, Unbind, Rebind, IndexExists, IndexCreate, MappingGet,
           MappingPut, ApplyDoc, SendChunk, Bulked, TaskCreate, TaskRead, TaskStore, At
  <2>. QED  BY <2>1, <2>2, <2>3
<1>. QED  BY <1>4, <1>5 DEF Early

LEMMA EarlyHolds == Spec => []Early
<1>1. Init => Early
  BY DEF Init, Early
<1>2. TInv /\ Early /\ [Next]_vars => Early'
  <2>1. Early /\ UNCHANGED vars => Early'
    BY DEF Early, vars, store
  <2>. QED  BY <2>1, EarlyStep DEF Next
<1>. QED  BY TypeInvariant, <1>1, <1>2, PTL DEF Spec

-----------------------------------------------------------------------------
(* The claims of a task.  Only TaskCreate and TaskStore write the record,  *)
(* and on a search engine a running task stays running.                    *)
Claim(k) == call[k].req.op = "task.update" /\ call[k].req.update.sets = "status"

Claimed(k) == Did(k, "task.update", "true") /\ call[k].req.update.sets = "status"

ClaimedRuns ==
  backend = "elastic" => \A k \in Calls : Claimed(k) => task.status = "running"

LateClaimFails ==
  backend = "elastic" =>
    \A k, l \in Calls :
      Claimed(k) /\ k \in before[l] /\ call[l].pc # "new" /\ Claim(l) =>
        \/ call[l].pc = "read"
        \/ call[l].pc = "ended" /\ call[l].answer # "true"

LEMMA TaskMoves ==
  ASSUME TInv, NEW k \in Calls, Step(k)
  PROVE  /\ \/ UNCHANGED task
            \/ task = DS!NoTask /\ TaskCreate(k)
            \/ TaskStore(k) /\ task' = Patched(k, Base(k))
         /\ Did(k, "task.update", "true")' =>
              TaskStore(k) /\ task' = Patched(k, Base(k)) /\ call'[k].req = call[k].req
<1>1. ASSUME NEW r \in Requests, Ask(k, r)
      PROVE  UNCHANGED task /\ ~Did(k, "task.update", "true")'
  <2>1. UNCHANGED task
    BY <1>1 DEF Ask, store
  <2>. QED  BY <1>1, <2>1, TInvAsk DEF Did
<1>2. CASE Raise(k)
  BY <1>2, StepRaise DEF store, Did
<1>3. CASE Bind(k) \/ Unbind(k) \/ Rebind(k)
  <2>1. /\ UNCHANGED task
        /\ call'[k].req = call[k].req /\ call[k].req.op \in {"bind", "unbind", "rebind"}
    BY <1>3, StepBind, StepUnbind, StepRebind DEF Shape, Bind, Unbind, Rebind, At
  <2>. QED  BY <2>1 DEF Did
<1>4. CASE IndexExists(k) \/ IndexCreate(k) \/ MappingGet(k) \/ MappingPut(k)
  <2>1. /\ call'[k].req = call[k].req /\ call[k].req.op = "upsert"
    BY <1>4, StepType DEF Shape, IndexExists, IndexCreate, MappingGet, MappingPut, At, Step
  <2>2. UNCHANGED task
    BY <1>4 DEF IndexExists, IndexCreate, MappingGet, MappingPut, store
  <2>. QED  BY <2>1, <2>2 DEF Did
<1>5. CASE ApplyDoc(k) \/ SendChunk(k) \/ Bulked(k)
  <2>1. /\ call'[k].req = call[k].req /\ call[k].req.op = "upsert"
    BY <1>5, StepType DEF Shape, ApplyDoc, SendChunk, Bulked, At, Step
  <2>2. UNCHANGED task
    BY <1>5, StepApply, StepChunk, StepBulked DEF store
  <2>. QED  BY <2>1, <2>2 DEF Did
<1>6. CASE TaskCreate(k)
  <2>1. /\ call'[k].req = call[k].req /\ call[k].req.op = "task.create"
    BY <1>6, StepTaskCreate DEF Shape, TaskCreate, At
  <2>. QED  BY <1>6, <2>1, StepTaskCreate DEF Did
<1>7. CASE TaskRead(k)
  BY <1>7, StepTaskRead DEF Did, store
<1>8. CASE TaskStore(k)
  <2>1. call'[k].req = call[k].req
    BY <1>8, StepTaskStore DEF Shape
  <2>2. CASE UNCHANGED <<task, versions>> /\ call'[k].answer # "true"
    BY <2>2 DEF Did
  <2>3. CASE task # DS!NoTask /\ SetTask(Patched(k, Base(k)))
    BY <1>8, <2>1, <2>3 DEF SetTask
  <2>. QED  BY <1>8, <2>2, <2>3, StepTaskStore
<1>. QED
  BY <1>1, <1>2, <1>3, <1>4, <1>5, <1>6, <1>7, <1>8 DEF Step

LEMMA RunningStays ==
  ASSUME TInv, NEW k \in Calls, Step(k), backend = "elastic", task.status = "running"
  PROVE  task'.status = "running"
<1>1. task # DS!NoTask
  BY DEF DS!NoTask
<1>2. Patched(k, Base(k)).status = "running"
  BY DEF Patched, Base
<1>. QED  BY <1>1, <1>2, TaskMoves

LEMMA ClaimStep ==
  ASSUME TInv, Early, ClaimedRuns, LateClaimFails, NEW k \in Calls, Step(k)
  PROVE  ClaimedRuns' /\ LateClaimFails'
<1>. SUFFICES ASSUME backend = "elastic" PROVE ClaimedRuns' /\ LateClaimFails'
  <2>1. backend' = backend
    BY StepType DEF Shape
  <2>. QED  BY <2>1 DEF ClaimedRuns, LateClaimFails
<1>1. TInv' /\ Shape(k)
  BY StepType
<1>2. \A l \in Calls \ {k} : call'[l] = call[l] /\ before'[l] = before[l]
  BY <1>1 DEF Shape
<1>3. \A l \in Calls \ {k} : Claimed(l)' <=> Claimed(l)
  BY <1>2 DEF Claimed, Did
<1>4. Claimed(k)' => task'.status = "running"
  <2>1. Claimed(k)' => /\ task' = Patched(k, Base(k))
                       /\ call[k].req.update.sets = "status"
    BY TaskMoves DEF Claimed
  <2>. QED  BY <2>1 DEF Patched
<1>5. ClaimedRuns'
  BY <1>3, <1>4, RunningStays DEF ClaimedRuns
<1>6. ASSUME NEW j \in Calls, NEW l \in Calls, Claimed(j)', j \in before'[l],
             call'[l].pc # "new", Claim(l)'
      PROVE  \/ call'[l].pc = "read"
             \/ call'[l].pc = "ended" /\ call'[l].answer # "true"
  <2>0. before \in [Calls -> SUBSET Calls]
    BY DEF TInv, TypeOK
  <2>1. CASE \E r \in Requests : Ask(k, r)
    <3>1. PICK r \in Requests : Ask(k, r)
      BY <2>1
    <3>2. CASE l = k
      <4>1. r.op = "task.update" /\ r.update.sets = "status"
        BY <1>6, <3>1, <3>2, TInvAsk DEF Claim
      <4>2. r.update.expected # {}
        BY <4>1, RequestKinds DEF Updates
      <4>3. FirstStep(r) = "read"
        BY <4>1, <4>2 DEF FirstStep
      <4>. QED  BY <3>1, <3>2, <4>3, TInvAsk
    <3>3. CASE l # k
      <4>1. j # k
        <5>1. call'[k].pc # "ended"
          BY <3>1, TInvAsk
        <5>. QED  BY <1>6, <5>1 DEF Claimed, Did
      <4>2. Claimed(j) /\ j \in before[l] /\ call'[l] = call[l] /\ Claim(l)
        BY <1>2, <1>3, <1>6, <3>3, <4>1 DEF Claim
      <4>. QED  BY <1>6, <4>2 DEF LateClaimFails
    <3>. QED  BY <3>2, <3>3
  <2>2. CASE ~\E r \in Requests : Ask(k, r)
    <3>1. call[k].pc # "new"
      BY <2>2
      DEF Step, Raise, Bind, Unbind, Rebind, IndexExists, IndexCreate, MappingGet,
          MappingPut, ApplyDoc, SendChunk, Bulked, TaskCreate, TaskRead, TaskStore, At
    <3>2. before' = before /\ call'[k].req = call[k].req /\ call[k].pc # "ended"
      BY <1>1, <3>1 DEF Shape
    <3>3. j # k
      BY <1>6, <3>2 DEF Early
    <3>4. Claimed(j) /\ j \in before[l] /\ call[l].pc # "new" /\ Claim(l)
      BY <1>2, <1>3, <1>6, <3>1, <3>2, <3>3 DEF Claim
    <3>5. call[l].pc = "read" \/ (call[l].pc = "ended" /\ call[l].answer # "true")
      BY <3>4 DEF LateClaimFails
    <3>6. CASE l # k
      BY <1>2, <3>5, <3>6
    <3>7. CASE l = k
      <4>1. call[k].pc = "read" /\ call[k].req.op = "task.update" /\ Claim(k)
        BY <3>2, <3>4, <3>5, <3>7 DEF Claim
      <4>2. Raise(k) \/ TaskRead(k)
        BY <2>2, <4>1
        DEF Step, Bind, Unbind, Rebind, IndexExists, IndexCreate, MappingGet,
            MappingPut, ApplyDoc, SendChunk, Bulked, TaskCreate, TaskStore, At
      <4>3. task.status = "running"
        BY <3>4 DEF ClaimedRuns
      <4>4. call[k].req.update \in Updates
        BY <4>1, RequestKinds DEF TInv, Made
      <4>5. ~Expected(k)
        BY <4>1, <4>3, <4>4 DEF Expected, Updates, Claim
      <4>. QED  BY <3>7, <4>2, <4>5, StepRaise, StepTaskRead
    <3>. QED  BY <3>6, <3>7
  <2>. QED  BY <2>1, <2>2
<1>7. LateClaimFails'
  BY <1>6 DEF LateClaimFails
<1>. QED  BY <1>5, <1>7

(* On a search engine two successful claims of one task overlap.           *)
THEOREM ClaimedInTurn == Spec => []ClaimsOverlap
<1>1. Init => ClaimedRuns /\ LateClaimFails
  <2>. SUFFICES ASSUME Init PROVE ClaimedRuns /\ LateClaimFails
    OBVIOUS
  <2>1. \A k \in Calls : call[k].pc = "new"
    BY DEF Init, New
  <2>. QED  BY <2>1 DEF ClaimedRuns, LateClaimFails, Claimed, Did
<1>2. TInv /\ Early /\ (ClaimedRuns /\ LateClaimFails) /\ [Next]_vars
        => (ClaimedRuns /\ LateClaimFails)'
  <2>1. ClaimedRuns /\ LateClaimFails /\ UNCHANGED vars => (ClaimedRuns /\ LateClaimFails)'
    BY DEF ClaimedRuns, LateClaimFails, Claimed, Claim, Did, vars, store
  <2>. QED  BY <2>1, ClaimStep DEF Next
<1>3. LateClaimFails => ClaimsOverlap
  BY DEF LateClaimFails, ClaimsOverlap, Claimed, Claim, Did
<1>. QED  BY TypeInvariant, EarlyHolds, <1>1, <1>2, <1>3, PTL DEF Spec

-----------------------------------------------------------------------------
(* The refinement.  A task that PostgreSQL is about to write back was read *)
(* from it.                                                                *)
Copied ==
  /\ task \in versions
  /\ backend = "postgres" =>
       \A k \in Calls : call[k].pc = "store" => call[k].copy \in versions \ {DS!NoTask}

LEMMA VersionsGrow ==
  ASSUME TInv, Copied, NEW k \in Calls, Step(k)
  PROVE  versions \subseteq versions' /\ task' \in versions'
<1>1. UNCHANGED <<task, versions>> \/ \E new : SetTask(new)
  <2>1. ASSUME NEW r \in Requests, Ask(k, r) PROVE UNCHANGED <<task, versions>>
    BY <2>1 DEF Ask, store
  <2>. QED
    BY <2>1, StepRaise, StepBind, StepUnbind, StepRebind, StepExists, StepCreate,
       StepMapping, StepPut, StepApply, StepChunk, StepBulked, StepTaskCreate,
       StepTaskRead, StepTaskStore DEF Step, store
<1>. QED  BY <1>1 DEF Copied, SetTask

LEMMA CopiedStep ==
  ASSUME TInv, Copied, NEW k \in Calls, Step(k)
  PROVE  Copied'
<1>1. Shape(k)
  BY StepType
<1>2. versions \subseteq versions' /\ task' \in versions'
  BY VersionsGrow
<1>3. SUFFICES ASSUME backend = "postgres", NEW l \in Calls, call'[l].pc = "store"
               PROVE  call'[l].copy \in versions' \ {DS!NoTask}
  BY <1>1, <1>2 DEF Copied, Shape
<1>4. CASE l # k
  BY <1>1, <1>2, <1>3, <1>4 DEF Copied, Shape
<1>5. CASE l = k
  <2>1. ASSUME NEW r \in Requests, Ask(k, r) PROVE FALSE
    <3>1. FirstStep(r) = "store"
      BY <1>3, <1>5, <2>1, TInvAsk
    <3>. QED  BY <1>3, <3>1 DEF FirstStep
  <2>2. CASE TaskRead(k)
    <3>1. call'[k].copy = task /\ task # DS!NoTask /\ UNCHANGED versions
      BY <1>3, <1>5, <2>2, StepTaskRead DEF store
    <3>. QED  BY <1>5, <3>1 DEF Copied
  <2>3. CASE ~TaskRead(k)
    <3>1. CASE Raise(k) \/ Bind(k) \/ Unbind(k) \/ Rebind(k) \/ IndexExists(k)
               \/ IndexCreate(k) \/ MappingGet(k) \/ MappingPut(k)
      BY <1>3, <1>5, <3>1, StepRaise, StepBind, StepUnbind, StepRebind, StepExists,
         StepCreate, StepMapping, StepPut
    <3>2. CASE ApplyDoc(k) \/ SendChunk(k)
      BY <1>3, <1>5, <3>2, StepApply, StepChunk DEF Advanced
    <3>3. CASE Bulked(k) \/ TaskCreate(k) \/ TaskStore(k)
      BY <1>3, <1>5, <3>3, StepBulked, StepTaskCreate, StepTaskStore
    <3>. QED  BY <2>1, <2>3, <3>1, <3>2, <3>3 DEF Step
  <2>. QED  BY <2>2, <2>3
<1>. QED  BY <1>4, <1>5

LEMMA CopiedHolds == Spec => []Copied
<1>1. Init => Copied
  BY DEF Init, Copied, New
<1>2. TInv /\ Copied /\ [Next]_vars => Copied'
  <2>1. Copied /\ UNCHANGED vars => Copied'
    BY DEF Copied, vars, store
  <2>. QED  BY <2>1, CopiedStep DEF Next
<1>. QED  BY TypeInvariant, <1>1, <1>2, PTL DEF Spec

LEMMA BindingRefines ==
  ASSUME TInv, NEW k \in Calls, Bind(k) \/ Unbind(k) \/ Rebind(k)
  PROVE  DS!Next \/ UNCHANGED DS!vars
<1>1. UNCHANGED <<docs, task, versions>> /\ backend' = backend
  BY StepBind, StepUnbind, StepRebind DEF Shape
<1>. DEFINE i == call[k].req.index
<1>2. UNCHANGED bindings => UNCHANGED DS!vars
  BY <1>1 DEF DS!vars
<1>3. CASE Bind(k)
  <2>1. CASE ~Taken(i) /\ bindings' = [bindings EXCEPT ![i] = [state |-> "active", by |-> k]]
    <3>1. DS!Bind(i, k)
      BY <1>1, <2>1 DEF DS!Bind, DS!Store, Taken
    <3>. QED  BY <1>3, <3>1, StepBind DEF DS!Next
  <2>. QED  BY <1>2, <1>3, <2>1, StepBind
<1>4. CASE Unbind(k)
  <2>1. CASE /\ CanUnbind(i)
             /\ bindings' = [bindings EXCEPT ![i] = [state |-> "inactive",
                                                     by |-> bindings[i].by]]
    <3>1. DS!Unbind(i)
      BY <1>1, <2>1 DEF DS!Unbind, DS!Store, CanUnbind
    <3>. QED  BY <1>4, <3>1, StepUnbind DEF DS!Next
  <2>. QED  BY <1>2, <1>4, <2>1, StepUnbind
<1>5. CASE Rebind(k)
  <2>1. CASE /\ bindings[i].state # "none"
             /\ bindings' = [bindings EXCEPT ![i] = [state |-> bindings[i].state, by |-> k]]
    <3>1. DS!Rebind(i, k)
      BY <1>1, <2>1 DEF DS!Rebind, DS!Store
    <3>. QED  BY <1>5, <3>1, StepRebind DEF DS!Next
  <2>. QED  BY <1>2, <1>5, <2>1, StepRebind
<1>. QED  BY <1>3, <1>4, <1>5

LEMMA DocRefines ==
  ASSUME TInv, NEW k \in Calls, ApplyDoc(k)
  PROVE  DS!Next \/ UNCHANGED DS!vars
<1>. DEFINE e == Head(call[k].todo)
<1>1. /\ UNCHANGED <<bindings, task, versions>> /\ backend' = backend
      /\ backend = "elastic" /\ e \in Element
      /\ \/ UNCHANGED <<docs, mapping>>
         \/ e.id \in Ids /\ docs' = [docs EXCEPT ![e.id] = Written(k, e.id, e)]
  BY StepApply DEF Shape
<1>2. CASE UNCHANGED <<docs, mapping>>
  BY <1>1, <1>2 DEF DS!vars
<1>3. CASE e.id \in Ids /\ docs' = [docs EXCEPT ![e.id] = Written(k, e.id, e)]
  <2>. DEFINE D == {e.id}
              new == [d \in D |-> Vector(k, e)]
  <2>1. D \in SUBSET Ids /\ new \in [D -> Vectors \cup {None}]
    BY <1>1, <1>3 DEF Vector, Vectors, Element
  <2>2. docs' = [d \in Ids |->
            IF d \notin D THEN docs[d]
            ELSE [text |-> k,
                  vector |-> IF backend = "elastic" /\ new[d] = None THEN docs[d].vector
                                                                     ELSE new[d]]]
    <3>1. docs \in [Ids -> DS!Doc]
      BY DEF TInv, TypeOK
    <3>2. Written(k, e.id, e) =
            [text |-> k, vector |-> IF Vector(k, e) = None THEN docs[e.id].vector
                                                           ELSE Vector(k, e)]
      <4>1. Vector(k, e) = None <=> e.dim = None
        <5>1. e.dim # None => [by |-> k, dim |-> e.dim] \in [by : Calls, dim : Dims]
          BY <1>1 DEF Element
        <5>2. None \notin [by : Calls, dim : Dims]
          BY ConstantsOK DEF ConstantsOK
        <5>. QED  BY <5>1, <5>2 DEF Vector
      <4>. QED  BY <1>1, <4>1 DEF Written
    <3>. QED  BY <1>1, <1>3, <3>1, <3>2
  <2>3. DS!Upsert(k)
    BY <1>1, <1>3, <2>1, <2>2 DEF DS!Upsert
  <2>. QED  BY <2>3 DEF DS!Next
<1>. QED  BY <1>1, <1>2, <1>3

LEMMA ChunkRefines ==
  ASSUME TInv, NEW k \in Calls, SendChunk(k)
  PROVE  DS!Next \/ UNCHANGED DS!vars
<1>1. PICK n \in 1..Len(call[k].todo), ids \in SUBSET Ids : UNCHANGED docs \/ Rows(k, n, ids)
  BY StepChunk
<1>2. UNCHANGED <<bindings, task, versions>> /\ backend' = backend /\ backend = "postgres"
  BY StepChunk DEF Shape
<1>3. CASE UNCHANGED docs
  BY <1>2, <1>3 DEF DS!vars
<1>4. CASE Rows(k, n, ids)
  <2>1. PICK last \in [ids -> 1..n] :
          docs' = [d \in Ids |-> IF d \in ids THEN Written(k, d, call[k].todo[last[d]])
                                 ELSE docs[d]]
    BY <1>4 DEF Rows
  <2>. DEFINE new == [d \in ids |-> Vector(k, call[k].todo[last[d]])]
  <2>2. \A d \in ids : call[k].todo[last[d]] \in Element
    BY <1>1, <2>1, TodoType
  <2>3. \A d \in ids : Vector(k, call[k].todo[last[d]]) \in Vectors \cup {None}
    BY <2>2 DEF Vector, Vectors, Element
  <2>4. new \in [ids -> Vectors \cup {None}]
    BY <2>3
  <2>5. docs' = [d \in Ids |->
            IF d \notin ids THEN docs[d]
            ELSE [text |-> k,
                  vector |-> IF backend = "elastic" /\ new[d] = None THEN docs[d].vector
                                                                     ELSE new[d]]]
    BY <1>2, <2>1 DEF Written
  <2>6. DS!Upsert(k)
    BY <1>1, <1>2, <2>4, <2>5 DEF DS!Upsert
  <2>. QED  BY <2>6 DEF DS!Next
<1>. QED  BY <1>1, <1>3, <1>4

LEMMA TaskRefines ==
  ASSUME TInv, Copied, NEW k \in Calls, TaskCreate(k) \/ TaskStore(k)
  PROVE  DS!Next \/ UNCHANGED DS!vars
<1>1. UNCHANGED <<bindings, docs>> /\ backend' = backend
  BY StepTaskCreate, StepTaskStore DEF Shape
<1>2. UNCHANGED <<task, versions>> => UNCHANGED DS!vars
  BY <1>1 DEF DS!vars
<1>3. CASE TaskCreate(k)
  <2>1. CASE task = DS!NoTask /\ SetTask([status |-> "pending", note |-> None])
    <3>1. DS!CreateTask
      BY <1>1, <2>1 DEF DS!CreateTask, DS!SetTask, SetTask
    <3>. QED  BY <3>1 DEF DS!Next
  <2>. QED  BY <1>2, <1>3, <2>1, StepTaskCreate
<1>4. CASE TaskStore(k)
  <2>1. CASE task # DS!NoTask /\ SetTask(Patched(k, Base(k)))
    <3>1. Base(k) \in versions \ {DS!NoTask} /\ (backend = "elastic" => Base(k) = task)
      BY <1>4, <2>1, StepTaskStore DEF Base, Copied, TInv, TypeOK
    <3>2. \/ DS!SetTask([status |-> "running", note |-> Base(k).note])
          \/ DS!SetTask([status |-> Base(k).status, note |-> k])
      BY <1>1, <2>1 DEF Patched, SetTask, DS!SetTask
    <3>3. DS!PatchTask(k)
      BY <2>1, <3>1, <3>2 DEF DS!PatchTask
    <3>. QED  BY <3>3 DEF DS!Next
  <2>. QED  BY <1>2, <1>4, <2>1, StepTaskStore
<1>. QED  BY <1>3, <1>4

LEMMA StepRefines ==
  ASSUME TInv, Copied, NEW k \in Calls, Step(k)
  PROVE  DS!Next \/ UNCHANGED DS!vars
<1>0. backend' = backend
  BY StepType DEF Shape
<1>1. UNCHANGED store => UNCHANGED DS!vars
  BY <1>0 DEF store, DS!vars
<1>2. ASSUME NEW r \in Requests, Ask(k, r) PROVE UNCHANGED store
  BY <1>2 DEF Ask
<1>3. CASE Raise(k) \/ IndexExists(k) \/ MappingGet(k) \/ Bulked(k) \/ TaskRead(k)
  BY <1>1, <1>3, StepRaise, StepExists, StepMapping, StepBulked, StepTaskRead
<1>4. CASE IndexCreate(k) \/ MappingPut(k)
  BY <1>0, <1>4, StepCreate, StepPut DEF DS!vars
<1>5. CASE Bind(k) \/ Unbind(k) \/ Rebind(k)
  BY <1>5, BindingRefines
<1>6. CASE ApplyDoc(k)
  BY <1>6, DocRefines
<1>7. CASE SendChunk(k)
  BY <1>7, ChunkRefines
<1>8. CASE TaskCreate(k) \/ TaskStore(k)
  BY <1>8, TaskRefines
<1>. QED  BY <1>1, <1>2, <1>3, <1>4, <1>5, <1>6, <1>7, <1>8 DEF Step

(* Whatever the backend, the callers and the faults: the writers are the   *)
(* store that DocumentStore promises.                                      *)
THEOREM KeepsPromise == Spec => Promised
<1>1. Init => DS!Init
  BY DEF Init, DS!Init
<1>2. TInv /\ Copied /\ [Next]_vars => [DS!Next]_(DS!vars)
  <2>1. UNCHANGED vars => UNCHANGED DS!vars
    BY DEF vars, store, DS!vars
  <2>. QED  BY <2>1, StepRefines DEF Next
<1>. QED  BY TypeInvariant, CopiedHolds, <1>1, <1>2, PTL DEF Spec, Promised, DS!Spec

(* What the promise gives its callers, and so every backend: a binding     *)
(* stays, inactive once it is deactivated, which is why a later create for *)
(* its kb_index is refused (store_memory.py:369-373); and a search engine, *)
(* which merges, never takes a document its vector.                        *)
NothingTakenBack ==
  [][/\ \A i \in Indexes :
          /\ bindings[i].state # "none" => bindings'[i].state # "none"
          /\ bindings[i].state = "inactive" => bindings'[i].state = "inactive"
     /\ backend = "elastic" =>
          \A d \in Ids : docs[d].vector # None => docs'[d].vector # None]_vars

THEOREM BindingsStay == Spec => NothingTakenBack
<1> DEFINE A == /\ \A i \in Indexes :
                     /\ bindings[i].state # "none" => bindings'[i].state # "none"
                     /\ bindings[i].state = "inactive" => bindings'[i].state = "inactive"
                /\ backend = "elastic" =>
                     \A d \in Ids : docs[d].vector # None => docs'[d].vector # None
<1>1. TInv /\ [DS!Next]_(DS!vars) => A
  <2> SUFFICES ASSUME TInv, DS!Next \/ UNCHANGED DS!vars PROVE A
    OBVIOUS
  <2>1. bindings \in [Indexes -> DS!Binding]
    BY DEF TInv, TypeOK
  <2>2. ASSUME NEW i \in Indexes, NEW k, DS!Bind(i, k) \/ DS!Rebind(i, k) \/ DS!Unbind(i) PROVE A
    BY <2>1, <2>2 DEF DS!Bind, DS!Rebind, DS!Unbind, DS!Store, DS!Binding
  <2>3. ASSUME NEW k, DS!Upsert(k) PROVE A
    BY <2>3 DEF DS!Upsert
  <2>4. ASSUME NEW k, DS!CreateTask \/ DS!PatchTask(k) PROVE A
    BY <2>4 DEF DS!CreateTask, DS!PatchTask, DS!SetTask
  <2>5. CASE UNCHANGED DS!vars
    BY <2>5 DEF DS!vars
  <2>. QED  BY <2>2, <2>3, <2>4, <2>5 DEF DS!Next
<1>. QED  BY <1>1, TypeInvariant, KeepsPromise, PTL DEF Promised, DS!Spec, NothingTakenBack

-----------------------------------------------------------------------------
(* Bulk writes.  What a call still has to send is the end of its list; as  *)
(* long as it counted no failure, what it sent is written.                 *)
Upserting(k) == call[k].pc # "new" /\ call[k].req.op = "upsert"

Sequel(k) ==
  LET list == call[k].req.docs
      todo == call[k].todo
  IN  /\ Len(todo) <= Len(list)
      /\ \A m \in 1..Len(todo) : todo[m] = list[m + (Len(list) - Len(todo))]

Put(k, n) == LET d == call[k].req.docs[n].id IN d \in Ids /\ docs[d].text \in Calls \ before[k]

SentIsWritten(k) ==
  call[k].bad = 0 => \A n \in 1..(Len(call[k].req.docs) - Len(call[k].todo)) : Put(k, n)

WInv == \A k \in Calls : Upserting(k) => /\ Sequel(k) /\ SentIsWritten(k)
                                         /\ Did(k, "upsert", "counted") => call[k].todo = <<>>

(* A document that call k does not write, or writes, keeps Put of others.  *)
LEMMA PutStays ==
  ASSUME TInv, Early, NEW k \in Calls, Shape(k), call[k].pc # "new",
         \A d \in Ids : docs'[d].text \in {docs[d].text, k},
         NEW l \in Calls, NEW n, Put(l, n), call'[l].req = call[l].req
  PROVE  Put(l, n)'
<1>1. before' = before /\ call[k].pc # "ended"
  BY DEF Shape
<1>2. k \notin before[l]
  BY <1>1 DEF Early
<1>. QED  BY <1>1, <1>2 DEF Put

LEMMA ListType ==
  ASSUME TInv, NEW k \in Calls, Upserting(k)
  PROVE  /\ call[k].req.docs \in Seq(Element) /\ call[k].todo \in Seq(Element)
         /\ Len(call[k].req.docs) \in Nat /\ Len(call[k].todo) \in Nat
<1>1. call[k].req \in Requests /\ call[k].req.op = "upsert"
  BY DEF TInv, Made, Upserting
<1>2. call[k].req.docs \in Seq(Element)
  BY <1>1, RequestKinds, BatchElements
<1>. QED  BY <1>2, TodoType

(* Steps that send nothing.                                                *)
LEMMA WInvKept ==
  ASSUME TInv, Early, WInv, NEW k \in Calls, Shape(k), call[k].pc # "new",
         \A d \in Ids : docs'[d] = docs[d],
         Upserting(k) => /\ call'[k].todo = call[k].todo /\ call'[k].bad = call[k].bad
                         /\ Did(k, "upsert", "counted")' => call[k].todo = <<>>
  PROVE  WInv'
<1>1. \A l \in Calls : Upserting(l)' => Upserting(l) /\ call'[l].req = call[l].req
  BY DEF Shape, Upserting
<1>2. before' = before
  BY DEF Shape
<1>3. ASSUME NEW l \in Calls, Upserting(l)'
      PROVE  /\ call'[l].todo = call[l].todo /\ call'[l].bad = call[l].bad
             /\ Did(l, "upsert", "counted")' => call[l].todo = <<>>
  BY <1>1, <1>3 DEF Shape, WInv, Did
<1>4. ASSUME NEW l \in Calls, Upserting(l)' PROVE Sequel(l)' /\ SentIsWritten(l)'
  <2>1. Sequel(l) /\ SentIsWritten(l) /\ call'[l].req = call[l].req
    BY <1>1, <1>4 DEF WInv
  <2>2. Sequel(l)'
    BY <1>3, <1>4, <2>1 DEF Sequel
  <2>3. \A n : Put(l, n) => Put(l, n)'
    BY <1>2, <2>1 DEF Put
  <2>4. SentIsWritten(l)'
    BY <1>3, <1>4, <2>1, <2>3 DEF SentIsWritten
  <2>. QED  BY <2>2, <2>4
<1>. QED  BY <1>3, <1>4 DEF WInv

(* Steps that send n documents, and write them unless they count failures. *)
LEMMA WInvSent ==
  ASSUME TInv, Early, WInv, NEW k \in Calls, Shape(k), Upserting(k),
         NEW n \in 1..Len(call[k].todo), NEW f \in Nat, Advanced(k, n, f),
         \A d \in Ids : docs'[d].text \in {docs[d].text, k},
         f = 0 => \A m \in 1..n : /\ call[k].todo[m].id \in Ids
                                  /\ docs'[call[k].todo[m].id].text = k
  PROVE  WInv'
<1>. DEFINE list == call[k].req.docs
            todo == call[k].todo
            rest == call'[k].todo
<1>1. call[k].pc # "new" /\ call[k].pc # "ended" /\ before' = before
      /\ call'[k].req = call[k].req
  BY DEF Shape, Upserting
<1>2. \A l \in Calls \ {k} : call'[l] = call[l]
  BY DEF Shape
<1>3. ASSUME NEW l \in Calls \ {k}, Upserting(l)'
      PROVE  /\ Sequel(l)' /\ SentIsWritten(l)'
             /\ Did(l, "upsert", "counted")' => call'[l].todo = <<>>
  <2>1. Upserting(l) /\ call'[l] = call[l]
    BY <1>2, <1>3 DEF Upserting
  <2>2. Sequel(l) /\ SentIsWritten(l)
        /\ (Did(l, "upsert", "counted") => call[l].todo = <<>>)
    BY <2>1 DEF WInv
  <2>3. \A m : Put(l, m) => Put(l, m)'
    BY <1>1, <2>1, PutStays
  <2>. QED  BY <2>1, <2>2, <2>3 DEF Sequel, SentIsWritten, Did
<1>4. /\ Len(list) \in Nat /\ Len(todo) \in Nat /\ n \in Nat /\ n <= Len(todo)
      /\ Len(todo) <= Len(list) /\ todo \in Seq(Element)
      /\ \A m \in 1..Len(todo) : todo[m] = list[m + (Len(list) - Len(todo))]
  <2>1. Len(list) \in Nat /\ Len(todo) \in Nat /\ todo \in Seq(Element)
    BY ListType
  <2>2. Sequel(k)
    BY DEF WInv
  <2>3. /\ Len(todo) <= Len(list)
        /\ \A m \in 1..Len(todo) : todo[m] = list[m + (Len(list) - Len(todo))]
    BY <2>2 DEF Sequel
  <2>4. n \in Nat /\ n <= Len(todo)
    BY <2>1
  <2>. QED  BY <2>1, <2>3, <2>4
<1>5. /\ Len(rest) = Len(todo) - n
      /\ \A m \in 1..(Len(todo) - n) : rest[m] = todo[m + n]
  <2>1. rest = SubSeq(todo, n + 1, Len(todo))
    BY DEF Advanced
  <2>2. /\ Len(SubSeq(todo, n + 1, Len(todo))) = Len(todo) - n
        /\ \A m \in 1..(Len(todo) - n) : SubSeq(todo, n + 1, Len(todo))[m] = todo[m + n]
    <3>1. todo \in Seq(Element) /\ n \in Nat /\ n <= Len(todo)
      BY <1>4
    <3>. HIDE DEF todo
    <3>. QED  BY <3>1, TailOf
  <2>. HIDE DEF rest, todo
  <2>. QED  BY <2>1, <2>2
<1>6. Sequel(k)'
  <2>1. Len(rest) <= Len(list)
    BY <1>4, <1>5
  <2>2. ASSUME NEW m \in 1..Len(rest) PROVE rest[m] = list[m + (Len(list) - Len(rest))]
    <3>. HIDE DEF list, todo, rest
    <3>1. m \in 1..(Len(todo) - n) /\ m + n \in 1..Len(todo)
      BY <1>4, <1>5
    <3>2. (m + n) + (Len(list) - Len(todo)) = m + (Len(list) - Len(rest))
      BY <1>4, <1>5, <3>1
    <3>3. rest[m] = todo[m + n] /\ todo[m + n] = list[(m + n) + (Len(list) - Len(todo))]
      BY <1>4, <1>5, <3>1
    <3>. QED  BY <3>2, <3>3
  <2>. QED  BY <1>1, <2>1, <2>2 DEF Sequel
<1>7. SentIsWritten(k)'
  <2>. SUFFICES ASSUME call'[k].bad = 0, NEW j \in 1..(Len(list) - Len(rest))
                PROVE  Put(k, j)'
    BY <1>1 DEF SentIsWritten
  <2>1. f = 0 /\ call[k].bad = 0
    BY TodoType DEF Advanced
  <2>2. CASE j \in 1..(Len(list) - Len(todo))
    <3>1. Put(k, j)
      BY <2>1, <2>2 DEF WInv, SentIsWritten
    <3>. QED  BY <1>1, <3>1, PutStays
  <2>3. CASE j \notin 1..(Len(list) - Len(todo))
    <3>. DEFINE m == j - (Len(list) - Len(todo))
    <3>1. m \in 1..n /\ m \in 1..Len(todo) /\ m + (Len(list) - Len(todo)) = j
      <4>. HIDE DEF list, todo, rest
      <4>. QED  BY <1>4, <1>5, <2>3
    <3>2. todo[m] = list[j]
      BY <1>4, <3>1
    <3>3. list[j].id \in Ids /\ docs'[list[j].id].text = k
      BY <2>1, <3>1, <3>2
    <3>4. k \notin before'[k]
      BY <1>1 DEF Early
    <3>. QED  BY <1>1, <3>3, <3>4 DEF Put
  <2>. QED  BY <2>2, <2>3
<1>8. ~Did(k, "upsert", "counted")'
  BY DEF Did, Advanced
<1>. QED  BY <1>3, <1>6, <1>7, <1>8 DEF WInv

LEMMA QuietSteps ==
  ASSUME TInv, NEW k \in Calls, call[k].pc # "new",
         Raise(k) \/ IndexExists(k) \/ IndexCreate(k) \/ MappingGet(k) \/ MappingPut(k)
  PROVE  call'[k].todo = call[k].todo /\ call'[k].bad = call[k].bad
<1>. DEFINE c(s) == [call[k] EXCEPT !.pc = s]
            x == [call[k] EXCEPT !.pc = "ended", !.answer = "raised"]
<1>1. \E s \in Steps : Becomes(k, c(s)) \/ Becomes(k, x)
  BY DEF Steps, Raise, IndexExists, IndexCreate, MappingGet, MappingPut, Goto, Fail
<1>2. \A s \in Steps : c(s).todo = call[k].todo /\ c(s).bad = call[k].bad
  BY Going
<1>3. x.todo = call[k].todo /\ x.bad = call[k].bad
  BY Ending DEF Answers
<1>. HIDE DEF c, x
<1>. QED  BY <1>1, <1>2, <1>3, Moved

LEMMA WInvStep ==
  ASSUME TInv, Early, WInv, NEW k \in Calls, Step(k)
  PROVE  WInv'
<1>1. TInv' /\ Shape(k)
  BY StepType
<1>2. ASSUME NEW r \in Requests, Ask(k, r) PROVE WInv'
  <2>1. /\ UNCHANGED docs /\ call[k].pc = "new"
    BY <1>2 DEF Ask, store
  <2>2. /\ call'[k].req = r /\ call'[k].bad = 0
        /\ call'[k].todo = IF r.op = "upsert" THEN r.docs ELSE <<>>
        /\ \A l \in Calls \ {k} : call'[l] = call[l] /\ before'[l] = before[l]
    BY <1>2, TInvAsk
  <2>3. ~Did(k, "upsert", "counted")'
    BY <1>2, TInvAsk DEF Did
  <2>4. ASSUME NEW l \in Calls \ {k}, Upserting(l)'
        PROVE  /\ Sequel(l)' /\ SentIsWritten(l)'
               /\ Did(l, "upsert", "counted")' => call'[l].todo = <<>>
    <3>1. Upserting(l) /\ call'[l] = call[l]
      BY <2>2, <2>4 DEF Upserting
    <3>2. \A n : Put(l, n) => Put(l, n)'
      BY <2>1, <2>2, <3>1 DEF Put
    <3>. QED  BY <3>1, <3>2 DEF WInv, Sequel, SentIsWritten, Did
  <2>5. ASSUME Upserting(k)'
        PROVE  /\ Sequel(k)' /\ SentIsWritten(k)'
               /\ Did(k, "upsert", "counted")' => call'[k].todo = <<>>
    <3>1. r.op = "upsert" /\ call'[k].todo = r.docs /\ call'[k].req.docs = r.docs
      BY <2>2, <2>5 DEF Upserting
    <3>2. r.docs \in Seq(Element) /\ Len(r.docs) \in Nat
      BY <3>1, RequestKinds, BatchElements
    <3>3. Len(r.docs) - Len(r.docs) = 0
      BY <3>2
    <3>4. \A m \in 1..Len(r.docs) : m + 0 = m
      BY <3>2
    <3>5. Sequel(k)'
      BY <3>1, <3>2, <3>3, <3>4 DEF Sequel
    <3>6. SentIsWritten(k)'
      BY <3>1, <3>3 DEF SentIsWritten
    <3>. QED  BY <2>3, <3>5, <3>6
  <2>. QED  BY <2>4, <2>5 DEF WInv
<1>3. CASE ~\E r \in Requests : Ask(k, r)
  <2>1. call[k].pc # "new"
    BY <1>3
    DEF Step, Raise, Bind, Unbind, Rebind, IndexExists, IndexCreate, MappingGet,
        MappingPut, ApplyDoc, SendChunk, Bulked, TaskCreate, TaskRead, TaskStore, At
  <2>2. call'[k].req = call[k].req
    BY <1>1, <2>1 DEF Shape
  <2>3. CASE Raise(k) \/ IndexExists(k) \/ IndexCreate(k) \/ MappingGet(k) \/ MappingPut(k)
    <3>1. UNCHANGED docs
      BY <2>3, StepRaise, StepExists, StepCreate, StepMapping, StepPut DEF store
    <3>2. call'[k].todo = call[k].todo /\ call'[k].bad = call[k].bad
      BY <2>1, <2>3, QuietSteps
    <3>3. ~Did(k, "upsert", "counted")'
      BY <2>3, StepRaise, StepExists, StepCreate, StepMapping, StepPut DEF Did
    <3>. QED  BY <1>1, <2>1, <3>1, <3>2, <3>3, WInvKept
  <2>4. CASE Bind(k) \/ Unbind(k) \/ Rebind(k) \/ TaskCreate(k) \/ TaskRead(k) \/ TaskStore(k)
    <3>1. UNCHANGED docs
      BY <2>4, StepBind, StepUnbind, StepRebind, StepTaskCreate, StepTaskRead,
         StepTaskStore DEF store
    <3>2. ~Upserting(k)
      BY <2>4 DEF Upserting, Bind, Unbind, Rebind, TaskCreate, TaskRead, TaskStore, At
    <3>. QED  BY <1>1, <2>1, <3>1, <3>2, WInvKept
  <2>5. CASE Bulked(k)
    BY <1>1, <2>1, <2>5, StepBulked, WInvKept DEF store
  <2>6. CASE ApplyDoc(k)
    <3>. DEFINE e == Head(call[k].todo)
    <3>1. PICK f \in {0, 1} :
            /\ Advanced(k, 1, f)
            /\ \/ f = 1 /\ UNCHANGED docs
               \/ e.id \in Ids /\ docs' = [docs EXCEPT ![e.id] = Written(k, e.id, e)]
      BY <2>6, StepApply
    <3>2. call[k].todo \in Seq(Element) /\ call[k].todo # <<>> /\ Upserting(k)
      BY <2>1, <2>6, TodoType, StepApply DEF Upserting
    <3>3. 1 \in 1..Len(call[k].todo) /\ call[k].todo[1] = e
      BY <3>2
    <3>4. \A d \in Ids : docs'[d].text \in {docs[d].text, k}
      BY <3>1 DEF TInv, TypeOK, Written
    <3>5. f = 0 => e.id \in Ids /\ docs'[e.id].text = k
      BY <3>1 DEF TInv, TypeOK, Written
    <3>6. f = 0 => \A m \in 1..1 : /\ call[k].todo[m].id \in Ids
                                   /\ docs'[call[k].todo[m].id].text = k
      BY <3>3, <3>5
    <3>7. f \in Nat
      OBVIOUS
    <3>. QED  BY <1>1, <3>1, <3>2, <3>3, <3>4, <3>6, <3>7, WInvSent
  <2>7. CASE SendChunk(k)
    <3>1. PICK n \in 1..Len(call[k].todo), f \in Nat, ids \in SUBSET Ids :
            /\ Advanced(k, n, f)
            /\ f = 0 => /\ \A m \in 1..n : call[k].todo[m].id \in ids
                        /\ Rows(k, n, ids)
            /\ UNCHANGED docs \/ Rows(k, n, ids)
      BY <2>7, StepChunk
    <3>2. Upserting(k)
      BY <2>1, <2>7, StepChunk DEF Upserting
    <3>3. Rows(k, n, ids) =>
            \A d \in Ids : docs'[d].text = IF d \in ids THEN k ELSE docs[d].text
      BY <3>1, RowsType
    <3>4. \A d \in Ids : docs'[d].text \in {docs[d].text, k}
      BY <3>1, <3>3
    <3>5. f = 0 => \A m \in 1..n : /\ call[k].todo[m].id \in Ids
                                   /\ docs'[call[k].todo[m].id].text = k
      BY <3>1, <3>3
    <3>. QED  BY <1>1, <3>1, <3>2, <3>4, <3>5, WInvSent
  <2>. QED  BY <1>3, <2>3, <2>4, <2>5, <2>6, <2>7 DEF Step
<1>. QED  BY <1>2, <1>3

(* A bulk write that reports no failure is not hidden by an older one.     *)
THEOREM CountedWrites == Spec => []CountedIsWritten
<1>1. Init => WInv
  BY DEF Init, New, WInv, Upserting
<1>2. TInv /\ Early /\ WInv /\ [Next]_vars => WInv'
  <2>1. WInv /\ UNCHANGED vars => WInv'
    <3>. SUFFICES ASSUME WInv, UNCHANGED vars PROVE WInv'
      OBVIOUS
    <3>1. call' = call /\ docs' = docs /\ before' = before
      BY DEF vars, store
    <3>. QED  BY <3>1 DEF WInv, Upserting, Sequel, SentIsWritten, Put, Did
  <2>. QED  BY <2>1, WInvStep DEF Next
<1>3. TInv /\ WInv => CountedIsWritten
  <2>. SUFFICES ASSUME TInv, WInv, NEW k \in Calls, Did(k, "upsert", "counted"),
                       call[k].bad = 0, NEW n \in DOMAIN call[k].req.docs
                PROVE  Put(k, n)
    BY DEF CountedIsWritten, Put
  <2>1. Upserting(k)
    BY DEF Did, Upserting
  <2>2. call[k].todo = <<>> /\ SentIsWritten(k)
    BY <2>1 DEF WInv
  <2>3. n \in 1..(Len(call[k].req.docs) - Len(call[k].todo))
    BY <2>1, <2>2, ListType
  <2>. QED  BY <2>2, <2>3 DEF SentIsWritten
<1>. QED  BY TypeInvariant, EarlyHolds, <1>1, <1>2, <1>3, PTL DEF Spec
=============================================================================
