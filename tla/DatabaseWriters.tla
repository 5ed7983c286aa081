-------------------------- MODULE DatabaseWriters --------------------------
(***************************************************************************)
(* The database writers behind IDatabaseWriter, call by call: several      *)
(* callers (pool processes, the API process) use one backend at the same   *)
(* time.  A call is a sequence of requests to the backend, each one step;  *)
(* a bulk request of a search engine applies its documents one by one, one *)
(* of PostgreSQL is a transaction per chunk.                               *)
(*                                                                         *)
(* "elastic" is ElasticsearchWriter, and OpenSearchWriter, whose           *)
(* operations send the same requests (the mapping of the vector field and  *)
(* the settings that go with it are in ImportStore); "postgres" is         *)
(* PostgresWriter with its schema.sql.  All bindings bear one tag.         *)
(***************************************************************************)
EXTENDS Naturals, Sequences, FiniteSets

CONSTANTS
  Calls,      \* calls of the writer, each made at most once
  Indexes,    \* kb_indexes of one domain
  Ids,        \* document ids
  Dims,       \* dimensions of vectors
  Batches,    \* lists of documents: [id, dim], either may be None
  Chunk,      \* bulk_chunk_size
  MaxFaults,  \* how many requests may fail
  None

ASSUME ConstantsOK ==
  /\ Batches \subseteq Seq([id : Ids \cup {None}, dim : Dims \cup {None}])
  /\ None \notin Calls \cup Ids \cup Dims \cup [by : Calls, dim : Dims]
  /\ Chunk \in Nat \ {0} /\ MaxFaults \in Nat

VARIABLES
  backend,    \* database.provider
  bindings, docs, task, versions,   \* as in DocumentStore
  mapping,    \* the content index: does it exist, dims of content_vector
  call,       \* call[k]: the state of call k
  before,     \* before[k]: the calls that had ended when k was made (history)
  faults

store == <<bindings, docs, task, versions, mapping>>
vars  == <<backend, store, call, before, faults>>

Vectors == [by : Calls, dim : Dims]

DS == INSTANCE DocumentStore WITH merges <- (backend = "elastic")

Updates == {[expected |-> {"pending"}, sets |-> "status"],
            [expected |-> {}, sets |-> "note"]}

Requests ==
  [op : {"bind", "unbind", "rebind"}, index : Indexes]
    \cup [op : {"upsert"}, docs : Batches]
    \cup [op : {"task.create"}]
    \cup [op : {"task.update"}, update : Updates]

Steps   == {"new", "write", "exists", "create", "mapping", "put", "bulk",
            "read", "store", "ended"}
Answers == {None, "created", "conflict", "updated", "not_bound", "true", "false",
            "counted", "raised"}

(* todo: documents not yet sent; bad: fail_count; copy: the task as read.  *)
Call == [req : Requests \cup {None}, pc : Steps, todo : Seq([id : Ids \cup {None},
         dim : Dims \cup {None}]), bad : Nat, copy : DS!Task, answer : Answers]

New == [req |-> None, pc |-> "new", todo |-> <<>>, bad |-> 0,
        copy |-> DS!NoTask, answer |-> None]

TypeOK ==
  /\ backend \in {"elastic", "postgres"}
  /\ bindings \in [Indexes -> DS!Binding]
  /\ docs \in [Ids -> DS!Doc]
  /\ task \in DS!Task
  /\ versions \subseteq DS!Task
  /\ mapping \in [exists : BOOLEAN, dim : Dims \cup {None}]
  /\ call \in [Calls -> Call]
  /\ before \in [Calls -> SUBSET Calls]
  /\ faults \in 0..MaxFaults

Init ==
  /\ backend \in {"elastic", "postgres"}
  /\ bindings = [i \in Indexes |-> DS!NoBinding]
  /\ docs = [d \in Ids |-> DS!NoDoc]
  /\ task = DS!NoTask
  /\ versions = {DS!NoTask}
  /\ mapping = [exists |-> FALSE, dim |-> None]
  /\ call = [k \in Calls |-> New]
  /\ before = [k \in Calls |-> {}]
  /\ faults = 0

-----------------------------------------------------------------------------
At(k, op, s) == call[k].pc = s /\ call[k].req.op = op

Becomes(k, c) == call' = [call EXCEPT ![k] = c] /\ UNCHANGED <<backend, before>>

Goto(k, s) == Becomes(k, [call[k] EXCEPT !.pc = s])

(* The call returns a, or loses the answer of its last request and raises. *)
Return(k, a) ==
  \/ Becomes(k, [call[k] EXCEPT !.pc = "ended", !.answer = a]) /\ UNCHANGED faults
  \/ /\ faults < MaxFaults
     /\ faults' = faults + 1
     /\ Becomes(k, [call[k] EXCEPT !.pc = "ended", !.answer = "raised"])

(* A request fails before it had any effect.                               *)
Raise(k) ==
  /\ call[k].pc \notin {"new", "ended"}
  /\ faults < MaxFaults
  /\ faults' = faults + 1
  /\ Becomes(k, [call[k] EXCEPT !.pc = "ended", !.answer = "raised"])
  /\ UNCHANGED store

(* _first_content_vector_dims: dim, of the first document with a vector.   *)
HasVectors(list) == \E n \in DOMAIN list : list[n].dim # None

FirstDims(list, dim) ==
  \E n \in DOMAIN list : /\ dim = list[n].dim /\ dim # None
                         /\ \A m \in 1..(n - 1) : list[m].dim = None

FirstStep(r) ==
  CASE r.op = "upsert" -> IF backend = "elastic" /\ HasVectors(r.docs)
                          THEN "exists" ELSE "bulk"
    [] r.op = "task.update" -> IF backend = "postgres" \/ r.update.expected # {}
                               THEN "read" ELSE "store"
    [] OTHER -> "write"

Ask(k, r) ==
  /\ call[k].pc = "new"
  /\ call' = [call EXCEPT ![k] =
       [req |-> r, pc |-> FirstStep(r), todo |-> IF r.op = "upsert" THEN r.docs ELSE <<>>,
        bad |-> 0, copy |-> DS!NoTask, answer |-> None]]
  /\ before' = [before EXCEPT ![k] = {l \in Calls : call[l].pc = "ended"}]
  /\ UNCHANGED <<backend, store, faults>>

-----------------------------------------------------------------------------
(* Mutant of Taken: only an active binding is in the way.                  *)
TakenIfActive(i) ==
  \E j \in Indexes :
    bindings[j].state = "active" /\ (i = j \/ backend = "postgres")

(* create_index_binding: op_type=create, or an INSERT that must not meet   *)
(* the primary key or the unique index on the tag of the active bindings.  *)
Taken(i) ==
  \/ bindings[i].state # "none"
  \/ backend = "postgres" /\ \E j \in Indexes : bindings[j].state = "active"

Bind(k) ==
  /\ At(k, "bind", "write")
  /\ LET i == call[k].req.index
     IN  IF Taken(i) THEN Return(k, "conflict") /\ UNCHANGED bindings
         ELSE /\ bindings' = [bindings EXCEPT ![i] = [state |-> "active", by |-> k]]
              /\ Return(k, "created")
  /\ UNCHANGED <<docs, task, versions, mapping>>

(* deactivate_binding: PostgreSQL finds only an active binding.            *)
CanUnbind(i) == bindings[i].state \in IF backend = "postgres" THEN {"active"}
                                      ELSE {"active", "inactive"}

Unbind(k) ==
  /\ At(k, "unbind", "write")
  /\ LET i == call[k].req.index
     IN  IF ~CanUnbind(i) THEN Return(k, "not_bound") /\ UNCHANGED bindings
         ELSE /\ bindings' = [bindings EXCEPT ![i] = [state |-> "inactive", by |-> bindings[i].by]]
              /\ Return(k, "updated")
  /\ UNCHANGED <<docs, task, versions, mapping>>

(* update_binding patches an inactive binding too.  PostgreSQL sends no    *)
(* request for an empty patch and answers "updated" without a row too.     *)
Unpatched == IF backend = "postgres" THEN "updated" ELSE "not_bound"

Rebind(k) ==
  /\ At(k, "rebind", "write")
  /\ LET i == call[k].req.index
     IN  \/ /\ backend = "postgres"
            /\ Becomes(k, [call[k] EXCEPT !.pc = "ended", !.answer = "false"])
            /\ UNCHANGED <<bindings, faults>>
         \/ /\ bindings[i].state = "none"
            /\ Return(k, Unpatched)
            /\ UNCHANGED bindings
         \/ /\ bindings[i].state # "none"
            /\ bindings' = [bindings EXCEPT ![i] = [state |-> bindings[i].state, by |-> k]]
            /\ Return(k, "updated")
  /\ UNCHANGED <<docs, task, versions, mapping>>

-----------------------------------------------------------------------------
(* Mutant of IndexExists: the mapping of an existing index is left alone.  *)
IndexExistsOnly(k) ==
  /\ At(k, "upsert", "exists")
  /\ Goto(k, IF mapping.exists THEN "bulk" ELSE "create")
  /\ UNCHANGED <<store, faults>>

(* _ensure_vector_index_mapping, request by request.                       *)
IndexExists(k) ==
  /\ At(k, "upsert", "exists")
  /\ Goto(k, IF mapping.exists THEN "mapping" ELSE "create")
  /\ UNCHANGED <<store, faults>>

Fail(k) == Becomes(k, [call[k] EXCEPT !.pc = "ended", !.answer = "raised"])

IndexCreate(k) ==
  /\ At(k, "upsert", "create")
  /\ IF mapping.exists THEN Fail(k) /\ UNCHANGED mapping
     ELSE /\ \E dim \in Dims : /\ FirstDims(call[k].req.docs, dim)
                              /\ mapping' = [exists |-> TRUE, dim |-> dim]
          /\ Goto(k, "bulk")
  /\ UNCHANGED <<bindings, docs, task, versions, faults>>

MappingGet(k) ==
  /\ At(k, "upsert", "mapping")
  /\ Goto(k, IF mapping.dim = None THEN "put" ELSE "bulk")
  /\ UNCHANGED <<store, faults>>

MappingPut(k) ==
  /\ At(k, "upsert", "put")
  /\ \E dim \in Dims :
       /\ FirstDims(call[k].req.docs, dim)
       /\ IF mapping.dim \notin {None, dim} THEN Fail(k) /\ UNCHANGED mapping
          ELSE mapping' = [exists |-> TRUE, dim |-> dim] /\ Goto(k, "bulk")
  /\ UNCHANGED <<bindings, docs, task, versions, faults>>

-----------------------------------------------------------------------------
(* Mutant of Vector: the dimension without the numbers.                    *)
VectorBare(k, e) == e.dim

(* What document d holds after call k wrote e to it.                       *)
Vector(k, e) == IF e.dim = None THEN None ELSE [by |-> k, dim |-> e.dim]

Written(k, d, e) ==
  [text |-> k, vector |-> IF backend = "elastic" /\ e.dim = None
                          THEN docs[d].vector ELSE Vector(k, e)]

(* A search engine refuses a vector of another dimension than the field's; *)
(* a field that nobody declared would be mapped as plain numbers.          *)
Fits(e) == e.dim = None \/ mapping.dim \in {None, e.dim}

Sent(k, n, failures) ==
  LET todo == call[k].todo
  IN  Becomes(k, [call[k] EXCEPT !.todo = SubSeq(todo, n + 1, Len(todo)),
                                 !.bad = call[k].bad + failures])

(* Mutant of ApplyDoc: a refused document is not counted.                   *)
ApplyUncounted(k) ==
  /\ backend = "elastic"
  /\ At(k, "upsert", "bulk")
  /\ call[k].todo # <<>>
  /\ LET e == Head(call[k].todo)
     IN  IF e.id = None \/ ~Fits(e)
         THEN Sent(k, 1, 0) /\ UNCHANGED docs
         ELSE Sent(k, 1, 0) /\ docs' = [docs EXCEPT ![e.id] = Written(k, e.id, e)]
  /\ UNCHANGED <<bindings, task, versions, mapping, faults>>

(* One action of _bulk: written and counted, refused for what it is or     *)
(* (409, 429) for the state of the engine and counted, or its answer is    *)
(* lost, and it is counted as failed although it was written.              *)
ApplyDoc(k) ==
  /\ backend = "elastic"
  /\ At(k, "upsert", "bulk")
  /\ call[k].todo # <<>>
  /\ LET e == Head(call[k].todo)
     IN  IF e.id = None \/ ~Fits(e)
         THEN Sent(k, 1, 1) /\ UNCHANGED <<store, faults>>
         ELSE \/ /\ docs' = [docs EXCEPT ![e.id] = Written(k, e.id, e)]
                 /\ mapping' = [exists |-> TRUE, dim |-> mapping.dim]
                 /\ \/ Sent(k, 1, 0) /\ UNCHANGED faults
                    \/ faults < MaxFaults /\ faults' = faults + 1 /\ Sent(k, 1, 1)
                 /\ UNCHANGED <<bindings, task, versions>>
              \/ /\ faults < MaxFaults
                 /\ faults' = faults + 1
                 /\ Sent(k, 1, 1)
                 /\ UNCHANGED store

(* One chunk of _bulk_upsert_json_records: rows without an id are counted, *)
(* the others inserted in one transaction, which fails as a whole; of two  *)
(* rows with one id the last stays.                                        *)
SendChunk(k) ==
  /\ backend = "postgres"
  /\ At(k, "upsert", "bulk")
  /\ call[k].todo # <<>>
  /\ LET todo == call[k].todo
         n    == IF Chunk < Len(todo) THEN Chunk ELSE Len(todo)
         rows == {m \in 1..n : todo[m].id # None}
         ids  == {todo[m].id : m \in rows}
         Commit == \E last \in [ids -> rows] :
           /\ \A m \in rows : todo[last[todo[m].id]].id = todo[m].id /\ m <= last[todo[m].id]
           /\ docs' = [d \in Ids |-> IF d \in ids THEN Written(k, d, todo[last[d]])
                                      ELSE docs[d]]
     IN  \/ Commit /\ Sent(k, n, Cardinality((1..n) \ rows)) /\ UNCHANGED faults
         \/ /\ rows # {} /\ faults < MaxFaults
            /\ faults' = faults + 1
            /\ Commit \/ UNCHANGED docs
            /\ Sent(k, n, n)
  /\ UNCHANGED <<bindings, task, versions, mapping>>

Bulked(k) ==
  /\ At(k, "upsert", "bulk")
  /\ call[k].todo = <<>>
  /\ Becomes(k, [call[k] EXCEPT !.pc = "ended", !.answer = "counted"])
  /\ UNCHANGED <<store, faults>>

-----------------------------------------------------------------------------
SetTask(new) ==
  /\ task' = new
  /\ versions' = versions \cup {new}

TaskCreate(k) ==
  /\ At(k, "task.create", "write")
  /\ IF task = DS!NoTask
     THEN SetTask([status |-> "pending", note |-> None]) /\ Return(k, "created")
     ELSE Return(k, "conflict") /\ UNCHANGED <<task, versions>>
  /\ UNCHANGED <<bindings, docs, mapping>>

(* Mutant of Expected: the expected statuses are not looked at.            *)
ExpectedIgnored(k) == TRUE

(* update_async_task, first half: get_async_task, the expected statuses.   *)
Expected(k) == LET e == call[k].req.update.expected IN e = {} \/ task.status \in e

TaskRead(k) ==
  /\ At(k, "task.update", "read")
  /\ IF task # DS!NoTask /\ Expected(k)
     THEN Becomes(k, [call[k] EXCEPT !.pc = "store", !.copy = task])
     ELSE Becomes(k, [call[k] EXCEPT !.pc = "ended", !.answer = "false"])
  /\ UNCHANGED <<store, faults>>

(* Mutant of Base: every backend writes what it read.                      *)
BaseRead(k) == IF call[k].copy = DS!NoTask THEN task ELSE call[k].copy

(* Second half: the scripted update sets the fields of the patch in the    *)
(* task as it is, unless another update comes between its read and its     *)
(* write in the engine; PostgreSQL writes the copy with the patch applied. *)
Base(k) == IF backend = "postgres" THEN call[k].copy ELSE task

TaskStore(k) ==
  /\ At(k, "task.update", "store")
  /\ \/ /\ task = DS!NoTask \/ backend = "elastic"
        /\ Return(k, "false") /\ UNCHANGED <<task, versions>>
     \/ /\ task # DS!NoTask
        /\ SetTask(IF call[k].req.update.sets = "status"
                   THEN [status |-> "running", note |-> Base(k).note]
                   ELSE [status |-> Base(k).status, note |-> k])
        /\ Return(k, "true")
  /\ UNCHANGED <<bindings, docs, mapping>>

-----------------------------------------------------------------------------
Step(k) ==
  \/ \E r \in Requests : Ask(k, r)
  \/ Raise(k)
  \/ Bind(k) \/ Unbind(k) \/ Rebind(k)
  \/ IndexExists(k) \/ IndexCreate(k) \/ MappingGet(k) \/ MappingPut(k)
  \/ ApplyDoc(k) \/ SendChunk(k) \/ Bulked(k)
  \/ TaskCreate(k) \/ TaskRead(k) \/ TaskStore(k)

Next == \E k \in Calls : Step(k)

Spec == Init /\ [][Next]_vars

-----------------------------------------------------------------------------
Did(k, op, a) == call[k].pc = "ended" /\ call[k].req.op = op /\ call[k].answer = a

(* A kb_index is bound once: no two callers are told that they created its *)
(* binding, not even after it was deactivated, and PostgreSQL tells only   *)
(* one of them that it deactivated it.                                     *)
AnsweredOnce ==
  \A k, l \in Calls :
    /\ k # l /\ (\/ Did(k, "bind", "created") /\ Did(l, "bind", "created")
                 \/ /\ backend = "postgres"
                    /\ Did(k, "unbind", "updated") /\ Did(l, "unbind", "updated"))
    => call[k].req.index # call[l].req.index

(* PostgreSQL keeps one active binding per tag, so a lookup by tag has one *)
(* answer.                                                                 *)
OneActivePerTag ==
  backend = "postgres" =>
    \A i, j \in Indexes :
      bindings[i].state = "active" /\ bindings[j].state = "active" => i = j

(* A vector in a search engine lies in a vector field of its dimension,    *)
(* whichever import created the index and in whatever order the mappings   *)
(* were read and written: otherwise no kNN query finds it.                 *)
VectorsFit ==
  backend = "elastic" =>
    \A d \in Ids : docs[d].vector # None => docs[d].vector.dim = mapping.dim

(* A bulk write that reports no failure has replaced what was there: each  *)
(* of its documents has its text, or that of a call that had not ended     *)
(* when it was made.                                                       *)
CountedIsWritten ==
  \A k \in Calls :
    Did(k, "upsert", "counted") /\ call[k].bad = 0 =>
      \A n \in DOMAIN call[k].req.docs :
        LET d == call[k].req.docs[n].id
        IN  d \in Ids /\ docs[d].text \in Calls \ before[k]

(* Of two claims of a task (pending to running) that are both answered     *)
(* True, neither was made after the other had ended; on PostgreSQL a late  *)
(* patch of another caller may put the task back to pending.               *)
ClaimsOverlap ==
  backend = "elastic" =>
    \A k, l \in Calls :
      /\ Did(k, "task.update", "true") /\ Did(l, "task.update", "true")
      /\ call[k].req.update.sets = "status" /\ call[l].req.update.sets = "status"
      => l \notin before[k]

(* Every step of a writer is a step of the store it promises, or none.     *)
Promised == DS!Spec
=============================================================================
