--------------------------- MODULE DocumentStore ---------------------------
(***************************************************************************)
(* What IDatabaseWriter promises its callers, whatever the backend: the    *)
(* bindings, the content documents and the task record change only by one  *)
(* of these steps.  merges tells the two families apart: a search engine   *)
(* merges what is written into the stored document, PostgreSQL replaces    *)
(* it, and in a task it replaces it with a patched earlier version.        *)
(***************************************************************************)
EXTENDS Naturals, FiniteSets

CONSTANTS
  Indexes,   \* kb_indexes of one domain
  Ids,       \* document ids
  Calls,     \* calls of the writer; a written value names the call
  Vectors,   \* content vectors
  None

VARIABLES
  merges,    \* is a write merged into what is stored?
  bindings,  \* bindings[i]: state and settings of the binding of index i
  docs,      \* docs[d]: text and vector of document d
  task,      \* the record of one asynchronous task
  versions   \* every value that record has had

vars == <<merges, bindings, docs, task, versions>>

Binding == [state : {"none", "active", "inactive"}, by : Calls \cup {None}]
Doc     == [text : Calls \cup {None}, vector : Vectors \cup {None}]
Task    == [status : {"pending", "running", "none"}, note : Calls \cup {None}]

NoBinding == [state |-> "none", by |-> None]
NoDoc     == [text |-> None, vector |-> None]
NoTask    == [status |-> "none", note |-> None]

Init ==
  /\ merges \in BOOLEAN
  /\ bindings = [i \in Indexes |-> NoBinding]
  /\ docs = [d \in Ids |-> NoDoc]
  /\ task = NoTask
  /\ versions = {NoTask}

-----------------------------------------------------------------------------
Store(i, s, k) ==
  /\ bindings' = [bindings EXCEPT ![i] = [state |-> s, by |-> k]]
  /\ UNCHANGED <<merges, docs, task, versions>>

(* A binding is created once, deactivated for good, patched at any time.   *)
Bind(i, k) == bindings[i].state = "none" /\ Store(i, "active", k)

Unbind(i) == bindings[i].state # "none" /\ Store(i, "inactive", bindings[i].by)

Rebind(i, k) == bindings[i].state # "none" /\ Store(i, bindings[i].state, k)

(* Call k writes documents; merged, they are written one by one.           *)
Upsert(k) ==
  /\ \E D \in SUBSET Ids : \E new \in [D -> Vectors \cup {None}] :
       /\ merges => \E d \in Ids : D \subseteq {d}
       /\ docs' = [d \in Ids |->
            IF d \notin D THEN docs[d]
            ELSE [text |-> k,
                  vector |-> IF merges /\ new[d] = None THEN docs[d].vector ELSE new[d]]]
  /\ UNCHANGED <<merges, bindings, task, versions>>

SetTask(new) ==
  /\ task' = new
  /\ versions' = versions \cup {new}
  /\ UNCHANGED <<merges, bindings, docs>>

CreateTask == task = NoTask /\ SetTask([status |-> "pending", note |-> None])

(* A patch of an earlier version; of the present one if writes are merged. *)
PatchTask(k) ==
  /\ task # NoTask
  /\ \E old \in versions \ {NoTask} :
       /\ merges => old = task
       /\ \/ SetTask([status |-> "running", note |-> old.note])
          \/ SetTask([status |-> old.status, note |-> k])

Next == \/ \E k \in Calls : \/ \E i \in Indexes : Bind(i, k) \/ Rebind(i, k)
                            \/ Upsert(k)
                            \/ PatchTask(k)
        \/ \E i \in Indexes : Unbind(i)
        \/ CreateTask

Spec == Init /\ [][Next]_vars
=============================================================================
