---------------------------- MODULE ImportStore ----------------------------
(***************************************************************************)
(* What imports into one kb_index do to the shared stores:                 *)
(* StoreMemory.store and StoreSkill.store in the pool processes, the       *)
(* binding of the kb_index, its content index and the stored files, with   *)
(* the OpenSearch writer (the default backend).  Each call of the writer   *)
(* or of the file gateway is one step, except that a bulk request applies  *)
(* its documents one by one.                                               *)
(*                                                                         *)
(* The two domains differ in what they do with an existing binding, and    *)
(* in that the binding of a memory import keeps its other settings.  A     *)
(* parser script and the search profile it returns stand as one profile.   *)
(***************************************************************************)
EXTENDS Naturals, FiniteSets

CONSTANTS
  Imports,      \* executions of import tasks of this domain and kb_index
  Models,       \* vector models
  Profiles,     \* parser script together with search profile
  Docs,         \* document ids (memory_id; hash of package and skill name)
  ModelOf,      \* the vector_model of the request, or None
  ProfileOf,    \* what the parser of the import declares
  DocsOf,       \* the documents its parser yields
  DimOf,        \* DimOf[m]: the dimension of the vectors of model m
  Concurrency,  \* pool processes
  MaxFaults,    \* how often a call may fail or a node crash
  None

ASSUME ConstantsOK ==
  /\ None \notin Models \cup Imports \cup Profiles
  /\ ModelOf \in [Imports -> Models \cup {None}]
  /\ ProfileOf \in [Imports -> Profiles]
  /\ DocsOf \in [Imports -> SUBSET Docs]
  /\ None \notin {DimOf[m] : m \in Models}
  /\ Concurrency \in Nat /\ MaxFaults \in Nat

VARIABLES
  domain,   \* "MEMORY" or "SKILL"
  binding,  \* the binding document
  index,    \* the content index: does it exist, dimension of content_vector
  docs,     \* its documents
  files,    \* imports whose files the gateway holds
  exec,     \* exec[i]: the execution of import i
  faults    \* faults so far

vars == <<domain, binding, index, docs, files, exec, faults>>

Dims     == {DimOf[m] : m \in Models} \cup {None}
Settings == [model : Models \cup {None}, profile : Profiles]
NoBinding == [model |-> None, profile |-> None]

(* A document field is None as long as no import wrote it.  Of a vector    *)
(* the model is kept it was made with and has the dimension of; the zero   *)
(* vector that takes the place of one after a failing encode has it too.   *)
Doc     == [text : Imports \cup {None}, file : Imports \cup {None},
            vector : Models \cup {None}]
NoDoc   == [text |-> None, file |-> None, vector |-> None]

Working == {"files", "binding.get", "binding.create", "binding.update", "embed",
            "index.exists", "index.create", "mapping.get", "mapping.put", "bulk"}
Ended   == {"done", "failed", "conflict"}

(* seen: the binding that was read; saved: files to refer to; todo: the    *)
(* documents not yet sent; rejected: fail_count > 0.                       *)
Execution == [pc : {"new"} \cup Working \cup Ended, seen : Settings \cup {NoBinding},
              saved : Imports \cup {None}, todo : SUBSET Docs, rejected : BOOLEAN]

Fresh(i) == [pc |-> "new", seen |-> NoBinding, saved |-> None,
             todo |-> DocsOf[i], rejected |-> FALSE]

TypeOK ==
  /\ domain \in {"MEMORY", "SKILL"}
  /\ binding \in Settings \cup {NoBinding}
  /\ index \in [exists : BOOLEAN, dim : Dims]
  /\ docs \in [Docs -> Doc]
  /\ files \subseteq Imports
  /\ exec \in [Imports -> Execution]
  /\ faults \in 0..MaxFaults

Init ==
  /\ domain \in {"MEMORY", "SKILL"}
  /\ binding = NoBinding
  /\ index = [exists |-> FALSE, dim |-> None]
  /\ docs = [d \in Docs |-> NoDoc]
  /\ files = {}
  /\ exec = [i \in Imports |-> Fresh(i)]
  /\ faults = 0

-----------------------------------------------------------------------------
Active == {i \in Imports : exec[i].pc \in Working}

At(i, s) == exec[i].pc = s

Becomes(i, e) == exec' = [exec EXCEPT ![i] = e]

Goto(i, s) == Becomes(i, [exec[i] EXCEPT !.pc = s])

(* A pool process is free and takes the import up.                         *)
Begin(i) ==
  /\ At(i, "new")
  /\ Cardinality(Active) < Concurrency
  /\ Goto(i, "files")
  /\ UNCHANGED <<domain, binding, index, docs, files, faults>>

(* _save_files_by_plan and _hydrate_chunks_with_storage_paths; a planned   *)
(* file that is no longer there is skipped.                                *)
SaveFiles(i) ==
  /\ At(i, "files")
  /\ \/ /\ files' = files \cup {i}
        /\ Becomes(i, [exec[i] EXCEPT !.pc = "binding.get", !.saved = i])
     \/ /\ Goto(i, "binding.get")
        /\ UNCHANGED files
  /\ UNCHANGED <<domain, binding, index, docs, faults>>

(* The fields _get_or_create_binding writes to an existing binding: memory *)
(* only fills in a missing model, skill patches whatever differs from the  *)
(* binding it read.                                                        *)
SetsModel(i, seen) ==
  IF domain = "MEMORY" THEN seen.model = None /\ ModelOf[i] # None
                       ELSE seen.model # ModelOf[i]

SetsProfile(i, seen) == domain = "SKILL" /\ seen.profile # ProfileOf[i]

(* Mutant of GetBinding: a missing binding is left for a later import.     *)
GetBindingOnly(i) ==
  /\ At(i, "binding.get")
  /\ Becomes(i, [exec[i] EXCEPT !.pc = "embed", !.seen = binding])
  /\ UNCHANGED <<domain, binding, index, docs, files, faults>>

(* get_binding_by_domain_index, and the decision on what it returned.      *)
GetBinding(i) ==
  /\ At(i, "binding.get")
  /\ LET next == IF binding = NoBinding THEN "binding.create"
                 ELSE IF SetsModel(i, binding) \/ SetsProfile(i, binding)
                      THEN "binding.update" ELSE "embed"
     IN  Becomes(i, [exec[i] EXCEPT !.pc = next, !.seen = binding])
  /\ UNCHANGED <<domain, binding, index, docs, files, faults>>

Bind(i) == binding' = [model |-> ModelOf[i], profile |-> ProfileOf[i]]

(* Mutants of CreateBinding: an index request without op_type=create; the  *)
(* conflict taken for a binding to go on with.                             *)
CreateOverwrites(i) ==
  /\ At(i, "binding.create")
  /\ Bind(i)
  /\ Goto(i, "embed")
  /\ UNCHANGED <<domain, index, docs, files, faults>>

CreateIgnoresConflict(i) ==
  /\ At(i, "binding.create")
  /\ IF binding = NoBinding THEN Bind(i) ELSE UNCHANGED binding
  /\ Goto(i, "embed")
  /\ UNCHANGED <<domain, index, docs, files, faults>>

(* create_index_binding: op_type=create fails when the document exists.    *)
CreateBinding(i) ==
  /\ At(i, "binding.create")
  /\ \/ binding = NoBinding  /\ Bind(i) /\ Goto(i, "embed")
     \/ binding # NoBinding /\ Goto(i, "conflict") /\ UNCHANGED binding
  /\ UNCHANGED <<domain, index, docs, files, faults>>

(* Mutant of Patch: the fields that are not patched are lost.              *)
PatchReplaces(i) ==
  binding' = [model   |-> IF SetsModel(i, exec[i].seen) THEN ModelOf[i] ELSE None,
              profile |-> IF SetsProfile(i, exec[i].seen) THEN ProfileOf[i] ELSE None]

(* The scripted update of the fields chosen at GetBinding, applied to the  *)
(* binding as it is now.                                                   *)
Patch(i) ==
  LET seen == exec[i].seen IN
  binding' = [model   |-> IF SetsModel(i, seen) THEN ModelOf[i] ELSE binding.model,
              profile |-> IF SetsProfile(i, seen) THEN ProfileOf[i] ELSE binding.profile]

(* upgrade_binding_vector_model, update_binding.                           *)
UpdateBinding(i) ==
  /\ At(i, "binding.update")
  /\ Patch(i)
  /\ Goto(i, "embed")
  /\ UNCHANGED <<domain, index, docs, files, faults>>

(* _vectorize_if_needed: only with a model in the request, and only then   *)
(* is there a vector mapping to prepare.                                   *)
Embed(i) ==
  /\ At(i, "embed")
  /\ Goto(i, IF ModelOf[i] = None \/ DocsOf[i] = {} THEN "bulk" ELSE "index.exists")
  /\ UNCHANGED <<domain, binding, index, docs, files, faults>>

-----------------------------------------------------------------------------
(* _ensure_vector_index_mapping: exists, then create; or get_mapping, then *)
(* put_mapping.  A create of an index that came to exist and a mapping of  *)
(* another dimension are refused by the backend and fail the import.       *)
Dim(i) == DimOf[ModelOf[i]]

IndexExists(i) ==
  /\ At(i, "index.exists")
  /\ Goto(i, IF index.exists THEN "mapping.get" ELSE "index.create")
  /\ UNCHANGED <<domain, binding, index, docs, files, faults>>

CreateIndex(i) ==
  /\ At(i, "index.create")
  /\ \/ /\ ~index.exists
        /\ index' = [exists |-> TRUE, dim |-> Dim(i)]
        /\ Goto(i, "bulk")
     \/ index.exists /\ Goto(i, "failed") /\ UNCHANGED index
  /\ UNCHANGED <<domain, binding, docs, files, faults>>

GetMapping(i) ==
  /\ At(i, "mapping.get")
  /\ Goto(i, IF index.dim = None THEN "mapping.put" ELSE "bulk")
  /\ UNCHANGED <<domain, binding, index, docs, files, faults>>

PutMapping(i) ==
  /\ At(i, "mapping.put")
  /\ \/ /\ index.dim \in {None, Dim(i)}
        /\ index' = [index EXCEPT !.dim = Dim(i)]
        /\ Goto(i, "bulk")
     \/ index.dim \notin {None, Dim(i)} /\ Goto(i, "failed") /\ UNCHANGED index
  /\ UNCHANGED <<domain, binding, docs, files, faults>>

-----------------------------------------------------------------------------
(* Mutant of Merged: paths are hydrated before the files are stored.       *)
MergedUnsaved(i, d) ==
  [text   |-> i,
   file   |-> i,
   vector |-> IF ModelOf[i] = None THEN docs[d].vector ELSE ModelOf[i]]

(* update with doc_as_upsert: the fields of the new document are merged    *)
(* over those of the old one; without a model it has no vector to write,   *)
(* without stored files no path.                                           *)
Merged(i, d) ==
  [text   |-> i,
   file   |-> IF exec[i].saved = None THEN docs[d].file ELSE exec[i].saved,
   vector |-> IF ModelOf[i] = None THEN docs[d].vector ELSE ModelOf[i]]

(* One document of the bulk requests.  The backend creates a missing index *)
(* and refuses a vector of another dimension than the mapping's; _bulk     *)
(* counts the refusal and goes on.                                         *)
Upsert(i, d) ==
  /\ At(i, "bulk")
  /\ d \in exec[i].todo
  /\ ModelOf[i] # None => index.dim = Dim(i)
  /\ docs' = [docs EXCEPT ![d] = Merged(i, d)]
  /\ index' = [index EXCEPT !.exists = TRUE]
  /\ Becomes(i, [exec[i] EXCEPT !.todo = @ \ {d}])
  /\ UNCHANGED <<domain, binding, files, faults>>

Refuse(i, d) ==
  /\ At(i, "bulk")
  /\ d \in exec[i].todo
  /\ ModelOf[i] # None /\ index.dim # Dim(i)
  /\ Becomes(i, [exec[i] EXCEPT !.todo = @ \ {d}, !.rejected = TRUE])
  /\ UNCHANGED <<domain, binding, index, docs, files, faults>>

(* store returns, whatever the number of documents that were refused.      *)
Return(i) ==
  /\ At(i, "bulk")
  /\ exec[i].todo = {}
  /\ Goto(i, "done")
  /\ UNCHANGED <<domain, binding, index, docs, files, faults>>

(* A call raises, the soft time limit passes or the node crashes: the      *)
(* effect of the pending call is there or not.  The import has failed, or  *)
(* its message is delivered again and it starts over.                      *)
Interrupt(i) ==
  /\ i \in Active
  /\ faults < MaxFaults
  /\ faults' = faults + 1
  /\ \/ Goto(i, "failed")
     \/ Becomes(i, Fresh(i))
  /\ \/ UNCHANGED <<binding, index, files>>
     \/ /\ At(i, "files") /\ files' = files \cup {i}
        /\ UNCHANGED <<binding, index>>
     \/ /\ \/ At(i, "binding.create") /\ binding = NoBinding /\ Bind(i)
           \/ At(i, "binding.update") /\ Patch(i)
        /\ UNCHANGED <<index, files>>
     \/ /\ \/ At(i, "index.create") /\ ~index.exists
           \/ At(i, "mapping.put") /\ index.dim = None
        /\ index' = [exists |-> TRUE, dim |-> Dim(i)]
        /\ UNCHANGED <<binding, files>>
  /\ UNCHANGED <<domain, docs>>

-----------------------------------------------------------------------------
Import(i) ==
  \/ Begin(i) \/ SaveFiles(i)
  \/ GetBinding(i) \/ CreateBinding(i) \/ UpdateBinding(i) \/ Embed(i)
  \/ IndexExists(i) \/ CreateIndex(i) \/ GetMapping(i) \/ PutMapping(i)
  \/ (\E d \in Docs : Upsert(i, d) \/ Refuse(i, d))
  \/ Return(i)

Next == \E i \in Imports : Import(i) \/ Interrupt(i)

Spec == Init /\ [][Next]_vars

-----------------------------------------------------------------------------
(* The binding comes first: whatever races, fails or starts over, there is *)
(* no content index and no document of a kb_index without a binding, which *)
(* is what search goes by (store_memory.py:196-219, store_skill.py:180).   *)
BoundBeforeIndexed ==
  index.exists \/ (\E d \in Docs : docs[d] # NoDoc) => binding # NoBinding

(* A path in a document leads to a stored file, also after a retry that    *)
(* found the files gone and merged over an older document                  *)
(* (store_memory.py:189-193).                                              *)
FilesBehindDocs == \A d \in Docs : docs[d].file \in files \cup {None}

(* Memory: the parser and the profile a kb_index was first bound to stay,  *)
(* through racing first imports and retries (op_type=create,               *)
(* opensearch/writer.py:147-159).                                          *)
ProfileKept ==
  [][domain = "MEMORY" /\ binding # NoBinding
     => binding'.profile = binding.profile]_vars

Bound == {"embed", "index.exists", "index.create", "mapping.get", "mapping.put",
          "bulk", "done"}

(* Memory: an import that found no binding goes on to write documents only *)
(* under its own parser and profile, so of the racing first imports with   *)
(* different ones a single one writes (store_memory.py:410).               *)
CreatorBinds ==
  domain = "MEMORY" =>
    \A i \in Imports : exec[i].pc \in Bound /\ exec[i].seen = NoBinding
                       => binding.profile = ProfileOf[i]

(* Memory: once documents have vectors the binding names a model, so that  *)
(* vector searches are served at all: first imports with and without a     *)
(* model that race for the binding, updates that fail half way and imports *)
(* that start over leave no vectors behind a binding without one           *)
(* (store_memory.py:368-384; search embeds with the model of the binding,   *)
(* memory_search_service.py:222).                                          *)
VectorsBound ==
  domain = "MEMORY" /\ (\E d \in Docs : docs[d].vector # None) => binding.model # None

(* "One kb_index is bound to ... one vector model" and "once specified it  *)
(* is bound to the index and must not be changed later"                    *)
(* (02_API, section 3): the vectors of a memory index are of the bound     *)
(* model, by which queries are embedded.                                   *)
OneVectorModel ==
  domain = "MEMORY" =>
    \A d \in Docs : docs[d].vector \in {None, binding.model}
=============================================================================
