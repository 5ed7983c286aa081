----------------------------- MODULE ModelCache -----------------------------
(***************************************************************************)
(* The embedding and rerank models of the server and of the worker nodes:  *)
(* VectorTool, RerankTool and VectorModelPreloader.                        *)
(*                                                                         *)
(* A model is on disk (the hub cache all processes share) as a set of      *)
(* files, and in the memory of a process once loaded.  Two locks guard it: *)
(* a file lock per model across processes, for the time of ensure_model_   *)
(* ready, and a lock per tool class and process, held briefly for a look   *)
(* at the class's cache and throughout the loading of a model.             *)
(*                                                                         *)
(* The hub library is external: asked for a model by name it fetches the   *)
(* files that are missing, one by one; asked for a path it opens what is   *)
(* there and raises when a file is missing.                                *)
(***************************************************************************)
EXTENDS Naturals, Sequences, FiniteSets

CONSTANTS
  Models,
  RerankModels,   \* the models RerankTool serves; VectorTool serves the others
  Processes,
  ParentOf,       \* ParentOf[p]: the process p is forked from, or p itself
  Threads,
  ProcessOf,      \* ProcessOf[t]: the process thread t runs in
  Preloads,       \* the threads that run preload_all_models
  Calls,          \* Calls[t]: the models thread t asks for, in order
  Permits,        \* of the semaphore around encode and predict
  MaxFaults,      \* how often a process dies or a load raises
  None            \* nobody holds the lock

Files == {"config", "modules", "weights", "tokenizer"}
Tools == {"vector", "rerank"}

ASSUME ConstantsOK ==
  /\ RerankModels \subseteq Models
  /\ ParentOf \in [Processes -> Processes]
  /\ \A p \in Processes : ParentOf[ParentOf[p]] = ParentOf[p]
  /\ ProcessOf \in [Threads -> Processes]
  /\ Preloads \subseteq Threads
  /\ Calls \in [Threads -> Seq(Models)]
  /\ Permits \in Nat \ {0}
  /\ MaxFaults \in Nat
  /\ None \notin Threads

VARIABLES
  installed,  \* is sentence-transformers installed?
  alive,      \* the processes that run
  disk,       \* disk[m]: the files of model m in the hub cache
  cached,     \* cached[p]: the keys of _model_cache in process p
  fileLock,   \* fileLock[m]: the thread that holds the download lock of m
  cacheLock,  \* cacheLock[p][c]: the thread of p that is loading in class c
  thread,     \* thread[t]: its step, and which of its calls it is at
  downloads,  \* downloads[m]: how many downloads of m were completed
  faults

locks == <<fileLock, cacheLock>>
vars == <<installed, alive, disk, cached, locks, thread, downloads, faults>>

ToolOf(m) == IF m \in RerankModels THEN "rerank" ELSE "vector"

(* The files of model m: a cross-encoder has no modules.json.              *)
Snapshot(m) == IF m \in RerankModels THEN Files \ {"modules"} ELSE Files

(* get_local_model_path: the metadata and a weights file are there.        *)
LocalPath(m) == (Snapshot(m) \ {"tokenizer"}) \subseteq disk[m]

Whole(m) == Snapshot(m) \subseteq disk[m]

Steps == {"idle", "fast", "flock", "recheck", "look", "local", "download",
          "opening", "fetching", "release", "raise", "encode", "encoding"}

Called(t)  == thread[t].next \in 1 .. Len(Calls[t])
Model(t)   == Calls[t][thread[t].next]
Loaded(t)  == Model(t) \in cached[ProcessOf[t]]
CacheFree(t) == cacheLock[ProcessOf[t]][ToolOf(Model(t))] = None

TypeOK ==
  /\ installed \in BOOLEAN
  /\ alive \subseteq Processes
  /\ disk \in [Models -> SUBSET Files]
  /\ cached \in [Processes -> SUBSET Models]
  /\ fileLock \in [Models -> Threads \cup {None}]
  /\ cacheLock \in [Processes -> [Tools -> Threads \cup {None}]]
  /\ thread \in [Threads -> [pc : Steps, next : Nat \ {0}]]
  /\ downloads \in [Models -> Nat]
  /\ faults \in 0 .. MaxFaults
  /\ \A t \in Threads : thread[t].pc # "idle" => Called(t) /\ ProcessOf[t] \in alive

Start == [pc |-> "idle", next |-> 1]

Init ==
  /\ installed \in BOOLEAN
  /\ alive = {}
  /\ disk = [m \in Models |-> {}]
  /\ cached = [p \in Processes |-> {}]
  /\ fileLock = [m \in Models |-> None]
  /\ cacheLock = [p \in Processes |-> [c \in Tools |-> None]]
  /\ thread = [t \in Threads |-> Start]
  /\ downloads = [m \in Models |-> 0]
  /\ faults = 0

-----------------------------------------------------------------------------
(* Steps of a thread.                                                      *)

At(t, s) == thread[t].pc = s
Goto(t, s) == thread' = [thread EXCEPT ![t].pc = s]
NextCall(t) == thread' = [thread EXCEPT ![t] = [pc |-> "idle", next |-> @.next + 1]]

(* ensure_model_ready returns: the preloader goes on to its next model, the *)
(* others use the model.                                                   *)
Ready(t) == IF t \in Preloads THEN NextCall(t) ELSE Goto(t, "encode")

(* Mutant of Ask: the process need not have started.                       *)
AskEarly(t) ==
  /\ At(t, "idle") /\ Called(t)
  /\ Goto(t, IF t \notin Preloads /\ Loaded(t) THEN "encode" ELSE "fast")
  /\ UNCHANGED <<installed, alive, disk, cached, locks, downloads, faults>>

(* A call is made: embed_chunks, embed_query and rerank look at the cache  *)
(* without the lock; the preloader calls ensure_model_ready.               *)
Ask(t) ==
  /\ At(t, "idle") /\ Called(t) /\ ProcessOf[t] \in alive
  /\ Goto(t, IF t \notin Preloads /\ Loaded(t) THEN "encode" ELSE "fast")
  /\ UNCHANGED <<installed, alive, disk, cached, locks, downloads, faults>>

(* The fast path.                                                          *)
Fast(t) ==
  /\ At(t, "fast") /\ CacheFree(t)
  /\ IF Loaded(t) THEN Ready(t) ELSE Goto(t, "flock")
  /\ UNCHANGED <<installed, alive, disk, cached, locks, downloads, faults>>

(* Mutant of Flock: a lock that other processes do not see.                *)
FlockOwnProcess(t) ==
  /\ At(t, "flock")
  /\ fileLock[Model(t)] # None => ProcessOf[fileLock[Model(t)]] # ProcessOf[t]
  /\ fileLock' = [fileLock EXCEPT ![Model(t)] = t]
  /\ Goto(t, "recheck")
  /\ UNCHANGED <<installed, alive, disk, cached, cacheLock, downloads, faults>>

(* fcntl.flock(LOCK_EX).                                                   *)
Flock(t) ==
  /\ At(t, "flock") /\ fileLock[Model(t)] = None
  /\ fileLock' = [fileLock EXCEPT ![Model(t)] = t]
  /\ Goto(t, "recheck")
  /\ UNCHANGED <<installed, alive, disk, cached, cacheLock, downloads, faults>>

Recheck(t) ==
  /\ At(t, "recheck") /\ CacheFree(t)
  /\ Goto(t, IF Loaded(t) THEN "release" ELSE "look")
  /\ UNCHANGED <<installed, alive, disk, cached, locks, downloads, faults>>

Look(t) ==
  /\ At(t, "look")
  /\ Goto(t, IF LocalPath(Model(t)) THEN "local" ELSE "download")
  /\ UNCHANGED <<installed, alive, disk, cached, locks, downloads, faults>>

CachePut(t) == cached' = [cached EXCEPT ![ProcessOf[t]] = @ \cup {Model(t)}]
Lock(t, u) == cacheLock' = [cacheLock EXCEPT ![ProcessOf[t]][ToolOf(Model(t))] = u]

(* _load_model without the library: None is cached.                        *)
LoadFallback(t) ==
  /\ At(t, "local") \/ At(t, "download")
  /\ ~installed /\ CacheFree(t)
  /\ CachePut(t)
  /\ Goto(t, "release")
  /\ UNCHANGED <<installed, alive, disk, locks, downloads, faults>>

(* _load_model takes the class's lock, and keeps it while it loads.        *)
Load(t) ==
  /\ At(t, "local") \/ At(t, "download")
  /\ installed /\ CacheFree(t)
  /\ IF Loaded(t)
     THEN Goto(t, "release") /\ UNCHANGED cacheLock
     ELSE Lock(t, t) /\ Goto(t, IF At(t, "local") THEN "opening" ELSE "fetching")
  /\ UNCHANGED <<installed, alive, disk, cached, fileLock, downloads, faults>>

(* local_files_only: everything is there, or the constructor raises.       *)
Open(t) ==
  /\ At(t, "opening")
  /\ IF Whole(Model(t)) THEN CachePut(t) /\ Goto(t, "release")
                        ELSE UNCHANGED cached /\ Goto(t, "raise")
  /\ Lock(t, None)
  /\ UNCHANGED <<installed, alive, disk, fileLock, downloads, faults>>

Fetch(t) ==
  /\ At(t, "fetching")
  /\ \E f \in Snapshot(Model(t)) \ disk[Model(t)] :
       disk' = [disk EXCEPT ![Model(t)] = @ \cup {f}]
  /\ UNCHANGED <<installed, alive, cached, locks, thread, downloads, faults>>

FetchEnds(t) ==
  /\ At(t, "fetching") /\ Whole(Model(t))
  /\ CachePut(t)
  /\ downloads' = [downloads EXCEPT ![Model(t)] = @ + 1]
  /\ Lock(t, None) /\ Goto(t, "release")
  /\ UNCHANGED <<installed, alive, disk, fileLock, faults>>

(* Mutant of LoadRaises: the exception is not raised again.                *)
LoadRaisesNothing(t) ==
  /\ At(t, "opening") \/ At(t, "fetching")
  /\ faults < MaxFaults /\ faults' = faults + 1
  /\ Lock(t, None) /\ Goto(t, "release")
  /\ UNCHANGED <<installed, alive, disk, cached, fileLock, downloads>>

(* The constructor raises: no network, no memory, a damaged file.          *)
LoadRaises(t) ==
  /\ At(t, "opening") \/ At(t, "fetching")
  /\ faults < MaxFaults /\ faults' = faults + 1
  /\ Lock(t, None) /\ Goto(t, "raise")
  /\ UNCHANGED <<installed, alive, disk, cached, fileLock, downloads>>

(* Mutant of Release: no finally.                                          *)
ReleaseIfReady(t) ==
  /\ At(t, "release") \/ At(t, "raise")
  /\ fileLock' = IF At(t, "release") THEN [fileLock EXCEPT ![Model(t)] = None] ELSE fileLock
  /\ IF At(t, "release") THEN Ready(t) ELSE NextCall(t)
  /\ UNCHANGED <<installed, alive, disk, cached, cacheLock, downloads, faults>>

(* The finally clause; the preloader notes a failure and goes on, another  *)
(* caller gets the exception.                                              *)
Release(t) ==
  /\ At(t, "release") \/ At(t, "raise")
  /\ fileLock' = [fileLock EXCEPT ![Model(t)] = None]
  /\ IF At(t, "release") THEN Ready(t) ELSE NextCall(t)
  /\ UNCHANGED <<installed, alive, disk, cached, cacheLock, downloads, faults>>

(* ensure_model_ready of either class, from its fast path to the end.      *)
Ensure(t) ==
  \/ Fast(t) \/ Flock(t) \/ Recheck(t) \/ Look(t) \/ LoadFallback(t) \/ Load(t)
  \/ Open(t) \/ Fetch(t) \/ FetchEnds(t) \/ LoadRaises(t) \/ Release(t)

EnsureVector(t) == ~At(t, "idle") /\ ToolOf(Model(t)) = "vector" /\ Ensure(t)
EnsureRerank(t) == ~At(t, "idle") /\ ToolOf(Model(t)) = "rerank" /\ Ensure(t)

(* _encode or predict: a permit of the process and the class is taken.     *)
Encoding(p, c) ==
  {u \in Threads : ProcessOf[u] = p /\ At(u, "encoding") /\ ToolOf(Model(u)) = c}

(* Without the library the answer is zeros and takes no permit.            *)
Encode(t) ==
  /\ At(t, "encode")
  /\ IF installed
     THEN /\ Cardinality(Encoding(ProcessOf[t], ToolOf(Model(t)))) < Permits
          /\ Goto(t, "encoding")
     ELSE NextCall(t)
  /\ UNCHANGED <<installed, alive, disk, cached, locks, downloads, faults>>

(* The vector or the scores, or zeros if the model raised.                 *)
EncodeEnds(t) ==
  /\ At(t, "encoding")
  /\ NextCall(t)
  /\ UNCHANGED <<installed, alive, disk, cached, locks, downloads, faults>>

-----------------------------------------------------------------------------
(* Processes.                                                              *)

Preloaded(p) == \A t \in Preloads : ProcessOf[t] = p => ~Called(t)

(* Mutant of Run: the pool is forked before the models are preloaded.      *)
RunAtOnce(p) ==
  /\ p \notin alive
  /\ ParentOf[p] # p => ParentOf[p] \in alive
  /\ alive' = alive \cup {p}
  /\ cached' = [cached EXCEPT ![p] = IF ParentOf[p] = p THEN {} ELSE cached[ParentOf[p]]]
  /\ UNCHANGED <<installed, disk, locks, thread, downloads, faults>>

(* A main process starts with an empty cache; the pool is forked, with the *)
(* cache as it is, once the main process of the node has preloaded.        *)
Run(p) ==
  /\ p \notin alive
  /\ ParentOf[p] # p => ParentOf[p] \in alive /\ Preloaded(ParentOf[p])
  /\ alive' = alive \cup {p}
  /\ cached' = [cached EXCEPT ![p] = IF ParentOf[p] = p THEN {} ELSE cached[ParentOf[p]]]
  /\ UNCHANGED <<installed, disk, locks, thread, downloads, faults>>

(* Process p dies, and with it those it forked: its locks are released,    *)
(* what it fetched stays.                                                  *)
Die(p) ==
  LET gone == {q \in Processes : p \in {q, ParentOf[q]}}
      Goes(t) == t # None /\ ProcessOf[t] \in gone
  IN
  /\ p \in alive
  /\ faults < MaxFaults /\ faults' = faults + 1
  /\ alive' = alive \ gone
  /\ cached' = [q \in Processes |-> IF q \in gone THEN {} ELSE cached[q]]
  /\ fileLock' = [m \in Models |-> IF Goes(fileLock[m]) THEN None ELSE fileLock[m]]
  /\ cacheLock' = [q \in Processes |->
                     IF q \in gone THEN [c \in Tools |-> None] ELSE cacheLock[q]]
  /\ thread' = [t \in Threads |-> IF Goes(t) THEN Start ELSE thread[t]]
  /\ UNCHANGED <<installed, disk, downloads>>

ThreadStep(t) ==
  Ask(t) \/ EnsureVector(t) \/ EnsureRerank(t) \/ Encode(t) \/ EncodeEnds(t)

Next ==
  \/ \E t \in Threads : ThreadStep(t)
  \/ \E p \in Processes : Run(p) \/ Die(p)

Spec == Init /\ [][Next]_vars

(* Threads go on; a load ends, because the hub client times out.           *)
FairSpec == Spec /\ \A t \in Threads : WF_vars(ThreadStep(t))

-----------------------------------------------------------------------------
(* At any moment at most one thread of all processes fetches files of a    *)
(* model, and no model is downloaded a second time once a download was     *)
(* completed, whoever crashes or fails in between (vector_tool.py:65-69).  *)
DownloadedOnce ==
  \A m \in Models :
    /\ downloads[m] <= 1
    /\ \A t, u \in Threads :
         /\ At(t, "fetching") /\ Model(t) = m
         /\ At(u, "fetching") /\ Model(u) = m
         => t = u

(* A call that comes back without an exception finds the model in the      *)
(* cache of its process: an embedding or a score is never computed with    *)
(* the None that _model_cache.get returns for a model that failed to load, *)
(* which would be zeros that look like an answer (vector_tool.py:195-198). *)
Served ==
  \A t \in Threads : thread[t].pc \in {"encode", "encoding"} => Loaded(t)

(* A pool process forked after a preload that did not fail never loads a   *)
(* preloaded model itself (worker.py:33-35).                               *)
ForkedWarm ==
  \A t \in Threads, u \in Preloads :
    /\ faults = 0 /\ t \notin Preloads
    /\ ParentOf[ProcessOf[t]] = ProcessOf[u] /\ ProcessOf[t] # ProcessOf[u]
    /\ thread[t].pc # "idle"
    /\ \E k \in 1 .. Len(Calls[u]) : Calls[u][k] = Model(t)
    => thread[t].pc \in {"encode", "encoding"}

(* Every call is answered, with the model or an exception: nobody waits    *)
(* for ever for the lock of a model or of a class.                         *)
Answered ==
  \A t \in Threads : thread[t].pc # "idle" ~> thread[t].pc = "idle"
=============================================================================
