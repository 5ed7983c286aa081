-------------------------- MODULE ModelCacheProofs --------------------------
(***************************************************************************)
(* Theorems about ModelCache, for any models, processes, threads and calls *)
(* and any number of faults.                                               *)
(***************************************************************************)
EXTENDS ModelCache, TLAPS

USE ConstantsOK DEF ConstantsOK

(* A thread in a call is in a running process and asks for a model.        *)
LEMMA InCall ==
  ASSUME TypeOK, NEW t \in Threads, thread[t].pc # "idle"
  PROVE  /\ Model(t) \in Models /\ ToolOf(Model(t)) \in Tools
         /\ ProcessOf[t] \in Processes /\ ProcessOf[t] \in alive
<1>1. Calls[t] \in Seq(Models) /\ thread[t].next \in 1 .. Len(Calls[t]) /\ ProcessOf[t] \in alive
  BY DEF TypeOK, Called
<1> QED BY <1>1 DEF Model, ToolOf, Tools

LEMMA GotoType ==
  ASSUME TypeOK, NEW t \in Threads, thread[t].pc # "idle", NEW s \in Steps, Goto(t, s),
         UNCHANGED alive
  PROVE  /\ thread' \in [Threads -> [pc : Steps, next : Nat \ {0}]]
         /\ \A u \in Threads : thread'[u].pc # "idle" => Called(u)' /\ ProcessOf[u] \in alive'
BY DEF TypeOK, Goto, Called

LEMMA NextCallType ==
  ASSUME TypeOK, NEW t \in Threads, NextCall(t), UNCHANGED alive
  PROVE  /\ thread' \in [Threads -> [pc : Steps, next : Nat \ {0}]]
         /\ \A u \in Threads : thread'[u].pc # "idle" => Called(u)' /\ ProcessOf[u] \in alive'
BY DEF TypeOK, NextCall, Called, Steps

LEMMA LockType ==
  ASSUME TypeOK, NEW t \in Threads, thread[t].pc # "idle", NEW u \in Threads \cup {None},
         Lock(t, u)
  PROVE  cacheLock' \in [Processes -> [Tools -> Threads \cup {None}]]
BY InCall DEF TypeOK, Lock

LEMMA PutType ==
  ASSUME TypeOK, NEW t \in Threads, thread[t].pc # "idle", CachePut(t)
  PROVE  cached' \in [Processes -> SUBSET Models]
BY InCall DEF TypeOK, CachePut

LEMMA TypeInit == Init => TypeOK
BY DEF Init, TypeOK, Start, Steps, Tools, Files

LEMMA TypeEnsure ==
  ASSUME TypeOK, NEW t \in Threads, thread[t].pc # "idle", Ensure(t) PROVE TypeOK'
<1> USE InCall DEF locks, At
<1>1. CASE Fast(t)
  BY <1>1, GotoType, NextCallType DEF TypeOK, Fast, Ready, Steps
<1>2. CASE Flock(t)
  BY <1>2, GotoType DEF TypeOK, Flock, Steps
<1>3. CASE Recheck(t)
  BY <1>3, GotoType DEF TypeOK, Recheck, Steps
<1>4. CASE Look(t)
  BY <1>4, GotoType DEF TypeOK, Look, Steps
<1>5. CASE LoadFallback(t)
  BY <1>5, GotoType DEF TypeOK, LoadFallback, CachePut, Steps
<1>6. CASE Load(t)
  <2>1. thread[t].pc # "idle" /\ UNCHANGED alive
    BY <1>6 DEF Load
  <2>2. cacheLock' \in [Processes -> [Tools -> Threads \cup {None}]]
    BY <1>6, <2>1, LockType DEF Load, TypeOK
  <2>3. \E s \in Steps : Goto(t, s)
    BY <1>6 DEF Load, Steps
  <2> QED BY <1>6, <2>1, <2>2, <2>3, GotoType DEF TypeOK, Load
<1>7. CASE Open(t)
  <2>1. thread[t].pc # "idle" /\ UNCHANGED alive
    BY <1>7 DEF Open
  <2>2. cacheLock' \in [Processes -> [Tools -> Threads \cup {None}]]
    BY <1>7, <2>1, LockType DEF Open
  <2>3. \E s \in Steps : Goto(t, s)
    BY <1>7 DEF Open, Steps
  <2>4. cached' \in [Processes -> SUBSET Models]
    BY <1>7, <2>1, PutType DEF Open, TypeOK
  <2> QED BY <1>7, <2>1, <2>2, <2>3, <2>4, GotoType DEF TypeOK, Open
<1>8. CASE Fetch(t)
  BY <1>8 DEF TypeOK, Fetch, Snapshot, Called
<1>9. CASE FetchEnds(t)
  BY <1>9, GotoType, LockType DEF TypeOK, FetchEnds, CachePut, Steps
<1>10. CASE LoadRaises(t)
  BY <1>10, GotoType, LockType DEF TypeOK, LoadRaises, Steps
<1>11. CASE Release(t)
  BY <1>11, GotoType, NextCallType DEF TypeOK, Release, Ready, Steps
<1> QED
  BY <1>1, <1>2, <1>3, <1>4, <1>5, <1>6, <1>7, <1>8, <1>9, <1>10, <1>11 DEF Ensure

LEMMA TypeStep == TypeOK /\ [Next]_vars => TypeOK'
<1> SUFFICES ASSUME TypeOK, [Next]_vars PROVE TypeOK'
  OBVIOUS
<1> USE DEF locks, At
<1>1. ASSUME NEW t \in Threads, Ask(t) PROVE TypeOK'
  BY <1>1 DEF TypeOK, Ask, Goto, Called, Steps
<1>2. ASSUME NEW t \in Threads, EnsureVector(t) \/ EnsureRerank(t) PROVE TypeOK'
  BY <1>2, TypeEnsure DEF EnsureVector, EnsureRerank
<1>3. ASSUME NEW t \in Threads, Encode(t) PROVE TypeOK'
  BY <1>3, GotoType, NextCallType DEF TypeOK, Encode, Steps
<1>4. ASSUME NEW t \in Threads, EncodeEnds(t) PROVE TypeOK'
  BY <1>4, NextCallType DEF TypeOK, EncodeEnds
<1>5. ASSUME NEW p \in Processes, Run(p) PROVE TypeOK'
  BY <1>5 DEF TypeOK, Run, Called
<1>6. ASSUME NEW p \in Processes, Die(p) PROVE TypeOK'
  BY <1>6 DEF TypeOK, Die, Start, Steps, Called, Tools
<1>7. CASE UNCHANGED vars
  BY <1>7 DEF TypeOK, vars, Called
<1> QED
  BY <1>1, <1>2, <1>3, <1>4, <1>5, <1>6, <1>7 DEF Next, ThreadStep

(* Every variable keeps its type, and a thread in a call is in a process   *)
(* that runs.                                                              *)
THEOREM TypeCorrect == Spec => []TypeOK
BY TypeInit, TypeStep, PTL DEF Spec
-----------------------------------------------------------------------------
(* Between taking and releasing the download lock of its model a thread is *)
(* its holder.                                                             *)
Held == {"recheck", "look", "local", "download", "opening", "fetching", "release", "raise"}

HeldInv == \A t \in Threads : thread[t].pc \in Held => fileLock[Model(t)] = t

(* Who is about to download knows that nobody has.                         *)
OnceInv ==
  /\ \A m \in Models : downloads[m] <= 1 /\ (~Whole(m) => downloads[m] = 0)
  /\ \A t \in Threads :
       thread[t].pc \in {"download", "fetching"} => downloads[Model(t)] = 0

ServedInv ==
  \A t \in Threads : thread[t].pc \in {"release", "encode", "encoding"} => Loaded(t)

SafeInv == TypeOK /\ HeldInv /\ OnceInv /\ ServedInv

LEMMA SafeInit == Init => SafeInv
<1> SUFFICES ASSUME Init PROVE HeldInv /\ OnceInv /\ ServedInv
  BY TypeInit DEF SafeInv
<1> QED BY DEF Init, Start, HeldInv, OnceInv, ServedInv, Held

(* What a step of thread t does to the threads.                            *)
LEMMA GotoOnly ==
  ASSUME TypeOK, NEW t \in Threads, NEW s \in Steps, Goto(t, s)
  PROVE  /\ thread'[t].pc = s
         /\ \A u \in Threads : Model(u)' = Model(u)
         /\ \A u \in Threads \ {t} : thread'[u].pc = thread[u].pc
BY DEF TypeOK, Goto, Model

LEMMA NextCallOnly ==
  ASSUME TypeOK, NEW t \in Threads, NextCall(t)
  PROVE  /\ thread'[t].pc = "idle"
         /\ \A u \in Threads \ {t} : Model(u)' = Model(u) /\ thread'[u].pc = thread[u].pc
BY DEF TypeOK, NextCall, Model

LEMMA SafeEnsure ==
  ASSUME SafeInv, NEW t \in Threads, thread[t].pc # "idle", Ensure(t)
  PROVE  SafeInv'
<1> USE DEF locks, At
<1>i. TypeOK /\ HeldInv /\ OnceInv /\ ServedInv
  BY DEF SafeInv
<1>0. TypeOK'
  BY <1>i, TypeEnsure
<1>t. /\ Model(t) \in Models /\ ProcessOf[t] \in Processes
      /\ ToolOf(Model(t)) \in Tools
  BY <1>i, InCall
<1>u. \A u \in Threads : thread[u].pc # "idle" => Model(u) \in Models
  BY <1>i, InCall
<1> SUFFICES HeldInv' /\ OnceInv' /\ ServedInv'
  BY <1>0 DEF SafeInv
<1>1. CASE Fast(t)
  <2>0. \/ Goto(t, "flock")
        \/ Loaded(t) /\ Goto(t, "encode")
        \/ NextCall(t)
    BY <1>1 DEF Fast, Ready
  <2>1. HeldInv'
    BY <1>1, <2>0, <1>t, <1>u, <1>i, GotoOnly, NextCallOnly DEF Fast, HeldInv, Held, Steps
  <2>2. OnceInv'
    <3>1. \A m \in Models : downloads'[m] <= 1 /\ (~Whole(m)' => downloads'[m] = 0)
      BY <1>1, <1>i DEF Fast, OnceInv, Whole
    <3>2. \A u \in Threads : thread'[u].pc \in {"download", "fetching"}
            => thread[u].pc = thread'[u].pc /\ Model(u)' = Model(u)
      BY <1>1, <2>0, <1>i, GotoOnly, NextCallOnly DEF Steps
    <3> QED BY <1>1, <1>i, <3>1, <3>2 DEF Fast, OnceInv
  <2>3. ServedInv'
    BY <1>1, <2>0, <1>t, <1>u, <1>i, GotoOnly, NextCallOnly DEF Fast, ServedInv, Loaded, Steps
  <2> QED BY <2>1, <2>2, <2>3
<1>2. CASE Flock(t)
  BY <1>2, <1>t, <1>u, <1>i DEF TypeOK, Flock, Goto, HeldInv, OnceInv, ServedInv, Held, Model, Loaded, Whole
<1>3. CASE Recheck(t)
  BY <1>3, <1>t, <1>u, <1>i DEF TypeOK, Recheck, Goto, HeldInv, OnceInv, ServedInv, Held, Model, Loaded, Whole
<1>4. CASE Look(t)
  BY <1>4, <1>t, <1>u, <1>i DEF TypeOK, Look, Goto, HeldInv, OnceInv, ServedInv, Held, Model, Loaded, Whole,
       LocalPath
<1>5. CASE LoadFallback(t)
  BY <1>5, <1>t, <1>u, <1>i DEF TypeOK, LoadFallback, Goto, CachePut, HeldInv, OnceInv, ServedInv, Held, Model,
       Loaded, Whole
<1>6. CASE Load(t)
  <2>0. \/ Goto(t, "release") /\ Loaded(t) /\ UNCHANGED cacheLock
        \/ Goto(t, "opening")
        \/ At(t, "download") /\ Goto(t, "fetching")
    BY <1>6, Zenon DEF Load
  <2>1. HeldInv'
    BY <1>6, <2>0, <1>t, <1>u, <1>i, GotoOnly, NextCallOnly DEF Load, HeldInv, Held, Steps
  <2>2. OnceInv'
    BY <1>6, <2>0, <1>t, <1>u, <1>i, GotoOnly, NextCallOnly
    DEF Load, OnceInv, HeldInv, Held, Whole, Steps
  <2>3. ServedInv'
    BY <1>6, <2>0, <1>t, <1>u, <1>i, GotoOnly, NextCallOnly DEF Load, ServedInv, Loaded, Steps
  <2> QED BY <2>1, <2>2, <2>3
<1>7. CASE Open(t)
  <2>0. \/ Goto(t, "release") /\ CachePut(t)
        \/ Goto(t, "raise") /\ UNCHANGED cached
    BY <1>7 DEF Open
  <2>1. HeldInv'
    BY <1>7, <2>0, <1>t, <1>u, <1>i, GotoOnly, NextCallOnly DEF Open, CachePut, HeldInv, Held, Steps
  <2>2. OnceInv'
    BY <1>7, <2>0, <1>t, <1>u, <1>i, GotoOnly, NextCallOnly
    DEF Open, CachePut, OnceInv, HeldInv, Held, Whole, Steps
  <2>3. ServedInv'
    <3>1. cached'[ProcessOf[t]] = cached[ProcessOf[t]] \cup {Model(t)} \/ ~At(t, "release")'
      BY <2>0, <1>t, <1>i, GotoOnly DEF CachePut, TypeOK, Steps
    <3>2. \A p \in Processes : cached[p] \subseteq cached'[p]
      BY <2>0, <1>t, <1>i DEF CachePut, TypeOK
    <3>3. thread'[t].pc \in {"release", "raise"}
      BY <2>0, <1>i, GotoOnly DEF Steps
    <3>4. Model(t)' = Model(t) /\ \A u \in Threads \ {t} :
            Model(u)' = Model(u) /\ thread'[u].pc = thread[u].pc
      BY <2>0, <1>i, GotoOnly DEF Steps
    <3>5. thread'[t].pc = "release" => Loaded(t)'
      BY <3>1, <3>4 DEF Loaded
    <3>6. \A u \in Threads \ {t} : Loaded(u) => Loaded(u)'
      BY <3>2, <3>4 DEF Loaded
    <3> QED BY <1>i, <3>3, <3>4, <3>5, <3>6 DEF ServedInv
  <2> QED BY <2>1, <2>2, <2>3
<1>8. CASE Fetch(t)
  BY <1>8, <1>t, <1>u, <1>i DEF TypeOK, Fetch, HeldInv, OnceInv, ServedInv, Held, Model, Loaded, Whole
<1>9. CASE FetchEnds(t)
  BY <1>9, <1>t, <1>u, <1>i DEF TypeOK, FetchEnds, Goto, CachePut, HeldInv, OnceInv, ServedInv, Held, Model,
       Loaded, Whole
<1>10. CASE LoadRaises(t)
  BY <1>10, <1>t, <1>u, <1>i DEF TypeOK, LoadRaises, Goto, HeldInv, OnceInv, ServedInv, Held, Model, Loaded, Whole
<1>11. CASE Release(t)
  <2>0. \/ At(t, "release") /\ Goto(t, "encode")
        \/ NextCall(t)
    BY <1>11 DEF Release, Ready
  <2>1. HeldInv'
    BY <1>11, <2>0, <1>t, <1>u, <1>i, GotoOnly, NextCallOnly DEF Release, HeldInv, Held, Steps
  <2>2. OnceInv'
    BY <1>11, <2>0, <1>t, <1>u, <1>i, GotoOnly, NextCallOnly
    DEF Release, OnceInv, HeldInv, Held, Whole, Steps
  <2>3. ServedInv'
    BY <1>11, <2>0, <1>t, <1>u, <1>i, GotoOnly, NextCallOnly DEF Release, ServedInv, Loaded, Steps
  <2> QED BY <2>1, <2>2, <2>3
<1> QED
  BY <1>1, <1>2, <1>3, <1>4, <1>5, <1>6, <1>7, <1>8, <1>9, <1>10, <1>11 DEF Ensure

LEMMA SafeStep == SafeInv /\ [Next]_vars => SafeInv'
<1> SUFFICES ASSUME SafeInv, [Next]_vars PROVE SafeInv'
  OBVIOUS
<1>0. TypeOK'
  BY TypeStep DEF SafeInv
<1>1. ASSUME NEW t \in Threads, EnsureVector(t) \/ EnsureRerank(t) PROVE SafeInv'
  BY <1>1, SafeEnsure DEF EnsureVector, EnsureRerank, At
<1> USE DEF locks, At
<1>i. TypeOK /\ HeldInv /\ OnceInv /\ ServedInv
  BY DEF SafeInv
<1>u. \A u \in Threads : thread[u].pc # "idle" => Model(u) \in Models
  BY <1>i, InCall
<1>2. ASSUME NEW t \in Threads, Ask(t) PROVE HeldInv' /\ OnceInv' /\ ServedInv'
  <2>0. \/ Loaded(t) /\ Goto(t, "encode")
        \/ Goto(t, "fast")
    BY <1>2 DEF Ask, Goto
  <2>1. HeldInv'
    BY <1>2, <2>0, <1>u, <1>i, GotoOnly, NextCallOnly DEF Ask, HeldInv, Held, Steps
  <2>2. OnceInv'
    BY <1>2, <2>0, <1>u, <1>i, GotoOnly, NextCallOnly
    DEF Ask, OnceInv, HeldInv, Held, Whole, Steps
  <2>3. ServedInv'
    BY <1>2, <2>0, <1>u, <1>i, GotoOnly, NextCallOnly DEF Ask, ServedInv, Loaded, Steps
  <2> QED BY <2>1, <2>2, <2>3
<1>6. ASSUME NEW t \in Threads, Encode(t) PROVE HeldInv' /\ OnceInv' /\ ServedInv'
  <2>0. \/ At(t, "encode") /\ Goto(t, "encoding")
        \/ NextCall(t)
    BY <1>6 DEF Encode
  <2>1. HeldInv'
    BY <1>6, <2>0, <1>u, <1>i, GotoOnly, NextCallOnly DEF Encode, HeldInv, Held, Steps
  <2>2. OnceInv'
    <3>1. \A m \in Models : downloads'[m] <= 1 /\ (~Whole(m)' => downloads'[m] = 0)
      BY <1>6, <1>i DEF Encode, OnceInv, Whole
    <3>2. \A u \in Threads : thread'[u].pc \in {"download", "fetching"}
            => thread[u].pc = thread'[u].pc /\ Model(u)' = Model(u)
      BY <1>6, <2>0, <1>i, GotoOnly, NextCallOnly DEF Steps
    <3> QED BY <1>6, <1>i, <3>1, <3>2 DEF Encode, OnceInv
  <2>3. ServedInv'
    BY <1>6, <2>0, <1>u, <1>i, GotoOnly, NextCallOnly DEF Encode, ServedInv, Loaded, Steps
  <2> QED BY <2>1, <2>2, <2>3
<1>7. ASSUME NEW t \in Threads, EncodeEnds(t) PROVE HeldInv' /\ OnceInv' /\ ServedInv'
  <2>0. NextCall(t)
    BY <1>7 DEF EncodeEnds
  <2>1. HeldInv'
    BY <1>7, <2>0, <1>u, <1>i, GotoOnly, NextCallOnly DEF EncodeEnds, HeldInv, Held, Steps
  <2>2. OnceInv'
    BY <1>7, <2>0, <1>u, <1>i, GotoOnly, NextCallOnly
    DEF EncodeEnds, OnceInv, HeldInv, Held, Whole, Steps
  <2>3. ServedInv'
    BY <1>7, <2>0, <1>u, <1>i, GotoOnly, NextCallOnly DEF EncodeEnds, ServedInv, Loaded, Steps
  <2> QED BY <2>1, <2>2, <2>3
<1>3. ASSUME NEW p \in Processes, Run(p) PROVE HeldInv' /\ OnceInv' /\ ServedInv'
  BY <1>3, <1>u, <1>i DEF TypeOK, Run, HeldInv, OnceInv, ServedInv, Held, Model, Loaded, Whole
<1>4. ASSUME NEW p \in Processes, Die(p) PROVE HeldInv' /\ OnceInv' /\ ServedInv'
  BY <1>4, <1>u, <1>i DEF TypeOK, Die, Start, HeldInv, OnceInv, ServedInv, Held, Model, Loaded, Whole
<1>5. CASE UNCHANGED vars
  <2>1. HeldInv'
    BY <1>5, <1>i DEF vars, HeldInv, Held, Model
  <2>2. OnceInv'
    BY <1>5, <1>i DEF vars, OnceInv, HeldInv, Held, Model, Whole
  <2>3. ServedInv'
    <3>1. thread' = thread /\ cached' = cached
      BY <1>5 DEF vars
    <3> QED BY <3>1, <1>i DEF ServedInv, Loaded, Model
  <2> QED BY <2>1, <2>2, <2>3, <1>0 DEF SafeInv
<1> QED
  BY <1>0, <1>1, <1>2, <1>3, <1>4, <1>5, <1>6, <1>7 DEF Next, ThreadStep, SafeInv

LEMMA SafeAlways == Spec => []SafeInv
BY SafeInit, SafeStep, PTL DEF Spec

(* Whatever crashes or fails, at most one thread fetches a model, and it   *)
(* is downloaded to the end at most once.                                  *)
THEOREM OneDownload == Spec => []DownloadedOnce
<1>1. SafeInv => DownloadedOnce
  BY DEF SafeInv, HeldInv, OnceInv, DownloadedOnce, Held, At
<1> QED BY <1>1, SafeAlways, PTL

(* An encoding is never made with a model that is not in the cache.        *)
THEOREM ServedFromCache == Spec => []Served
<1>1. SafeInv => Served
  BY DEF SafeInv, ServedInv, Served
<1> QED BY <1>1, SafeAlways, PTL
-----------------------------------------------------------------------------
(* Forked processes, while nothing has failed.                             *)

(* Only the process that runs a thread lets it make calls.                 *)
NotStarted == \A t \in Threads : ProcessOf[t] \notin alive => thread[t].next = 1

(* The files of a model are there all or not at all, but for the time of   *)
(* their download, so opening them does not fail.                          *)
AllOrNothing ==
  /\ \A m \in Models :
       disk[m] = {} \/ Whole(m) \/ \E t \in Threads : At(t, "fetching") /\ Model(t) = m
  /\ \A t \in Threads : thread[t].pc \in {"local", "opening"} => Whole(Model(t))
  /\ \A t \in Threads : thread[t].pc # "raise"

Asked(u) == {Calls[u][k] : k \in {i \in 1 .. Len(Calls[u]) : i < thread[u].next}}
ToPreload(u) == {Calls[u][k] : k \in 1 .. Len(Calls[u])}

(* What was preloaded is in the cache, and went into those of the forked   *)
(* processes.                                                              *)
Kept == \A u \in Preloads : Asked(u) \subseteq cached[ProcessOf[u]]

Inherited ==
  \A u \in Preloads, p \in alive :
    ParentOf[p] = ProcessOf[u] /\ p # ProcessOf[u] => ToPreload(u) \subseteq cached[p]

FaultFree == NotStarted /\ AllOrNothing /\ Kept /\ Inherited
WarmInv == (faults = 0 => FaultFree) /\ ForkedWarm

LEMMA ThreadStepCases ==
  ASSUME NEW t \in Threads, ThreadStep(t)
  PROVE  \/ Ask(t) \/ Fast(t) \/ Flock(t) \/ Recheck(t) \/ Look(t) \/ LoadFallback(t)
         \/ Load(t) \/ Open(t) \/ Fetch(t) \/ FetchEnds(t) \/ LoadRaises(t) \/ Release(t)
         \/ Encode(t) \/ EncodeEnds(t)
BY DEF ThreadStep, EnsureVector, EnsureRerank, Ensure

(* A step of a thread stays within its call, or ends it with the model in  *)
(* the cache.                                                              *)
LEMMA StepShape ==
  ASSUME SafeInv, faults = 0 => FaultFree, faults' = 0, NEW t \in Threads, ThreadStep(t)
  PROVE  /\ faults = 0 /\ FaultFree
         /\ alive' = alive /\ ProcessOf[t] \in alive
         /\ \A p \in Processes : cached[p] \subseteq cached'[p]
         /\ \A u \in Threads \ {t} : thread'[u] = thread[u]
         /\ \/ thread'[t].next = thread[t].next
            \/ /\ thread'[t].next = thread[t].next + 1 /\ thread'[t].pc = "idle"
               /\ thread[t].pc # "idle" /\ Loaded(t)
<1> USE DEF At
<1>1. TypeOK /\ ServedInv
  BY DEF SafeInv
<1>2. faults = 0 /\ FaultFree /\ ~LoadRaises(t)
  <2>1. faults \in Nat
    BY <1>1 DEF TypeOK
  <2>2. ~LoadRaises(t)
    BY <2>1 DEF LoadRaises
  <2>3. faults' = faults
    BY <2>2, ThreadStepCases
    DEF Ask, Fast, Flock, Recheck, Look, LoadFallback, Load, Open, Fetch, FetchEnds, Release,
        Encode, EncodeEnds
  <2> QED BY <2>2, <2>3
<1>3. alive' = alive
  BY ThreadStepCases
  DEF Ask, Fast, Flock, Recheck, Look, LoadFallback, Load, Open, Fetch, FetchEnds, LoadRaises,
      Release, Encode, EncodeEnds
<1>4. thread[t].pc # "idle" \/ Ask(t)
  BY ThreadStepCases
  DEF Fast, Flock, Recheck, Look, LoadFallback, Load, Open, Fetch, FetchEnds, LoadRaises,
      Release, Encode, EncodeEnds
<1>5. ProcessOf[t] \in alive
  BY <1>1, <1>4 DEF TypeOK, Ask
<1>6. cached' = cached \/ CachePut(t)
  BY ThreadStepCases
  DEF Ask, Fast, Flock, Recheck, Look, LoadFallback, Load, Open, Fetch, FetchEnds, LoadRaises,
      Release, Encode, EncodeEnds
<1>7. \A p \in Processes : cached[p] \subseteq cached'[p]
  <2>1. CASE cached' = cached
    BY <2>1
  <2>2. CASE CachePut(t)
    BY <1>1, <2>2 DEF CachePut, TypeOK
  <2> QED BY <1>6, <2>1, <2>2
<1>8. \/ thread' = thread
      \/ \E s \in Steps : Goto(t, s)
      \/ NextCall(t) /\ Loaded(t) /\ thread[t].pc # "idle"
  <2>1. CASE Fast(t)
    BY <2>1 DEF Fast, Ready, Steps
  <2>2. CASE Release(t)
    BY <1>1, <1>2, <2>2 DEF Release, Ready, Steps, ServedInv, FaultFree, AllOrNothing
  <2>3. CASE Encode(t)
    BY <1>1, <2>3 DEF Encode, Steps, ServedInv
  <2>4. CASE EncodeEnds(t)
    BY <1>1, <2>4 DEF EncodeEnds, ServedInv
  <2>5. CASE Ask(t) \/ Flock(t) \/ Recheck(t) \/ Look(t) \/ LoadFallback(t)
    BY <2>5 DEF Ask, Flock, Recheck, Look, LoadFallback, Steps
  <2>6. CASE Load(t) \/ Open(t)
    BY <2>6 DEF Load, Open, Steps
  <2>7. CASE Fetch(t) \/ FetchEnds(t)
    BY <2>7 DEF Fetch, FetchEnds, Steps
  <2> QED BY <1>2, <2>1, <2>2, <2>3, <2>4, <2>5, <2>6, <2>7, ThreadStepCases
<1>9. \A u \in Threads \ {t} : thread'[u] = thread[u]
  BY <1>1, <1>8 DEF TypeOK, Goto, NextCall
<1>10. \/ thread'[t].next = thread[t].next
       \/ /\ thread'[t].next = thread[t].next + 1 /\ thread'[t].pc = "idle"
          /\ thread[t].pc # "idle" /\ Loaded(t)
  BY <1>1, <1>8 DEF TypeOK, Goto, NextCall
<1> QED BY <1>2, <1>3, <1>5, <1>7, <1>9, <1>10

(* What the threads of the preloader have asked for stays in the caches.   *)
LEMMA KeptStep ==
  ASSUME SafeInv, faults = 0 => FaultFree, faults' = 0, NEW t \in Threads, ThreadStep(t)
  PROVE  NotStarted' /\ Kept' /\ Inherited'
<1> DEFINE call == Model(t)
<1>1. TypeOK /\ FaultFree
  BY StepShape DEF SafeInv
<1>2. NotStarted'
  BY <1>1, StepShape DEF FaultFree, NotStarted
<1>3. Inherited'
  <2>1. \A p \in alive : cached[p] \subseteq cached'[p]
    BY <1>1, StepShape DEF TypeOK
  <2> QED BY <1>1, <2>1, StepShape DEF FaultFree, Inherited, ToPreload
<1>4. Kept'
  <2> SUFFICES ASSUME NEW u \in Preloads PROVE Asked(u)' \subseteq cached'[ProcessOf[u]]
    BY DEF Kept
  <2>1. Asked(u) \subseteq cached'[ProcessOf[u]]
    BY <1>1, StepShape DEF FaultFree, Kept
  <2>2. CASE thread'[u].next = thread[u].next
    BY <2>1, <2>2 DEF Asked
  <2>3. CASE thread'[u].next # thread[u].next
    <3>1. u = t /\ thread'[u].next = thread[u].next + 1 /\ Loaded(u)
      BY <2>3, StepShape
    <3>2. Model(u) \in cached'[ProcessOf[u]]
      BY <3>1, StepShape DEF Loaded
    <3>3. Asked(u)' \subseteq Asked(u) \cup {Model(u)}
      <4> SUFFICES ASSUME NEW x \in Asked(u)' PROVE x \in Asked(u) \cup {Model(u)}
        OBVIOUS
      <4>0. PICK i \in 1 .. Len(Calls[u]) : i < thread'[u].next /\ x = Calls[u][i]
        BY DEF Asked
      <4>1. thread[u].next \in Nat /\ i \in Nat /\ thread'[u].next = thread[u].next + 1
        BY <1>1, <3>1 DEF TypeOK
      <4>2. i = thread[u].next \/ i < thread[u].next
        BY <4>0, <4>1
      <4> QED BY <4>0, <4>2 DEF Asked, Model
    <3> QED BY <2>1, <3>2, <3>3
  <2> QED BY <2>2, <2>3
<1> QED BY <1>2, <1>3, <1>4

(* A download leaves all the files or is still under way; nothing else     *)
(* touches them.                                                           *)
LEMMA WholeStep ==
  ASSUME SafeInv, faults = 0 => FaultFree, faults' = 0, NEW t \in Threads, ThreadStep(t)
  PROVE  AllOrNothing'
<1> USE DEF At
<1>1. /\ TypeOK /\ HeldInv /\ AllOrNothing /\ ~LoadRaises(t)
  <2>1. faults = 0 /\ FaultFree
    BY StepShape
  <2> QED BY <2>1 DEF SafeInv, FaultFree, LoadRaises
<1>2. \A m \in Models : Whole(m) => Whole(m)'
  BY <1>1, ThreadStepCases
  DEF TypeOK, Whole, Ask, Fast, Flock, Recheck, Look, LoadFallback, Load, Open, Fetch, FetchEnds,
      Release, Encode, EncodeEnds
<1>3. \A u \in Threads \ {t} : Model(u)' = Model(u) /\ thread'[u].pc = thread[u].pc
  BY StepShape DEF Model
<1>4. thread[t].pc # "idle" => Model(t) \in Models
  BY <1>1, InCall
<1>5. \A u \in Threads : thread[u].pc # "idle" => Model(u) \in Models
  BY <1>1, InCall
<1>6. ASSUME NEW m \in Models
      PROVE  disk'[m] = {} \/ Whole(m)'
             \/ \E u \in Threads : thread'[u].pc = "fetching" /\ Model(u)' = m
  <2>1. CASE Fetch(t)
    <3>1. thread' = thread /\ \A u \in Threads : Model(u)' = Model(u)
      BY <2>1 DEF Fetch, Model
    <3>2. CASE m = Model(t)
      BY <2>1, <3>1, <3>2 DEF Fetch
    <3>3. CASE m # Model(t)
      <4>1. disk'[m] = disk[m]
        BY <1>1, <2>1, <3>3 DEF Fetch, TypeOK
      <4> QED BY <1>1, <1>2, <3>1, <4>1 DEF AllOrNothing
    <3> QED BY <3>2, <3>3
  <2>2. CASE FetchEnds(t)
    <3>1. disk' = disk /\ Whole(Model(t))
      BY <2>2 DEF FetchEnds
    <3>2. ASSUME NEW u \in Threads, thread[u].pc = "fetching", Model(u) = m, m # Model(t)
          PROVE  thread'[u].pc = "fetching" /\ Model(u)' = m
      BY <1>3, <3>2
    <3> QED BY <1>1, <1>2, <3>1, <3>2 DEF AllOrNothing
  <2>3. CASE ~Fetch(t) /\ ~FetchEnds(t)
    <3>1. disk' = disk /\ thread[t].pc # "fetching"
      BY <1>1, <2>3, ThreadStepCases
      DEF Ask, Fast, Flock, Recheck, Look, LoadFallback, Load, Open, Release, Encode, EncodeEnds
    <3> QED BY <1>1, <1>2, <1>3, <3>1 DEF AllOrNothing
  <2> QED BY <2>1, <2>2, <2>3
<1>7. ASSUME Look(t), LocalPath(Model(t)) PROVE Whole(Model(t))
  <2>1. Model(t) \in Models /\ thread[t].pc = "look" /\ fileLock[Model(t)] = t
    BY <1>1, <1>4, <1>7 DEF Look, HeldInv, Held
  <2>2. ~(disk[Model(t)] = {})
    <3>1. "config" \in Snapshot(Model(t)) \ {"tokenizer"}
      BY DEF Snapshot, Files
    <3> QED BY <1>7, <3>1 DEF LocalPath
  <2>3. ASSUME NEW u \in Threads, thread[u].pc = "fetching", Model(u) = Model(t) PROVE FALSE
    BY <1>1, <2>1, <2>3 DEF HeldInv, Held
  <2> QED BY <1>1, <2>1, <2>2, <2>3 DEF AllOrNothing
<1>8. thread'[t].pc \in {"local", "opening"} => Whole(Model(t)) /\ Model(t)' = Model(t)
  <2>1. CASE Look(t)
    <3>1. Goto(t, "download") \/ (LocalPath(Model(t)) /\ Goto(t, "local"))
      BY <2>1 DEF Look
    <3> QED BY <1>1, <1>7, <2>1, <3>1, GotoOnly DEF Steps
  <2>2. CASE Load(t)
    <3>1. \/ Goto(t, "release") \/ Goto(t, "fetching")
          \/ thread[t].pc = "local" /\ Goto(t, "opening")
      BY <2>2 DEF Load
    <3> QED BY <1>1, <3>1, GotoOnly DEF Steps, AllOrNothing
  <2>3. CASE Ask(t) \/ Fast(t) \/ Flock(t) \/ Recheck(t) \/ LoadFallback(t) \/ Open(t)
             \/ FetchEnds(t) \/ Release(t) \/ Encode(t) \/ EncodeEnds(t)
    <3>1. NextCall(t) \/ \E s \in Steps \ {"local", "opening"} : Goto(t, s)
      BY <2>3 DEF Ask, Fast, Flock, Recheck, LoadFallback, Open, FetchEnds, Release, Encode,
                  EncodeEnds, Ready, Steps
    <3> QED BY <1>1, <3>1, GotoOnly, NextCallOnly
  <2>4. CASE Fetch(t)
    BY <2>4 DEF Fetch
  <2> QED BY <1>1, <2>1, <2>2, <2>3, <2>4, ThreadStepCases
<1>9. \A u \in Threads : thread'[u].pc \in {"local", "opening"} => Whole(Model(u))'
  <2> SUFFICES ASSUME NEW u \in Threads, thread'[u].pc \in {"local", "opening"}
               PROVE  Whole(Model(u))'
    OBVIOUS
  <2>1. Model(u)' = Model(u) /\ Whole(Model(u)) /\ Model(u) \in Models
    <3>1. CASE u = t
      <4>1. thread[t].pc # "idle"
        BY <1>1, <1>8, <3>1, ThreadStepCases, GotoOnly DEF Ask, Steps,
           Fast, Flock, Recheck, Look, LoadFallback, Load, Open, Fetch, FetchEnds,
           Release, Encode, EncodeEnds
      <4> QED BY <1>4, <1>8, <3>1, <4>1
    <3>2. CASE u # t
      BY <1>1, <1>3, <1>5, <3>2 DEF AllOrNothing
    <3> QED BY <3>1, <3>2
  <2>2. Whole(Model(u))' <=> Snapshot(Model(u)) \subseteq disk'[Model(u)]
    BY <2>1 DEF Whole
  <2>3. Whole(Model(u)) => Snapshot(Model(u)) \subseteq disk'[Model(u)]
    BY <1>2, <2>1 DEF Whole
  <2> QED BY <2>1, <2>2, <2>3
<1>10. \A u \in Threads : thread'[u].pc # "raise"
  <2>1. thread'[t].pc # "raise"
    <3>1. CASE Open(t)
      <4>1. Goto(t, "release")
        BY <1>1, <3>1 DEF Open, AllOrNothing
      <4> QED BY <1>1, <4>1, GotoOnly DEF Steps
    <3>2. CASE Ask(t) \/ Fast(t) \/ Flock(t) \/ Recheck(t) \/ LoadFallback(t) \/ Look(t)
               \/ Load(t) \/ FetchEnds(t) \/ Release(t) \/ Encode(t) \/ EncodeEnds(t)
      <4>1. NextCall(t) \/ \E s \in Steps \ {"raise"} : Goto(t, s)
        BY <3>2 DEF Ask, Fast, Flock, Recheck, LoadFallback, Look, Load, FetchEnds, Release,
                    Encode, EncodeEnds, Ready, Steps
      <4> QED BY <1>1, <4>1, GotoOnly, NextCallOnly
    <3>3. CASE Fetch(t)
      BY <3>3 DEF Fetch
    <3> QED BY <1>1, <3>1, <3>2, <3>3, ThreadStepCases
  <2> QED BY <1>1, <1>3, <2>1 DEF AllOrNothing
<1> QED BY <1>6, <1>9, <1>10 DEF AllOrNothing

LEMMA RunStep ==
  ASSUME TypeOK, FaultFree, NEW p \in Processes, Run(p)
  PROVE  FaultFree'
<1>1. /\ thread' = thread /\ disk' = disk /\ alive' = alive \cup {p} /\ p \notin alive
      /\ \A q \in Processes \ {p} : cached'[q] = cached[q]
  BY DEF Run, TypeOK
<1>2. NotStarted'
  BY <1>1 DEF FaultFree, NotStarted
<1>3. AllOrNothing'
  BY <1>1 DEF FaultFree, AllOrNothing, At, Model, Whole
<1>4. Kept'
  <2> SUFFICES ASSUME NEW u \in Preloads PROVE Asked(u) \subseteq cached'[ProcessOf[u]]
    BY <1>1 DEF Kept, Asked
  <2>1. CASE ProcessOf[u] = p
    <3>1. thread[u].next = 1
      BY <1>1, <2>1 DEF FaultFree, NotStarted
    <3>2. ASSUME NEW i \in 1 .. Len(Calls[u]), i < 1 PROVE FALSE
      BY <3>2
    <3> QED BY <3>1, <3>2 DEF Asked
  <2>2. CASE ProcessOf[u] # p
    BY <1>1, <2>2 DEF FaultFree, Kept
  <2> QED BY <2>1, <2>2
<1>5. Inherited'
  <2> SUFFICES ASSUME NEW u \in Preloads, NEW q \in alive',
                      ParentOf[q] = ProcessOf[u], q # ProcessOf[u]
               PROVE  ToPreload(u) \subseteq cached'[q]
    BY DEF Inherited, ToPreload
  <2>1. CASE q = p
    <3>1. /\ ProcessOf[u] \in alive /\ Preloaded(ProcessOf[u])
          /\ cached'[p] = cached[ProcessOf[u]]
      BY <2>1 DEF Run, TypeOK
    <3>2. ~Called(u) /\ thread[u].next \in Nat \ {0} /\ Len(Calls[u]) \in Nat
      BY <3>1 DEF Preloaded, TypeOK
    <3>3. \A i \in 1 .. Len(Calls[u]) : i < thread[u].next
      BY <3>2 DEF Called
    <3>4. ToPreload(u) \subseteq Asked(u)
      BY <3>3 DEF ToPreload, Asked
    <3> QED BY <2>1, <3>1, <3>4 DEF FaultFree, Kept
  <2>2. CASE q # p
    <3>1. q \in alive /\ q \in Processes
      BY <1>1, <2>2 DEF TypeOK
    <3> QED BY <1>1, <2>2, <3>1 DEF FaultFree, Inherited
  <2> QED BY <2>1, <2>2
<1> QED BY <1>2, <1>3, <1>4, <1>5 DEF FaultFree

(* The threads ForkedWarm is about.                                        *)
Warm(t, u) ==
  /\ t \notin Preloads
  /\ ParentOf[ProcessOf[t]] = ProcessOf[u] /\ ProcessOf[t] # ProcessOf[u]
  /\ Model(t) \in ToPreload(u)

LEMMA WarmThread ==
  ASSUME SafeInv, WarmInv, faults' = 0, NEW t \in Threads, ThreadStep(t), NEW u \in Preloads,
         Warm(t, u), thread'[t].pc # "idle"
  PROVE  thread'[t].pc \in {"encode", "encoding"}
<1> USE DEF At
<1>1. TypeOK /\ faults = 0 /\ FaultFree /\ ProcessOf[t] \in alive
  BY StepShape DEF WarmInv, SafeInv
<1>2. CASE Ask(t)
  <2>1. Loaded(t)
    BY <1>1 DEF FaultFree, Inherited, Warm, Loaded
  <2>2. Goto(t, "encode")
    BY <1>2, <2>1 DEF Ask, Warm
  <2> QED BY <1>1, <2>2, GotoOnly DEF Steps
<1>3. CASE ~Ask(t)
  <2>1. thread[t].pc # "idle"
    BY <1>3, ThreadStepCases
    DEF Fast, Flock, Recheck, Look, LoadFallback, Load, Open, Fetch, FetchEnds, LoadRaises,
        Release, Encode, EncodeEnds
  <2>2. thread[t].pc \in {"encode", "encoding"}
    BY <1>1, <2>1 DEF WarmInv, ForkedWarm, Warm, ToPreload
  <2>3. Encode(t) \/ EncodeEnds(t)
    BY <1>3, <2>2, ThreadStepCases
    DEF Fast, Flock, Recheck, Look, LoadFallback, Load, Open, Fetch, FetchEnds, LoadRaises, Release
  <2>4. NextCall(t) \/ Goto(t, "encoding")
    BY <2>3 DEF Encode, EncodeEnds
  <2> QED BY <1>1, <2>4, GotoOnly, NextCallOnly DEF Steps
<1> QED BY <1>2, <1>3

LEMMA WarmStep ==
  ASSUME SafeInv, WarmInv, [Next]_vars
  PROVE  WarmInv'
<1>1. TypeOK /\ (faults = 0 => FaultFree) /\ ForkedWarm
  BY DEF SafeInv, WarmInv
<1>2. CASE faults' # 0
  BY <1>2 DEF WarmInv, ForkedWarm
<1>3. ASSUME faults' = 0, NEW t \in Threads, ThreadStep(t) PROVE WarmInv'
  <2>1. FaultFree'
    BY <1>1, <1>3, KeptStep, WholeStep DEF FaultFree
  <2>2. ASSUME NEW v \in Threads, NEW u \in Preloads, v \notin Preloads,
               ParentOf[ProcessOf[v]] = ProcessOf[u], ProcessOf[v] # ProcessOf[u],
               thread'[v].pc # "idle", Model(v)' \in ToPreload(u)
        PROVE  thread'[v].pc \in {"encode", "encoding"}
    <3>1. thread'[v].next = thread[v].next
      BY <1>1, <1>3, <2>2, StepShape
    <3>2. Model(v)' = Model(v)
      BY <3>1 DEF Model
    <3>3. Warm(v, u)
      BY <2>2, <3>2 DEF Warm
    <3>4. CASE v = t
      BY <1>3, <2>2, <3>3, <3>4, WarmThread
    <3>5. CASE v # t
      <4>1. thread'[v] = thread[v] /\ faults = 0
        BY <1>1, <1>3, <3>5, StepShape
      <4> QED BY <1>1, <2>2, <3>3, <4>1 DEF ForkedWarm, Warm, ToPreload
    <3> QED BY <3>4, <3>5
  <2>3. ForkedWarm'
    BY <2>2 DEF ForkedWarm, ToPreload
  <2> QED BY <2>1, <2>3 DEF WarmInv
<1>4. ASSUME faults' = 0, NEW p \in Processes, Run(p) PROVE WarmInv'
  <2>1. FaultFree'
    BY <1>1, <1>4, RunStep DEF Run
  <2>2. ForkedWarm'
    BY <1>1, <1>4 DEF Run, ForkedWarm, Model
  <2> QED BY <2>1, <2>2 DEF WarmInv
<1>5. ASSUME faults' = 0, NEW p \in Processes, Die(p) PROVE FALSE
  BY <1>1, <1>5 DEF TypeOK, Die
<1>6. CASE UNCHANGED vars
  <2>1. ForkedWarm'
    BY <1>1, <1>6 DEF vars, ForkedWarm, Model
  <2>2. FaultFree => FaultFree'
    BY <1>6 DEF vars, FaultFree, NotStarted, AllOrNothing, Kept, Inherited, Asked, ToPreload, At,
       Model, Whole
  <2> QED BY <1>1, <1>6, <2>1, <2>2 DEF vars, WarmInv
<1> QED BY <1>2, <1>3, <1>4, <1>5, <1>6 DEF Next

(* A process forked after its parent has preloaded the models never waits  *)
(* for one of them, as long as nothing has failed.                         *)
THEOREM PoolIsWarm == Spec => []ForkedWarm
<1>1. Init => WarmInv
  <2> SUFFICES ASSUME Init PROVE FaultFree /\ ForkedWarm
    BY DEF WarmInv
  <2>1. ForkedWarm /\ NotStarted /\ AllOrNothing
    BY DEF Init, Start, ForkedWarm, NotStarted, AllOrNothing
  <2>2. Inherited
    BY DEF Init, Inherited
  <2>3. Kept
    <3> SUFFICES ASSUME NEW u \in Preloads, NEW i \in 1 .. Len(Calls[u]), i < 1 PROVE FALSE
      BY DEF Init, Start, Kept, Asked
    <3> QED OBVIOUS
  <2> QED BY <2>1, <2>2, <2>3 DEF FaultFree
<1>2. WarmInv => ForkedWarm
  BY DEF WarmInv
<1> QED BY SafeAlways, WarmStep, <1>1, <1>2, PTL DEF Spec
-----------------------------------------------------------------------------
(* Who waits for whom.                                                     *)

(* A lock is held only by a thread that is at work with it: the one of a   *)
(* model within ensure_model_ready of that model, the one of a class and a *)
(* process only during the load itself.                                    *)
FileLockInv ==
  \A m \in Models, u \in Threads :
    fileLock[m] = u => thread[u].pc \in Held /\ Model(u) = m

Loading(u, p, c) ==
  thread[u].pc \in {"opening", "fetching"} /\ ProcessOf[u] = p /\ ToolOf(Model(u)) = c

ClassLockInv ==
  \A p \in Processes, c \in Tools, u \in Threads : cacheLock[p][c] = u => Loading(u, p, c)

LockInv == FileLockInv /\ ClassLockInv

(* Thread t cannot go on before thread u has: u holds the lock t asks for, *)
(* or one of the permits that are all taken.                               *)
WaitsFor(t, u) ==
  \/ At(t, "flock") /\ fileLock[Model(t)] = u
  \/ /\ thread[t].pc \in {"fast", "recheck", "local", "download"}
     /\ cacheLock[ProcessOf[t]][ToolOf(Model(t))] = u
  \/ /\ At(t, "encode") /\ installed
     /\ u \in Encoding(ProcessOf[t], ToolOf(Model(t)))
     /\ Cardinality(Encoding(ProcessOf[t], ToolOf(Model(t)))) >= Permits

WaitsEnd == \A t, u, v, w \in Threads : ~(WaitsFor(t, u) /\ WaitsFor(u, v) /\ WaitsFor(v, w))

(* A step that leaves the locks alone, taken by a thread that holds none   *)
(* or goes on holding the ones it has.                                     *)
LEMMA LockKept ==
  ASSUME TypeOK, LockInv, NEW t \in Threads, UNCHANGED locks,
         \A u \in Threads \ {t} : Model(u)' = Model(u) /\ thread'[u].pc = thread[u].pc,
         \/ thread[t].pc \notin Held
         \/ /\ thread'[t].pc \in Held /\ Model(t)' = Model(t)
            /\ thread[t].pc \in {"opening", "fetching"} => thread'[t].pc \in {"opening", "fetching"}
  PROVE  LockInv'
<1>1. fileLock' = fileLock /\ cacheLock' = cacheLock
  BY DEF locks
<1>2. FileLockInv'
  BY <1>1 DEF LockInv, FileLockInv
<1>3. ClassLockInv'
  <2> SUFFICES ASSUME NEW p \in Processes, NEW c \in Tools, NEW u \in Threads, cacheLock[p][c] = u
               PROVE  Loading(u, p, c)'
    BY <1>1 DEF ClassLockInv
  <2>1. Loading(u, p, c)
    BY DEF LockInv, ClassLockInv
  <2>2. Model(u)' = Model(u) /\ thread'[u].pc \in {"opening", "fetching"}
    BY <2>1 DEF Loading, Held
  <2> QED BY <2>1, <2>2 DEF Loading, ToolOf
<1> QED BY <1>2, <1>3 DEF LockInv

(* The end of a load.                                                      *)
LEMMA LoadEnds ==
  ASSUME TypeOK, LockInv, NEW t \in Threads, thread[t].pc \in {"opening", "fetching"},
         Lock(t, None), UNCHANGED fileLock,
         NEW s \in {"release", "raise"}, Goto(t, s)
  PROVE  LockInv'
<1>1. /\ \A u \in Threads : Model(u)' = Model(u)
      /\ \A u \in Threads \ {t} : thread'[u].pc = thread[u].pc
      /\ thread'[t].pc = s
  BY GotoOnly DEF Steps
<1>2. FileLockInv'
  BY <1>1 DEF LockInv, FileLockInv, Held
<1>3. ClassLockInv'
  <2> SUFFICES ASSUME NEW p \in Processes, NEW c \in Tools, NEW u \in Threads, cacheLock'[p][c] = u
               PROVE  Loading(u, p, c)'
    BY DEF ClassLockInv
  <2>1. cacheLock[p][c] = u /\ ~(p = ProcessOf[t] /\ c = ToolOf(Model(t)))
    BY DEF Lock, TypeOK
  <2>2. Loading(u, p, c)
    BY <2>1 DEF LockInv, ClassLockInv
  <2>3. u # t
    BY <2>1, <2>2 DEF Loading
  <2> QED BY <1>1, <2>2, <2>3 DEF Loading, ToolOf
<1> QED BY <1>2, <1>3 DEF LockInv

LEMMA LockEnsure ==
  ASSUME SafeInv, LockInv, NEW t \in Threads, ThreadStep(t)
  PROVE  LockInv'
<1> USE DEF At
<1>1. TypeOK /\ HeldInv
  BY DEF SafeInv
<1>2. CASE Ask(t) \/ Fast(t) \/ Encode(t) \/ EncodeEnds(t)
  <2>1. UNCHANGED locks /\ thread[t].pc \notin Held
    BY <1>2 DEF Ask, Fast, Encode, EncodeEnds, Held
  <2>2. NextCall(t) \/ \E s \in Steps : Goto(t, s)
    BY <1>2 DEF Ask, Fast, Encode, EncodeEnds, Ready, Steps
  <2> QED BY <1>1, <2>1, <2>2, LockKept, GotoOnly, NextCallOnly
<1>3. CASE Recheck(t) \/ Look(t) \/ LoadFallback(t)
  <2>1. UNCHANGED locks /\ thread[t].pc \notin {"opening", "fetching"}
    BY <1>3 DEF Recheck, Look, LoadFallback
  <2>2. \E s \in Held : Goto(t, s)
    BY <1>3 DEF Recheck, Look, LoadFallback, Held
  <2>3. Held \subseteq Steps
    BY DEF Held, Steps
  <2> QED BY <1>1, <2>1, <2>2, <2>3, LockKept, GotoOnly
<1>4. CASE Fetch(t)
  BY <1>1, <1>4, LockKept DEF Fetch, Model, Held
<1>5. CASE Open(t) \/ FetchEnds(t) \/ LoadRaises(t)
  <2>1. /\ thread[t].pc \in {"opening", "fetching"} /\ Lock(t, None) /\ UNCHANGED fileLock
        /\ \E s \in {"release", "raise"} : Goto(t, s)
    BY <1>5 DEF Open, FetchEnds, LoadRaises
  <2> QED BY <1>1, <2>1, LoadEnds
<1>6. CASE Flock(t)
  <2>1. /\ Goto(t, "recheck") /\ thread[t].pc = "flock" /\ cacheLock' = cacheLock
        /\ fileLock' = [fileLock EXCEPT ![Model(t)] = t]
    BY <1>6 DEF Flock
  <2>2. /\ \A u \in Threads : Model(u)' = Model(u)
        /\ \A u \in Threads \ {t} : thread'[u].pc = thread[u].pc
        /\ thread'[t].pc = "recheck"
    BY <1>1, <2>1, GotoOnly DEF Steps
  <2>3. FileLockInv'
    BY <1>1, <2>1, <2>2 DEF LockInv, FileLockInv, Held, TypeOK
  <2>4. ClassLockInv'
    <3> SUFFICES ASSUME NEW p \in Processes, NEW c \in Tools, NEW u \in Threads, cacheLock[p][c] = u
                 PROVE  Loading(u, p, c)'
      BY <2>1 DEF ClassLockInv
    <3>1. Loading(u, p, c)
      BY DEF LockInv, ClassLockInv
    <3>2. u # t
      BY <2>1, <3>1 DEF Loading
    <3> QED BY <2>2, <3>1, <3>2 DEF Loading, ToolOf
  <2> QED BY <2>3, <2>4 DEF LockInv
<1>7. CASE Load(t)
  <2>1. CASE Loaded(t)
    <3>1. UNCHANGED locks /\ Goto(t, "release") /\ thread[t].pc \in {"local", "download"}
      BY <1>7, <2>1 DEF Load, locks
    <3>2. /\ \A u \in Threads : Model(u)' = Model(u)
          /\ \A u \in Threads \ {t} : thread'[u].pc = thread[u].pc
          /\ thread'[t].pc = "release"
      BY <1>1, <3>1, GotoOnly DEF Steps
    <3>3. "release" \in Held
      BY DEF Held
    <3> QED BY <1>1, <3>1, <3>2, <3>3, LockKept
  <2>2. CASE ~Loaded(t)
    <3>1. /\ Lock(t, t) /\ fileLock' = fileLock /\ thread[t].pc \in {"local", "download"}
          /\ \E s \in {"opening", "fetching"} : Goto(t, s)
      BY <1>7, <2>2 DEF Load
    <3>2. /\ \A u \in Threads : Model(u)' = Model(u)
          /\ \A u \in Threads \ {t} : thread'[u].pc = thread[u].pc
          /\ thread'[t].pc \in {"opening", "fetching"}
      BY <1>1, <3>1, GotoOnly DEF Steps
    <3>3. FileLockInv'
      BY <3>1, <3>2 DEF LockInv, FileLockInv, Held
    <3>4. ASSUME NEW p \in Processes, NEW c \in Tools, NEW u \in Threads, cacheLock'[p][c] = u
          PROVE  Loading(u, p, c)'
      <4>1. CASE p = ProcessOf[t] /\ c = ToolOf(Model(t))
        <5>1. u = t
          BY <1>1, <3>1, <3>4, <4>1 DEF Lock, TypeOK
        <5> QED BY <3>2, <4>1, <5>1 DEF Loading, ToolOf
      <4>2. CASE ~(p = ProcessOf[t] /\ c = ToolOf(Model(t)))
        <5>1. cacheLock[p][c] = u
          BY <1>1, <3>1, <3>4, <4>2 DEF Lock, TypeOK
        <5>2. Loading(u, p, c)
          BY <5>1 DEF LockInv, ClassLockInv
        <5> QED BY <3>2, <5>2 DEF Loading, ToolOf
      <4> QED BY <4>1, <4>2
    <3>5. ClassLockInv'
      BY <3>4 DEF ClassLockInv
    <3> QED BY <3>3, <3>5 DEF LockInv
  <2> QED BY <2>1, <2>2
<1>8. CASE Release(t)
  <2>1. /\ fileLock' = [fileLock EXCEPT ![Model(t)] = None] /\ cacheLock' = cacheLock
        /\ thread[t].pc \in {"release", "raise"}
        /\ NextCall(t) \/ \E s \in Steps : Goto(t, s)
    BY <1>8 DEF Release, Ready, Steps
  <2>2. \A u \in Threads \ {t} : Model(u)' = Model(u) /\ thread'[u].pc = thread[u].pc
    BY <1>1, <2>1, GotoOnly, NextCallOnly
  <2>3. FileLockInv'
    <3> SUFFICES ASSUME NEW m \in Models, NEW u \in Threads, fileLock'[m] = u
                 PROVE  thread'[u].pc \in Held /\ Model(u)' = m
      BY DEF FileLockInv
    <3>1. fileLock[m] = u /\ m # Model(t)
      BY <1>1, <2>1 DEF TypeOK
    <3>2. thread[u].pc \in Held /\ Model(u) = m
      BY <3>1 DEF LockInv, FileLockInv
    <3> QED BY <2>2, <3>1, <3>2
  <2>4. ClassLockInv'
    <3> SUFFICES ASSUME NEW p \in Processes, NEW c \in Tools, NEW u \in Threads, cacheLock[p][c] = u
                 PROVE  Loading(u, p, c)'
      BY <2>1 DEF ClassLockInv
    <3>1. Loading(u, p, c)
      BY DEF LockInv, ClassLockInv
    <3>2. u # t
      BY <2>1, <3>1 DEF Loading
    <3> QED BY <2>2, <3>1, <3>2 DEF Loading, ToolOf
  <2> QED BY <2>3, <2>4 DEF LockInv
<1> QED BY <1>2, <1>3, <1>4, <1>5, <1>6, <1>7, <1>8, ThreadStepCases

LEMMA LockStep ==
  ASSUME SafeInv, LockInv, [Next]_vars
  PROVE  LockInv'
<1>1. TypeOK
  BY DEF SafeInv
<1>2. ASSUME NEW p \in Processes, Run(p) PROVE LockInv'
  BY <1>2 DEF Run, locks, LockInv, FileLockInv, ClassLockInv, Loading, Model
<1>3. ASSUME NEW p \in Processes, Die(p) PROVE LockInv'
  <2> DEFINE gone == {q \in Processes : p \in {q, ParentOf[q]}}
  <2>1. /\ \A m \in Models, u \in Threads : fileLock'[m] = u =>
              fileLock[m] = u /\ ProcessOf[u] \notin gone
        /\ \A q \in Processes, c \in Tools, u \in Threads : cacheLock'[q][c] = u =>
              cacheLock[q][c] = u /\ q \notin gone
        /\ \A u \in Threads : ProcessOf[u] \notin gone => thread'[u] = thread[u]
    BY <1>3 DEF Die
  <2>2. FileLockInv'
    BY <2>1 DEF LockInv, FileLockInv, Model
  <2>3. ClassLockInv'
    <3> SUFFICES ASSUME NEW q \in Processes, NEW c \in Tools, NEW u \in Threads, cacheLock'[q][c] = u
                 PROVE  Loading(u, q, c)'
      BY DEF ClassLockInv
    <3>1. Loading(u, q, c) /\ q \notin gone
      BY <2>1 DEF LockInv, ClassLockInv
    <3>2. thread'[u] = thread[u]
      BY <2>1, <3>1 DEF Loading
    <3> QED BY <3>1, <3>2 DEF Loading, Model, ToolOf
  <2> QED BY <2>2, <2>3 DEF LockInv
<1>4. CASE UNCHANGED vars
  BY <1>4 DEF vars, locks, LockInv, FileLockInv, ClassLockInv, Loading, Model
<1> QED BY <1>2, <1>3, <1>4, LockEnsure DEF Next

(* The locks and permits of ensure_model_ready and encode are taken in one *)
(* order: a chain of threads that wait for each other has at most two      *)
(* links, so it is no cycle and ends at a thread that waits for nobody.    *)
(* This is why no call hangs (Answered) while loads and encodings end.     *)
THEOREM NoCircularWait == Spec => []WaitsEnd
<1>1. Init => LockInv
  BY DEF Init, LockInv, FileLockInv, ClassLockInv
<1>2. ASSUME TypeOK, LockInv PROVE WaitsEnd
  <2> SUFFICES ASSUME NEW t \in Threads, NEW u \in Threads, NEW v \in Threads, NEW w \in Threads,
                      WaitsFor(t, u), WaitsFor(u, v), WaitsFor(v, w)
               PROVE  FALSE
    BY DEF WaitsEnd
  <2> DEFINE Working(x) == thread[x].pc \in {"opening", "fetching", "encoding"}
  <2>1. ASSUME NEW x \in Threads, NEW y \in Threads, WaitsFor(x, y)
        PROVE  /\ ~Working(x)
               /\ Working(y) \/ (thread[x].pc = "flock" /\ thread[y].pc \in Held)
    <3>1. ~Working(x)
      BY <2>1 DEF WaitsFor, At
    <3>2. CASE At(x, "flock") /\ fileLock[Model(x)] = y
      <4>1. Model(x) \in Models
        BY <1>2, <3>2, InCall DEF At
      <4> QED BY <1>2, <3>1, <3>2, <4>1 DEF LockInv, FileLockInv, At
    <3>3. CASE /\ thread[x].pc \in {"fast", "recheck", "local", "download"}
               /\ cacheLock[ProcessOf[x]][ToolOf(Model(x))] = y
      <4>1. ProcessOf[x] \in Processes /\ ToolOf(Model(x)) \in Tools
        BY <1>2, <3>3, InCall
      <4> QED BY <1>2, <3>1, <3>3, <4>1 DEF LockInv, ClassLockInv, Loading
    <3>4. CASE y \in Encoding(ProcessOf[x], ToolOf(Model(x)))
      BY <3>1, <3>4 DEF Encoding, At
    <3> QED BY <2>1, <3>2, <3>3, <3>4 DEF WaitsFor
  <2>2. ~Working(u) /\ ~Working(v)
    BY <2>1
  <2>3. thread[u].pc \in Held /\ thread[u].pc = "flock"
    BY <2>1, <2>2
  <2> QED BY <2>3 DEF Held
<1>3. SafeInv => TypeOK
  BY DEF SafeInv
<1> QED BY SafeAlways, LockStep, <1>1, <1>2, <1>3, PTL DEF Spec

-----------------------------------------------------------------------------
(* How far from its end a call is at each of its steps.                    *)
Rank(s) ==
  IF s = "fast" THEN 9 ELSE IF s = "flock" THEN 8 ELSE IF s = "recheck" THEN 7
  ELSE IF s = "look" THEN 6 ELSE IF s \in {"local", "download"} THEN 5
  ELSE IF s \in {"opening", "fetching"} THEN 4 ELSE IF s \in {"release", "raise"} THEN 3
  ELSE IF s = "encode" THEN 2 ELSE IF s = "encoding" THEN 1 ELSE 0

Onward(t) == Rank(thread'[t].pc) < Rank(thread[t].pc)

(* A call only moves on: a step of its thread ends it, brings it nearer to *)
(* its end or fetches one more of the model's files; no step of another    *)
(* thread or process puts it back or takes a file away.                    *)
CallsMoveOn ==
  [][\A t \in Threads :
       thread[t].pc # "idle" /\ thread'[t].pc # "idle" =>
         /\ Model(t)' = Model(t) /\ disk[Model(t)] \subseteq disk'[Model(t)]
         /\ Onward(t) \/ thread'[t] = thread[t]
         /\ ThreadStep(t) => Onward(t) \/ disk'[Model(t)] # disk[Model(t)]]_vars

LEMMA GotoOnward ==
  ASSUME TypeOK, NEW t \in Threads, NEW s \in Steps, Goto(t, s), Rank(s) < Rank(thread[t].pc)
  PROVE  Onward(t) /\ Model(t)' = Model(t)
BY GotoOnly DEF Onward

(* A step of thread t, of a call that it does not end.                     *)
LEMMA OwnStep ==
  ASSUME TypeOK, NEW t \in Threads, ThreadStep(t),
         thread[t].pc # "idle", thread'[t].pc # "idle"
  PROVE  /\ Model(t)' = Model(t) /\ disk[Model(t)] \subseteq disk'[Model(t)]
         /\ \/ Onward(t)
            \/ thread' = thread /\ disk'[Model(t)] # disk[Model(t)]
<1> USE DEF At
<1>1. ~NextCall(t)
  BY NextCallOnly
<1>2. Ready(t) => Goto(t, "encode")
  BY <1>1 DEF Ready
<1>3. CASE Fetch(t)
  <2>1. Model(t) \in Models /\ disk \in [Models -> SUBSET Files]
    BY InCall DEF TypeOK
  <2>2. PICK f \in Snapshot(Model(t)) \ disk[Model(t)] :
          disk' = [disk EXCEPT ![Model(t)] = @ \cup {f}]
    BY <1>3 DEF Fetch
  <2>3. disk'[Model(t)] = disk[Model(t)] \cup {f}
    BY <2>1, <2>2
  <2>4. thread' = thread /\ Model(t)' = Model(t)
    BY <1>3 DEF Fetch, Model
  <2> QED BY <2>2, <2>3, <2>4
<1>4. CASE ~Fetch(t)
  <2>1. disk' = disk
    BY <1>4, ThreadStepCases
    DEF Ask, Fast, Flock, Recheck, Look, LoadFallback, Load, Open, FetchEnds, LoadRaises,
        Release, Encode, EncodeEnds
  <2>2. \E s \in Steps : Goto(t, s) /\ Rank(s) < Rank(thread[t].pc)
    <3>1. CASE Fast(t)
      BY <1>2, <3>1 DEF Fast, Steps, Rank
    <3>2. CASE Flock(t) \/ Recheck(t)
      BY <3>2 DEF Flock, Recheck, Steps, Rank
    <3>3. CASE Look(t) \/ LoadFallback(t)
      BY <3>3 DEF Look, LoadFallback, Steps, Rank
    <3>4. CASE Load(t)
      BY <3>4 DEF Load, Steps, Rank
    <3>5. CASE Open(t) \/ FetchEnds(t) \/ LoadRaises(t)
      BY <3>5 DEF Open, FetchEnds, LoadRaises, Steps, Rank
    <3>6. CASE Release(t)
      BY <1>1, <1>2, <3>6 DEF Release, Steps, Rank
    <3>7. CASE Encode(t)
      BY <1>1, <3>7 DEF Encode, Steps, Rank
    <3>8. ~EncodeEnds(t) /\ ~Ask(t)
      BY <1>1 DEF EncodeEnds, Ask
    <3> QED BY <1>4, <3>1, <3>2, <3>3, <3>4, <3>5, <3>6, <3>7, <3>8, ThreadStepCases
  <2> QED BY <2>1, <2>2, GotoOnward
<1> QED BY <1>3, <1>4

(* A step of another thread leaves the call of t where it is.              *)
LEMMA OtherStep ==
  ASSUME TypeOK, NEW t \in Threads, NEW u \in Threads \ {t}, ThreadStep(u)
  PROVE  thread'[t] = thread[t] /\ \A m \in Models : disk[m] \subseteq disk'[m]
<1>1. disk' = disk \/ \E f : disk' = [disk EXCEPT ![Model(u)] = @ \cup {f}]
  BY ThreadStepCases
  DEF Ask, Fast, Flock, Recheck, Look, LoadFallback, Load, Open, Fetch, FetchEnds, LoadRaises,
      Release, Encode, EncodeEnds
<1>2. thread' = thread \/ NextCall(u) \/ \E s : Goto(u, s)
  BY ThreadStepCases
  DEF Ask, Fast, Flock, Recheck, Look, LoadFallback, Load, Open, Fetch, FetchEnds, LoadRaises,
      Release, Encode, EncodeEnds, Ready
<1>3. thread'[t] = thread[t]
  BY <1>2 DEF TypeOK, Goto, NextCall
<1>4. \A m \in Models : disk[m] \subseteq disk'[m]
  <2>1. CASE disk' = disk
    BY <2>1
  <2>2. ASSUME NEW f, disk' = [disk EXCEPT ![Model(u)] = @ \cup {f}]
        PROVE  \A m \in Models : disk[m] \subseteq disk'[m]
    <3>1. disk \in [Models -> SUBSET Files]
      BY DEF TypeOK
    <3> HIDE DEF Model
    <3>2. \A m \in Models : disk'[m] = disk[m] \/ disk'[m] = disk[m] \cup {f}
      BY <2>2, <3>1
    <3> QED BY <3>2
  <2> QED BY <1>1, <2>1, <2>2
<1> QED BY <1>3, <1>4

(* Every call of a model takes a bounded number of steps of its thread, at *)
(* most nine and the files of the model, for any processes, threads and    *)
(* faults; with NoCircularWait it is the part of Answered that needs no    *)
(* fairness (vector_tool.py:62-98).                                        *)
THEOREM CallsAreBounded == Spec => CallsMoveOn
<1>1. TypeOK /\ [Next]_vars =>
        [\A t \in Threads :
           thread[t].pc # "idle" /\ thread'[t].pc # "idle" =>
             /\ Model(t)' = Model(t) /\ disk[Model(t)] \subseteq disk'[Model(t)]
             /\ Onward(t) \/ thread'[t] = thread[t]
             /\ ThreadStep(t) => Onward(t) \/ disk'[Model(t)] # disk[Model(t)]]_vars
  <2> SUFFICES ASSUME TypeOK, [Next]_vars, NEW t \in Threads,
                      thread[t].pc # "idle", thread'[t].pc # "idle"
               PROVE  /\ Model(t)' = Model(t) /\ disk[Model(t)] \subseteq disk'[Model(t)]
                      /\ Onward(t) \/ thread'[t] = thread[t]
                      /\ ThreadStep(t) => Onward(t) \/ disk'[Model(t)] # disk[Model(t)]
    OBVIOUS
  <2>1. CASE ThreadStep(t)
    BY <2>1, OwnStep
  <2>2. CASE ~ThreadStep(t)
    <3>1. thread'[t] = thread[t] /\ \A m \in Models : disk[m] \subseteq disk'[m]
      <4>1. ASSUME NEW u \in Threads, ThreadStep(u)
            PROVE  thread'[t] = thread[t] /\ \A m \in Models : disk[m] \subseteq disk'[m]
        BY <2>2, <4>1, OtherStep
      <4>2. ASSUME NEW p \in Processes, Run(p) PROVE thread' = thread /\ disk' = disk
        BY <4>2 DEF Run
      <4>3. ASSUME NEW p \in Processes, Die(p) PROVE thread'[t] = thread[t] /\ disk' = disk
        BY <4>3 DEF Die, Start
      <4> QED BY <4>1, <4>2, <4>3 DEF Next, vars
    <3>2. Model(t)' = Model(t) /\ Model(t) \in Models
      BY <3>1, InCall DEF Model
    <3> QED BY <2>2, <3>1, <3>2
  <2> QED BY <2>1, <2>2
<1> QED BY <1>1, TypeCorrect, PTL DEF Spec, CallsMoveOn
=============================================================================
