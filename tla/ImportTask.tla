---------------------------- MODULE ImportTask -----------------------------
(***************************************************************************)
(* One import from the upload to the clean-up: import_memory/import_skill  *)
(* save the files into a session directory and submit the task;            *)
(* execute_task selects a parser script, checks it, runs it in the         *)
(* sandbox, stores the result and removes the directory.  The custom       *)
(* parser is a file all imports of a domain share; the WorkspaceSweeper    *)
(* removes directories whose modification time is too old.                 *)
(*                                                                         *)
(* Memory and skill imports follow the same steps.  TaskQueue has the      *)
(* records and the broker in full and ImportStore what storing does; here  *)
(* a message is there or not, and storing succeeds or fails.               *)
(***************************************************************************)
EXTENDS Naturals, FiniteSets

CONSTANTS
  Requests,     \* import requests, and the scripts they bring along
  Uploaded,     \* requests with a parser_script file
  Inline,       \* requests with a script_content in the parser_context
  Workers,      \* pool processes
  KeepFailed,   \* keep_failed_workspace
  MaxFaults,    \* how often a process dies or a message is redelivered
  Default,      \* the pre-registered parser script
  None          \* no script, no request

Own == Uploaded \cup Inline

ASSUME ConstantsOK ==
  /\ Uploaded \subseteq Requests /\ Inline \subseteq Requests
  /\ Default \notin Requests /\ None \notin Requests /\ None # Default
  /\ None \notin {"own", "custom", "default"}
  /\ KeepFailed \in BOOLEAN /\ MaxFaults \in Nat

VARIABLES
  risky,    \* requests whose script ASTGuard refuses
  req,      \* req[r]: how far the API is with request r
  dir,      \* dir[r]: what its session directory holds, {} if there is none
  old,      \* requests whose directory is past the time to live
  doomed,   \* requests whose directory a sweep found expired
  message,  \* requests with a message in the broker
  takes,    \* takes[r]: how many executions of r began
  work,     \* work[w]: the execution in pool process w
  custom,   \* the request whose script is the custom parser, or None
  stored,   \* requests an execution of which was stored
  log,      \* of each stored import: the script that ran, the one recorded
  faults    \* faults so far

taskVars == <<takes, work, custom, stored, log>>
vars == <<risky, req, dir, old, doomed, message, taskVars, faults>>

Scripts == Own \cup {Default, None}

Idle == [pc |-> "idle", req |-> None, source |-> None, ran |-> None, sha |-> None,
         intact |-> FALSE, failed |-> FALSE]

Steps == {"select", "validate", "manifest", "run", "hash", "store", "persist", "cleanup"}

(* source: the script that was selected, a path; ran, sha: the content the *)
(* sandbox and the hash found there; intact: the uploads were safe when    *)
(* the manifest was written.                                               *)
Execution == [pc : {"idle"} \cup Steps, req : Requests \cup {None},
              source : {"own", "custom", "default", None},
              ran : Scripts, sha : Scripts, intact : BOOLEAN, failed : BOOLEAN]

Content == {"uploads", "script", "manifest"}

TypeOK ==
  /\ risky \subseteq Own
  /\ req \in [Requests -> {"new", "saved", "submitting", "failing", "accepted", "over"}]
  /\ dir \in [Requests -> SUBSET Content]
  /\ old \subseteq Requests /\ doomed \subseteq Requests
  /\ message \subseteq Requests
  /\ takes \in [Requests -> Nat]
  /\ work \in [Workers -> Execution]
  /\ custom \in Own \cup {None}
  /\ stored \subseteq Requests
  /\ log \subseteq (Scripts \X Scripts)
  /\ faults \in 0..MaxFaults

Init ==
  /\ risky \in SUBSET Own
  /\ req = [r \in Requests |-> "new"]
  /\ dir = [r \in Requests |-> {}]
  /\ old = {}
  /\ doomed = {}
  /\ message = {}
  /\ takes = [r \in Requests |-> 0]
  /\ work = [w \in Workers |-> Idle]
  /\ custom = None
  /\ stored = {}
  /\ log = {}
  /\ faults = 0

-----------------------------------------------------------------------------
(* The API process.                                                        *)

ReqGoto(r, a, b) == req[r] = a /\ req' = [req EXCEPT ![r] = b]

Remove(r) == dir' = [dir EXCEPT ![r] = {}]

(* save_upload_to_session: the whole upload, or an exception on the way,   *)
(* which leaves the directory as it is.                                    *)
Save(r) ==
  /\ ReqGoto(r, "new", "saved") \/ ReqGoto(r, "new", "over")
  /\ dir' = [dir EXCEPT ![r] = {"uploads"} \cup (IF r \in Uploaded THEN {"script"} ELSE {})]
  /\ UNCHANGED <<risky, old, doomed, message, taskVars, faults>>

(* validate_upload_constraints passes ...                                  *)
Validated(r) ==
  /\ ReqGoto(r, "saved", "submitting")
  /\ UNCHANGED <<risky, dir, old, doomed, message, taskVars, faults>>

(* ... or raises; the finally clause removes the directory.                *)
Rejected(r) ==
  /\ ReqGoto(r, "saved", "over")
  /\ Remove(r)
  /\ UNCHANGED <<risky, old, doomed, message, taskVars, faults>>

(* AsyncTaskService.submit returns.                                        *)
Submit(r) ==
  /\ ReqGoto(r, "submitting", "accepted")
  /\ message' = message \cup {r}
  /\ UNCHANGED <<risky, dir, old, doomed, taskVars, faults>>

(* submit fails, perhaps after the broker took the message; then the       *)
(* record is cancelled, so the message is skipped from then on, and the    *)
(* finally clause removes the directory.                                   *)
SubmitFails(r) ==
  /\ ReqGoto(r, "submitting", "failing")
  /\ message' \in {message, message \cup {r}}
  /\ UNCHANGED <<risky, dir, old, doomed, taskVars, faults>>

Cancelled(r) ==
  /\ ReqGoto(r, "failing", "over")
  /\ Remove(r)
  /\ message' = message \ {r}
  /\ UNCHANGED <<risky, old, doomed, taskVars, faults>>

(* The API process dies during the request.                                *)
ApiDies(r) ==
  /\ ReqGoto(r, "saved", "over") \/ ReqGoto(r, "submitting", "over")
  /\ faults < MaxFaults /\ faults' = faults + 1
  /\ UNCHANGED <<risky, dir, old, doomed, message, taskVars>>

-----------------------------------------------------------------------------
(* execute_task in a pool process.                                         *)

Becomes(w, e) == work' = [work EXCEPT ![w] = e]

Goto(w, s) == Becomes(w, [work[w] EXCEPT !.pc = s])

At(w, s) == work[w].pc = s

(* An exception: on to the finally clause.                                 *)
Fail(w) == Becomes(w, [work[w] EXCEPT !.pc = "cleanup", !.failed = TRUE])

(* The execution begins.                                                   *)
Take(w, r) ==
  /\ At(w, "idle")
  /\ r \in message
  /\ message' = message \ {r}
  /\ takes' = [takes EXCEPT ![r] = @ + 1]
  /\ Becomes(w, [Idle EXCEPT !.pc = "select", !.req = r])
  /\ UNCHANGED <<risky, req, dir, old, doomed, custom, stored, log, faults>>

(* _select_parser_script: the uploaded script, the inline one (written     *)
(* into the directory, which is created if need be), the custom parser if  *)
(* the file is there, the pre-registered one.                              *)
Select(w) ==
  LET r == work[w].req
      from(s) == Becomes(w, [work[w] EXCEPT !.pc = "validate", !.source = s])
  IN
  /\ At(w, "select")
  /\ \/ r \in Uploaded /\ from("own") /\ UNCHANGED <<dir, old>>
     \/ /\ r \in Inline \ Uploaded /\ from("own")
        /\ dir' = [dir EXCEPT ![r] = @ \cup {"script"}]
        /\ old' = IF "script" \in dir[r] THEN old ELSE old \ {r}
     \/ r \notin Own /\ custom # None /\ from("custom") /\ UNCHANGED <<dir, old>>
     \/ r \notin Own /\ custom = None /\ from("default") /\ UNCHANGED <<dir, old>>
  /\ UNCHANGED <<risky, req, doomed, message, takes, custom, stored, log, faults>>

(* What is at the selected path now: nothing once the directory is gone.   *)
Script(w) ==
  IF work[w].source = "default" THEN Default
  ELSE IF work[w].source = "custom" THEN custom
  ELSE IF "script" \in dir[work[w].req] THEN work[w].req ELSE None

(* Mutant of Validate: only the custom parser is checked.                  *)
ValidateCustom(w) ==
  /\ At(w, "validate")
  /\ IF work[w].source = "custom" /\ Script(w) \in risky
     THEN Fail(w) ELSE Goto(w, "manifest")
  /\ UNCHANGED <<risky, req, dir, old, doomed, message, takes, custom, stored, log, faults>>

(* ASTGuard.validate of an own script and of the custom parser.            *)
Validate(w) ==
  /\ At(w, "validate")
  /\ IF work[w].source # "default" /\ (Script(w) = None \/ Script(w) \in risky)
     THEN Fail(w) ELSE Goto(w, "manifest")
  /\ UNCHANGED <<risky, req, dir, old, doomed, message, takes, custom, stored, log, faults>>

(* The uploads are there and no sweep is about to remove them.             *)
Safe(r) == "uploads" \in dir[r] /\ r \notin doomed

(* build_parse_manifest: makedirs, then the manifest; a new entry renews   *)
(* the modification time of the directory.                                 *)
Manifest(w) ==
  LET r == work[w].req IN
  /\ At(w, "manifest")
  /\ dir' = [dir EXCEPT ![r] = @ \cup {"manifest"}]
  /\ old' = IF "manifest" \in dir[r] THEN old ELSE old \ {r}
  /\ Becomes(w, [work[w] EXCEPT !.pc = "run", !.intact = Safe(r)])
  /\ UNCHANGED <<risky, req, doomed, message, takes, custom, stored, log, faults>>

(* Mutant of Run: the custom parser is replaced before the result is in.   *)
RunPersists(w) ==
  /\ At(w, "run")
  /\ Becomes(w, [work[w] EXCEPT !.pc = "hash", !.ran = Script(w)])
  /\ custom' = IF work[w].source = "own" THEN work[w].req ELSE custom
  /\ UNCHANGED <<risky, req, dir, old, doomed, message, takes, stored, log, faults>>

(* run_parse and the check of the result: the parser needs its script and  *)
(* the manifest; without the uploads the pre-registered parsers fail,      *)
(* others may not.                                                         *)
Run(w) ==
  /\ At(w, "run")
  /\ Script(w) # None /\ "manifest" \in dir[work[w].req]
  /\ Script(w) = Default => "uploads" \in dir[work[w].req]
  /\ Becomes(w, [work[w] EXCEPT !.pc = "hash", !.ran = Script(w)])
  /\ UNCHANGED <<risky, req, dir, old, doomed, message, takes, custom, stored, log, faults>>

(* Mutant of Hash: the digest is that of the domain's parser in force.      *)
HashInForce(w) ==
  /\ At(w, "hash")
  /\ Becomes(w, [work[w] EXCEPT !.pc = "store",
                                !.sha = IF custom = None THEN Default ELSE custom])
  /\ UNCHANGED <<risky, req, dir, old, doomed, message, takes, custom, stored, log, faults>>

(* The script is read once more for parser_script_sha256.                  *)
Hash(w) ==
  /\ At(w, "hash")
  /\ IF Script(w) = None THEN Fail(w)
     ELSE Becomes(w, [work[w] EXCEPT !.pc = "store", !.sha = Script(w)])
  /\ UNCHANGED <<risky, req, dir, old, doomed, message, takes, custom, stored, log, faults>>

(* Mutant of Stores: any parser that worked becomes the custom parser.     *)
StoresPersistsAny(w) ==
  /\ At(w, "store")
  /\ stored' = stored \cup {work[w].req}
  /\ log' = log \cup {<<work[w].ran, work[w].sha>>}
  /\ Goto(w, "persist")
  /\ UNCHANGED <<risky, req, dir, old, doomed, message, takes, custom, faults>>

(* StoreMemory.store, StoreSkill.store.                                    *)
Stores(w) ==
  /\ At(w, "store")
  /\ stored' = stored \cup {work[w].req}
  /\ log' = log \cup {<<work[w].ran, work[w].sha>>}
  /\ Goto(w, IF work[w].source = "own" THEN "persist" ELSE "cleanup")
  /\ UNCHANGED <<risky, req, dir, old, doomed, message, takes, custom, faults>>

(* _persist_custom_parser_if_needed: a temporary file, then os.replace.    *)
Persist(w) ==
  /\ At(w, "persist")
  /\ IF Script(w) = None
     THEN Fail(w) /\ UNCHANGED custom
     ELSE custom' = work[w].req /\ Goto(w, "cleanup")
  /\ UNCHANGED <<risky, req, dir, old, doomed, message, takes, stored, log, faults>>

(* The parser fails or times out, a call of store or of persist raises,    *)
(* the soft time limit passes.                                             *)
Raise(w) ==
  /\ work[w].pc \in Steps \ {"cleanup"}
  /\ Fail(w)
  /\ UNCHANGED <<risky, req, dir, old, doomed, message, takes, custom, stored, log, faults>>

(* cleanup_staged_workspace.                                               *)
Cleanup(w) ==
  /\ At(w, "cleanup")
  /\ IF work[w].failed /\ KeepFailed THEN UNCHANGED dir ELSE Remove(work[w].req)
  /\ Becomes(w, Idle)
  /\ UNCHANGED <<risky, req, old, doomed, message, takes, custom, stored, log, faults>>

(* SIGTERM unwinds the execution with SystemExit: the finally clause runs, *)
(* but no except clause sets failed.                                       *)
Terminated(w) ==
  /\ work[w].pc \in Steps \ {"cleanup"}
  /\ faults < MaxFaults /\ faults' = faults + 1
  /\ Goto(w, "cleanup")
  /\ UNCHANGED <<risky, req, dir, old, doomed, message, takes, custom, stored, log>>

(* The node dies, and its message is delivered again; or the message is    *)
(* delivered again under the execution.                                    *)
Dies(w) ==
  /\ ~At(w, "idle")
  /\ faults < MaxFaults /\ faults' = faults + 1
  /\ message' = message \cup {work[w].req}
  /\ Becomes(w, Idle)
  /\ UNCHANGED <<risky, req, dir, old, doomed, takes, custom, stored, log>>

Redeliver(w) ==
  /\ ~At(w, "idle")
  /\ faults < MaxFaults /\ faults' = faults + 1
  /\ message' = message \cup {work[w].req}
  /\ UNCHANGED <<risky, req, dir, old, doomed, taskVars>>

-----------------------------------------------------------------------------
(* Time and the sweeper.                                                   *)

(* The time to live passes for a directory.  No execution and no request   *)
(* lasts that long (sandbox and task timeouts are minutes, workspace_ttl   *)
(* is hours), so it does not while an execution that wrote its manifest    *)
(* into the directory is under way, or the request that fills it.          *)
Renewed(w, r) ==
  work[w].req = r /\ work[w].pc \in {"run", "hash", "store", "persist", "cleanup"}

Age(r) ==
  /\ dir[r] # {} /\ r \notin old
  /\ req[r] \in {"accepted", "over"}
  /\ takes[r] = 1 => \A w \in Workers : ~Renewed(w, r)
  /\ old' = old \cup {r}
  /\ UNCHANGED <<risky, req, dir, doomed, message, taskVars, faults>>

(* Mutant of Expired: only directories with a manifest are workspaces.     *)
ExpiredManifests(r) == r \in old /\ "manifest" \in dir[r]

(* Mutant of Expired: the comparison with the cutoff the wrong way round.  *)
ExpiredYoung(r) == dir[r] # {} /\ r \notin old

(* All a sweep looks at is the modification time of the directory.         *)
Expired(r) == dir[r] # {} /\ r \in old

(* sweep_expired_task_workspaces, for one directory: first stat ...        *)
Inspect(r) ==
  /\ Expired(r) /\ r \notin doomed
  /\ doomed' = doomed \cup {r}
  /\ UNCHANGED <<risky, req, dir, old, message, taskVars, faults>>

(* ... then rmtree, of whatever is there by now.                           *)
Sweep(r) ==
  /\ r \in doomed
  /\ Remove(r)
  /\ old' = old \ {r}
  /\ doomed' = doomed \ {r}
  /\ UNCHANGED <<risky, req, message, taskVars, faults>>

-----------------------------------------------------------------------------
ApiStep(r) ==
  Validated(r) \/ Rejected(r) \/ Submit(r) \/ SubmitFails(r) \/ Cancelled(r)

WorkerStep(w) ==
  \/ Select(w) \/ Validate(w) \/ Manifest(w) \/ Run(w) \/ Hash(w)
  \/ Stores(w) \/ Persist(w) \/ Raise(w) \/ Cleanup(w)

Fault ==
  \/ \E r \in Requests : ApiDies(r)
  \/ \E w \in Workers : Terminated(w) \/ Dies(w) \/ Redeliver(w)

Next ==
  \/ \E r \in Requests : Save(r) \/ ApiStep(r) \/ Age(r) \/ Inspect(r) \/ Sweep(r)
  \/ \E w \in Workers : WorkerStep(w) \/ \E r \in Requests : Take(w, r)
  \/ Fault

Spec == Init /\ [][Next]_vars

(* The API finishes the requests it began, the pool takes messages and     *)
(* finishes what it took, time passes, and the sweeper thread wakes up     *)
(* every sweep_interval_seconds (workspace_ttl_hours > 0).                 *)
Fairness ==
  /\ \A r \in Requests : WF_vars(ApiStep(r)) /\ WF_vars(Age(r))
  /\ \A r \in Requests : WF_vars(Inspect(r)) /\ WF_vars(Sweep(r))
  /\ \A w \in Workers : WF_vars(WorkerStep(w))
  /\ WF_vars(\E w \in Workers, r \in Requests : Take(w, r))

FairSpec == Spec /\ Fairness

-----------------------------------------------------------------------------
(* The custom parser is a script ASTGuard accepted and whose own import    *)
(* was stored, through concurrent imports, crashes and repeated            *)
(* executions: "a failed upload must not replace the custom parser"        *)
(* (memory_upload_service.py:139-143).                                     *)
OnlyProven == custom # None => custom \in stored \ risky

(* "Custom parser and uploaded scripts must pass ASTGuard before they run" *)
(* (design 03, section 3.2), although the custom parser may be replaced    *)
(* between the check and the run (memory_upload_service.py:65-90).         *)
RunsOnlyValidated == \A w \in Workers : work[w].ran \notin risky

(* An accepted request that is delivered once, and whose directory no      *)
(* sweep had found expired when the manifest was written, keeps its        *)
(* uploads to its end: neither the API, nor another import, nor a sweep    *)
(* takes them away, because the manifest renews the directory              *)
(* (memory_upload_api.py:120-123, store_memory.py:131-133, 241-257).       *)
UploadsStay ==
  \A w \in Workers :
    LET r == work[w].req IN
    /\ work[w].pc \in {"run", "hash", "store", "persist", "cleanup"}
    /\ work[w].intact /\ takes[r] = 1 /\ req[r] = "accepted"
    => "uploads" \in dir[r]

(* Whatever fails or dies and whatever is kept for inspection, no session  *)
(* directory stays for ever (workspace_sweeper.py:68-83); under FairSpec.  *)
NoLeak == \A r \in Requests : dir[r] # {} ~> dir[r] = {}

(* The recorded parser_script_sha256 is the digest of the script that made *)
(* the chunks (design 03, section 3.2), although the path is read a second *)
(* time for it, unless the import ran the custom parser and another import *)
(* replaced it in between (memory_upload_service.py:111-121, 303): then    *)
(* both are scripts the guard accepted and whose own import was stored.    *)
RecordedUnlessReplaced ==
  \A e \in log : e[1] = e[2] \/ {e[1], e[2]} \subseteq stored \ risky
=============================================================================
