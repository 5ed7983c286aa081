--------------------------- MODULE TaskLifecycle ---------------------------
(***************************************************************************)
(* What the task repository of features/async_task keeps to for a client   *)
(* that polls a task.  An update is a GET, a look at _VALID_TRANSITIONS    *)
(* and a SET, so the edge it takes starts at a status the record has had,  *)
(* not always at the one it has: a final status may be overwritten.  What  *)
(* is left of the life cycle is that a record is created once, "queued",   *)
(* is never "queued" again nor back after its time to live, and is         *)
(* "completed" or "failed" only after it was "running".  TaskQueue is      *)
(* shown to implement this specification; TaskTracker's polls read it.     *)
(***************************************************************************)
CONSTANT Tasks

VARIABLES
  status,    \* status[t]: what a read of task t's record returns
  held       \* held[t]: the statuses the record has had

vars == <<status, held>>

Absent   == "absent"       \* the identifier has not been issued yet
Expired  == "expired"      \* the key outlived its time to live
Missing  == {Absent, Expired}             \* get() returns None
Terminal == {"completed", "failed", "cancelled"}
Written  == {"queued", "running"} \cup Terminal
Statuses == Missing \cup Written

(* _VALID_TRANSITIONS of repository.py, as pairs; the other statuses have  *)
(* no outgoing edge.                                                       *)
Transitions == {<<"queued", "running">>, <<"queued", "cancelled">>,
                <<"running", "completed">>, <<"running", "failed">>}

Init ==
  /\ status = [t \in Tasks |-> Absent]
  /\ held = [t \in Tasks |-> {}]

Write(t, s) ==
  /\ status' = [status EXCEPT ![t] = s]
  /\ held' = [held EXCEPT ![t] = @ \cup {s}]

(* create(): identifiers are fresh uuids, so no record is ever recreated.  *)
Create(t) ==
  /\ status[t] = Absent
  /\ Write(t, "queued")

(* update_status(t, s): an edge to s from the status its GET returned.     *)
UpdateTo(t, s) ==
  /\ status[t] \notin Missing
  /\ \E read \in held[t] : <<read, s>> \in Transitions
  /\ Write(t, s)

Update(t) == \E s \in Written : UpdateTo(t, s)

(* The key's time to live runs out.                                        *)
Expire(t) ==
  /\ status[t] \notin Missing
  /\ status' = [status EXCEPT ![t] = Expired]
  /\ UNCHANGED held

Next == \E t \in Tasks : Create(t) \/ Update(t) \/ Expire(t)

Spec == Init /\ [][Next]_vars

-----------------------------------------------------------------------------
TypeOK ==
  /\ status \in [Tasks -> Statuses]
  /\ held \in [Tasks -> SUBSET Written]

(* What a status tells a client of those before it: a record that is       *)
(* "queued" was never anything else, and one that was completed or failed  *)
(* was running before (repository.py:12).                                  *)
Founded ==
  \A t \in Tasks :
    /\ status[t] \in Written => status[t] \in held[t]
    /\ status[t] = Absent => held[t] = {}
    /\ status[t] = "queued" => held[t] = {"queued"}
    /\ held[t] \cap {"completed", "failed"} # {} => "running" \in held[t]
=============================================================================
