----------------------------- MODULE TaskTracker -----------------------------
(***************************************************************************)
(* The task list of the VS Code extension: DefaultTaskTracker over         *)
(* GlobalStateTaskStore, in one window.                                    *)
(*                                                                         *)
(* Everything here runs on one event loop, so what the code does between   *)
(* two awaits is one step; but several loops poll, the user cancels in the *)
(* progress notification and in the status command, and the server moves   *)
(* on, all while a call of the command line is under way.  The server is   *)
(* known by what its repository keeps to of a task record: TaskLifecycle,  *)
(* where a final status may be overwritten.                                *)
(*                                                                         *)
(* External: VS Code's globalState, whose update() is seen by the next     *)
(* get() of the same window; the command line, a call of which ends with   *)
(* the server's answer, an error, or killed by its time-out.               *)
(***************************************************************************)
EXTENDS Naturals

CONSTANTS
  Tasks,
  Watches,      \* calls of submit() and watch(), each with its polling loop
  MaxRounds,    \* the polls that fit into taskMaxWaitMs
  MaxReloads,   \* how often the window is reloaded
  MaxCancels,   \* calls of cancel() for a task that may be under way at a time
  None

ASSUME ConstantsOK ==
  /\ MaxRounds \in Nat \ {0}
  /\ MaxReloads \in Nat /\ MaxCancels \in Nat
  /\ None \notin Tasks

VARIABLES
  server,    \* server[t]: what a read of the server's record would return
  held,      \* held[t]: the statuses the server's record has had
  list,      \* list[t]: the status stored for t under STORE_KEY
  loop,      \* loop[w]: pollUntilTerminal and what awaits it
  offered,   \* the tasks the status command shows for the user to pick
  cancels,   \* cancels[t]: how many calls of cancel(t) are under way
  calledOff, \* the tasks the user has cancelled at some time
  reloads

vars == <<server, held, list, loop, offered, cancels, calledOff, reloads>>

Server == INSTANCE TaskLifecycle WITH status <- server

Terminal == Server!Terminal
Reported == {"queued", "running"} \cup Terminal
Active   == Reported \ Terminal
NoRecord == "none"

(* What a poll comes back with: a status, code UNAVAILABLE, another error. *)
Answers == Reported \cup {"unavailable", "error"}

(* A loop between two rounds, in delay(), with a call under way.           *)
Polling == {"top", "delay", "asked"}
(* The progress notification is there, its cancel button too, until        *)
(* onCompleted has returned.                                               *)
Shown == Polling \cup {"onCompleted"}

(* submitted: by submit(), which has an onCompleted; current, token: the   *)
(* local record's status, isCancellationRequested; round: polls made.      *)
Loop == [pc : {"new", "submit", "done", "gone"} \cup Shown, task : Tasks \cup {None},
         submitted : BOOLEAN, current : Reported, token : BOOLEAN,
         round : 0 .. MaxRounds, answer : Answers \cup {None}]

NewLoop == [pc |-> "new", task |-> None, submitted |-> FALSE, current |-> "queued",
            token |-> FALSE, round |-> 0, answer |-> None]
Gone    == [NewLoop EXCEPT !.pc = "gone"]

TypeOK ==
  /\ Server!TypeOK
  /\ list \in [Tasks -> Reported \cup {NoRecord}]
  /\ loop \in [Watches -> Loop]
  /\ offered \subseteq Tasks
  /\ cancels \in [Tasks -> 0 .. MaxCancels]
  /\ calledOff \subseteq Tasks
  /\ reloads \in 0 .. MaxReloads

Init ==
  /\ Server!Init
  /\ list = [t \in Tasks |-> NoRecord]
  /\ loop = [w \in Watches |-> NewLoop]
  /\ offered = {}
  /\ cancels = [t \in Tasks |-> 0]
  /\ calledOff = {}
  /\ reloads = 0

At(w, pc)     == loop[w].pc = pc
Becomes(w, r) == loop' = [loop EXCEPT ![w] = r]
Goto(w, pc)   == Becomes(w, [loop[w] EXCEPT !.pc = pc])
(* The promise of the handle is settled; what it resolves to is left.      *)
Ends(w, status) ==
  Becomes(w, [NewLoop EXCEPT !.pc = "done", !.task = loop[w].task, !.current = status])

(* GlobalStateTaskStore.upsert; update() takes effect within the call.     *)
Upsert(t, status) == list' = [list EXCEPT ![t] = status]

-----------------------------------------------------------------------------
(* The server's side, as every client sees it; a cancel may also come from *)
(* another client.                                                         *)
ServerMoves ==
  /\ \E t \in Tasks : Server!Update(t) \/ Server!Expire(t)
  /\ UNCHANGED <<list, loop, offered, cancels, calledOff, reloads>>

(* submit(): opts.submit() uploads; the server accepts.                    *)
Submit(w, t) ==
  /\ At(w, "new")
  /\ Server!Create(t)
  /\ Becomes(w, [loop[w] EXCEPT !.pc = "submit", !.task = t, !.submitted = TRUE])
  /\ UNCHANGED <<list, offered, cancels, calledOff, reloads>>

(* The upload was accepted but its answer is lost: submit() rejects.       *)
SubmitFails(w) ==
  /\ At(w, "submit")
  /\ Becomes(w, [NewLoop EXCEPT !.pc = "done"])
  /\ UNCHANGED <<server, held, list, offered, cancels, calledOff, reloads>>

(* The first record of the task is "queued", whatever the server is at.    *)
Submitted(w) ==
  /\ At(w, "submit")
  /\ Upsert(loop[w].task, "queued")
  /\ Goto(w, "top")
  /\ UNCHANGED <<server, held, offered, cancels, calledOff, reloads>>

(* Mutant of Watch: the status of a record that is not there.              *)
WatchStored(w, t) ==
  /\ At(w, "new")
  /\ server[t] # Server!Absent
  /\ Becomes(w, [loop[w] EXCEPT !.pc = "top", !.task = t, !.current = list[t]])
  /\ UNCHANGED <<server, held, list, offered, cancels, calledOff, reloads>>

(* watch(): from the stored record, or a new one that is not yet stored.   *)
Watch(w, t) ==
  /\ At(w, "new")
  /\ server[t] # Server!Absent
  /\ Becomes(w, [loop[w] EXCEPT !.pc = "top", !.task = t,
                   !.current = IF list[t] = NoRecord THEN "queued" ELSE list[t]])
  /\ UNCHANGED <<server, held, list, offered, cancels, calledOff, reloads>>

-----------------------------------------------------------------------------
(* pollUntilTerminal.  The head of the loop: a final status, a cancelled   *)
(* token and a wait that took too long end it, in this order.              *)
Return(w) ==
  /\ At(w, "top")
  /\ loop[w].current \in Terminal
  /\ IF loop[w].submitted /\ loop[w].current = "completed"
       THEN Goto(w, "onCompleted") ELSE Ends(w, loop[w].current)
  /\ UNCHANGED <<server, held, list, offered, cancels, calledOff, reloads>>

(* The record "cancelled" is returned and not stored.                      *)
ReturnCancelled(w) ==
  /\ At(w, "top")
  /\ loop[w].current \in Active /\ loop[w].token
  /\ Ends(w, "cancelled")
  /\ UNCHANGED <<server, held, list, offered, cancels, calledOff, reloads>>

(* Mutant of GiveUp: the task is taken for cancelled.                      *)
GiveUpCancels(w) ==
  /\ At(w, "top")
  /\ loop[w].current \in Active /\ ~loop[w].token
  /\ loop[w].round > 0
  /\ Upsert(loop[w].task, "cancelled")
  /\ Ends(w, loop[w].current)
  /\ UNCHANGED <<server, held, offered, cancels, calledOff, reloads>>

(* Slow calls use up the wait before MaxRounds polls do.                   *)
GiveUp(w) ==
  /\ At(w, "top")
  /\ loop[w].current \in Active /\ ~loop[w].token
  /\ loop[w].round > 0
  /\ Ends(w, loop[w].current)
  /\ UNCHANGED <<server, held, list, offered, cancels, calledOff, reloads>>

Delay(w) ==
  /\ At(w, "top")
  /\ loop[w].current \in Active /\ ~loop[w].token
  /\ loop[w].round < MaxRounds
  /\ Goto(w, "delay")
  /\ UNCHANGED <<server, held, list, offered, cancels, calledOff, reloads>>

(* "task get": the status read at the server, or what goes wrong instead.  *)
Ask(w) ==
  /\ At(w, "delay")
  /\ \E a \in {"unavailable", "error"} \cup ({server[loop[w].task]} \ Server!Missing) :
       Becomes(w, [loop[w] EXCEPT !.pc = "asked", !.round = @ + 1, !.answer = a])
  /\ UNCHANGED <<server, held, list, offered, cancels, calledOff, reloads>>

Answered(w) ==
  /\ At(w, "asked")
  /\ loop[w].answer \in Reported
  /\ Becomes(w, [loop[w] EXCEPT !.pc = "top", !.current = loop[w].answer, !.answer = None])
  /\ Upsert(loop[w].task, loop[w].answer)
  /\ UNCHANGED <<server, held, offered, cancels, calledOff, reloads>>

(* Mutants of Unavailable: the task is listed as queued again; the wait    *)
(* starts anew.                                                            *)
UnavailableQueued(w) ==
  /\ At(w, "asked")
  /\ loop[w].answer = "unavailable"
  /\ Becomes(w, [loop[w] EXCEPT !.pc = "top", !.current = "queued", !.answer = None])
  /\ Upsert(loop[w].task, "queued")
  /\ UNCHANGED <<server, held, offered, cancels, calledOff, reloads>>

UnavailableAnew(w) ==
  /\ At(w, "asked")
  /\ loop[w].answer = "unavailable"
  /\ Becomes(w, [loop[w] EXCEPT !.pc = "top", !.round = 0, !.answer = None])
  /\ UNCHANGED <<server, held, list, offered, cancels, calledOff, reloads>>

(* The next round, after a longer delay.                                   *)
Unavailable(w) ==
  /\ At(w, "asked")
  /\ loop[w].answer = "unavailable"
  /\ Becomes(w, [loop[w] EXCEPT !.pc = "top", !.answer = None])
  /\ UNCHANGED <<server, held, list, offered, cancels, calledOff, reloads>>

(* Mutant of Failed: the failure is returned and not stored.               *)
FailedUnstored(w) ==
  /\ At(w, "asked")
  /\ loop[w].answer = "error"
  /\ Ends(w, "failed")
  /\ UNCHANGED <<server, held, list, offered, cancels, calledOff, reloads>>

(* Any other error of the call, its time-out included, fails the task.     *)
Failed(w) ==
  /\ At(w, "asked")
  /\ loop[w].answer = "error"
  /\ Ends(w, "failed")
  /\ Upsert(loop[w].task, "failed")
  /\ UNCHANGED <<server, held, offered, cancels, calledOff, reloads>>

(* runWatch goes on when onCompleted has returned or raised.               *)
OnCompletedReturns(w) ==
  /\ At(w, "onCompleted")
  /\ Ends(w, "completed")
  /\ UNCHANGED <<server, held, list, offered, cancels, calledOff, reloads>>

-----------------------------------------------------------------------------
(* cancel(t) is called: by the notification of a loop or the status        *)
(* command, which do not wait for each other.                              *)
CancelTask(t) ==
  /\ cancels[t] < MaxCancels
  /\ cancels' = [cancels EXCEPT ![t] = @ + 1]
  /\ calledOff' = calledOff \cup {t}

(* The cancel button of the notification, once.                            *)
Press(w) ==
  /\ loop[w].pc \in Shown /\ ~loop[w].token
  /\ Becomes(w, [loop[w] EXCEPT !.token = TRUE])
  /\ CancelTask(loop[w].task)
  /\ UNCHANGED <<server, held, list, offered, reloads>>

(* The status command shows listActive(), if there is any; a quick pick    *)
(* that is still open is closed.                                           *)
ShowStatus ==
  /\ \E t \in Tasks : list[t] \in Active
  /\ offered' = {t \in Tasks : list[t] \in Active}
  /\ UNCHANGED <<server, held, list, loop, cancels, calledOff, reloads>>

(* A task that was shown is picked, then to be cancelled, whatever became  *)
(* of it meanwhile.                                                        *)
Pick(t) ==
  /\ t \in offered
  /\ offered' = {}
  /\ CancelTask(t)
  /\ UNCHANGED <<server, held, list, loop, reloads>>

(* "task cancel" arrives at the server, whose update_status may find the   *)
(* record moved on since it read "queued".                                 *)
CancelArrives(t) ==
  /\ cancels[t] > 0
  /\ Server!UpdateTo(t, "cancelled")
  /\ UNCHANGED <<list, loop, offered, cancels, calledOff, reloads>>

(* A call has ended, in whatever way: the record, if there is one, is      *)
(* marked cancelled.                                                       *)
Mark(t) ==
  /\ cancels[t] > 0
  /\ IF list[t] = NoRecord THEN UNCHANGED list ELSE Upsert(t, "cancelled")
  /\ cancels' = [cancels EXCEPT ![t] = @ - 1]
  /\ UNCHANGED <<server, held, loop, offered, calledOff, reloads>>

(* The window is reloaded: what was under way is gone, the list is stored; *)
(* activate() calls gc(), which drops final records of more than 24 hours. *)
Reload ==
  /\ reloads < MaxReloads
  /\ reloads' = reloads + 1
  /\ loop' = [w \in Watches |-> IF At(w, "new") THEN NewLoop ELSE Gone]
  /\ offered' = {}
  /\ cancels' = [t \in Tasks |-> 0]
  /\ \E old \in SUBSET {t \in Tasks : list[t] \in Terminal} :
       list' = [t \in Tasks |-> IF t \in old THEN NoRecord ELSE list[t]]
  /\ UNCHANGED <<server, held, calledOff>>

-----------------------------------------------------------------------------
(* What a loop does by itself.                                             *)
Turn(w) ==
  \/ Return(w) \/ ReturnCancelled(w) \/ GiveUp(w) \/ Delay(w)
  \/ Ask(w) \/ Answered(w) \/ Unavailable(w) \/ Failed(w)

Next ==
  \/ ServerMoves
  \/ \E w \in Watches :
       \/ \E t \in Tasks : Submit(w, t) \/ Watch(w, t)
       \/ SubmitFails(w) \/ Submitted(w)
       \/ Turn(w) \/ OnCompletedReturns(w) \/ Press(w)
  \/ ShowStatus
  \/ \E t \in Tasks : Pick(t) \/ CancelArrives(t) \/ Mark(t)
  \/ Reload

Spec == Init /\ [][Next]_vars

(* Timers fire and calls of the command line end, by their time-out at the *)
(* latest; the user and the server need not do anything.                   *)
FairSpec == Spec /\ \A w \in Watches : WF_vars(Turn(w))

-----------------------------------------------------------------------------
(* The list calls a task completed, and its onCompleted runs, only if the  *)
(* server's record was completed once; it calls it cancelled only if that  *)
(* was cancelled or the user of this window asked for it.  The record may  *)
(* say something else by now (redis_repository.py:82-118), and so may the  *)
(* list of a task that is watched again.                                   *)
ListFounded ==
  /\ \A t \in Tasks :
       /\ list[t] = "completed" => "completed" \in held[t]
       /\ list[t] = "cancelled" => t \in calledOff \/ "cancelled" \in held[t]
  /\ \A w \in Watches : At(w, "onCompleted") => "completed" \in held[loop[w].task]

GaveUp(t) == \E w \in Watches : loop[w].task = t /\ At(w, "done") /\ loop[w].current \in Active

(* A task the list calls queued or running is being polled, unless a loop  *)
(* on it waited too long, the user cancelled it (a poll that comes back    *)
(* after that puts the old status back) or the window was reloaded (no     *)
(* line of activate() watches what was stored).                            *)
ActiveIsWatched ==
  \A t \in Tasks :
    list[t] \in Active =>
      \/ \E w \in Watches : loop[w].task = t /\ loop[w].pc \in Polling
      \/ GaveUp(t) \/ t \in calledOff \/ reloads > 0

Sole(t) == \A w, v \in Watches : loop[w].task = t /\ loop[v].task = t => w = v

Rank(s) == IF s = NoRecord THEN 0 ELSE IF s = "queued" THEN 1 ELSE IF s = "running" THEN 2 ELSE 3

(* What the list shows of a task never goes back, and a final status never *)
(* changes, as long as one loop watches the task and nobody cancels it;    *)
(* records that gc() drops apart.                                          *)
ListForward ==
  [][\A t \in Tasks :
       list'[t] \notin {list[t], NoRecord} /\ Sole(t) /\ t \notin calledOff
         => Rank(list[t]) < Rank(list'[t])]_vars

(* Every loop ends, whatever the server answers.                           *)
WatchEnds == \A w \in Watches : loop[w].pc \in Polling ~> loop[w].pc \notin Polling
=============================================================================
