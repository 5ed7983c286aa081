-------------------------- MODULE TaskTrackerProofs --------------------------
(***************************************************************************)
(* Theorems about TaskTracker, for any tasks and loops, any length of the  *)
(* wait and any number of reloads.                                         *)
(***************************************************************************)
EXTENDS TaskTracker, TLAPS

USE ConstantsOK DEF ConstantsOK

(* A loop that does something has a task, and waits for a poll only if     *)
(* there is time for it.                                                   *)
TiedLoop(r) ==
  /\ r.pc \in Shown \cup {"submit"} => r.task \in Tasks
  /\ r.pc = "delay" => r.round < MaxRounds

Tied == \A w \in Watches : TiedLoop(loop[w])

LEMMA BecomesLoop ==
  ASSUME TypeOK, Tied, NEW w \in Watches, NEW r \in Loop, Becomes(w, r), TiedLoop(r)
  PROVE  /\ loop' \in [Watches -> Loop] /\ Tied'
         /\ loop'[w] = r
         /\ \A v \in Watches \ {w} : loop'[v] = loop[v]
BY DEF TypeOK, Tied, Becomes

LEMMA NewLoopType == NewLoop \in Loop /\ Gone \in Loop /\ TiedLoop(NewLoop) /\ TiedLoop(Gone)
<1>1. 0 \in 0 .. MaxRounds /\ "queued" \in Reported
  BY DEF Reported
<1>2. NewLoop \in Loop
  BY <1>1 DEF NewLoop, Loop
<1>3. Gone \in Loop /\ Gone.pc = "gone" /\ NewLoop.pc = "new"
  BY <1>2 DEF Gone, NewLoop, Loop
<1> QED BY <1>2, <1>3 DEF TiedLoop, Shown, Polling

(* Ends leaves nothing but the task and what the promise resolves to.      *)
LEMMA EndsLoop ==
  ASSUME TypeOK, Tied, NEW w \in Watches, NEW s \in Reported, Ends(w, s)
  PROVE  /\ loop' \in [Watches -> Loop] /\ Tied'
         /\ loop'[w].pc = "done" /\ loop'[w].task = loop[w].task /\ loop'[w].current = s
         /\ ~loop'[w].token
         /\ \A v \in Watches \ {w} : loop'[v] = loop[v]
<1> DEFINE r == [NewLoop EXCEPT !.pc = "done", !.task = loop[w].task, !.current = s]
<1>1. loop[w].task \in Tasks \cup {None}
  BY DEF TypeOK, Loop
<1>2. /\ r \in Loop /\ r.pc = "done" /\ r.task = loop[w].task /\ r.current = s /\ ~r.token
  BY <1>1, NewLoopType DEF NewLoop, Loop
<1>3. TiedLoop(r)
  BY <1>2 DEF TiedLoop, Shown, Polling
<1> QED BY <1>2, <1>3, BecomesLoop DEF Ends

(* Goto changes the place in the loop alone.                               *)
LEMMA GotoLoop ==
  ASSUME TypeOK, Tied, NEW w \in Watches, loop[w].task \in Tasks,
         NEW pc \in Shown, Goto(w, pc), pc = "delay" => loop[w].round < MaxRounds
  PROVE  /\ loop' \in [Watches -> Loop] /\ Tied'
         /\ loop'[w] = [loop[w] EXCEPT !.pc = pc]
         /\ loop'[w].pc = pc /\ loop'[w].task = loop[w].task
         /\ loop'[w].current = loop[w].current /\ loop'[w].answer = loop[w].answer
         /\ loop'[w].token = loop[w].token
         /\ \A v \in Watches \ {w} : loop'[v] = loop[v]
<1> DEFINE r == [loop[w] EXCEPT !.pc = pc]
<1>1. loop[w] \in Loop
  BY DEF TypeOK
<1>2. /\ r \in Loop /\ r.pc = pc /\ r.task = loop[w].task
      /\ r.current = loop[w].current /\ r.answer = loop[w].answer /\ r.token = loop[w].token
  BY <1>1 DEF Loop
<1>3. TiedLoop(r)
  BY <1>1, <1>2 DEF TiedLoop, Loop
<1> QED BY <1>2, <1>3, BecomesLoop DEF Goto

LEMMA ServerNames ==
  /\ Server!Written = {"queued", "running", "completed", "failed", "cancelled"}
  /\ Server!Written = Reported
  /\ Server!Statuses = Reported \cup {"absent", "expired"}
  /\ Server!Missing = {"absent", "expired"}
  /\ Server!Absent = "absent" /\ Server!Expired = "expired"
BY DEF Server!Written, Server!Statuses, Server!Missing, Server!Absent, Server!Expired,
       Server!Terminal, Reported, Terminal

(* What a step does to the server's records is what TaskLifecycle allows.  *)
LEMMA ServerStep == ASSUME TypeOK, [Next]_vars PROVE [Server!Next]_<<server, held>>
<1>1. ASSUME NEW u \in Tasks, Server!Update(u) \/ Server!Expire(u) PROVE Server!Next
  BY <1>1 DEF Server!Next
<1>2. ASSUME NEW u \in Tasks, Server!Create(u) PROVE Server!Next
  BY <1>2 DEF Server!Next
<1>3. ASSUME NEW c \in Tasks, CancelArrives(c) PROVE [Server!Next]_<<server, held>>
  <2>1. Server!UpdateTo(c, "cancelled")
    BY <1>3 DEF CancelArrives
  <2> QED
    BY <2>1, ServerNames DEF Server!Next, Server!Update
<1> QED
  BY <1>1, <1>2, <1>3
     DEF Next, vars, ServerMoves, Submit, SubmitFails, Submitted, Watch, Turn, Return,
         ReturnCancelled, GiveUp, Delay, Ask, Answered, Unavailable, Failed,
         OnCompletedReturns, Press, ShowStatus, Pick, Mark, Reload

(* A record keeps its history, and nothing makes it absent again.          *)
LEMMA ServerKeeps ==
  ASSUME TypeOK, [Next]_vars
  PROVE  /\ Server!TypeOK'
         /\ \A t \in Tasks : held[t] \subseteq held'[t]
         /\ \A t \in Tasks : server[t] # Server!Absent => server'[t] # Server!Absent
<1> USE ServerNames DEF TypeOK, Server!TypeOK
<1>1. ASSUME NEW u \in Tasks, NEW s \in Server!Written, Server!Write(u, s)
      PROVE  /\ Server!TypeOK'
             /\ \A t \in Tasks : held[t] \subseteq held'[t]
             /\ \A t \in Tasks : server[t] # Server!Absent => server'[t] # Server!Absent
  BY <1>1 DEF Server!Write
<1>2. ASSUME NEW u \in Tasks, Server!Create(u) \/ Server!Update(u)
      PROVE  \E s \in Server!Written : Server!Write(u, s)
  BY <1>2 DEF Server!Create, Server!Update, Server!UpdateTo
<1>3. ASSUME NEW u \in Tasks, Server!Expire(u)
      PROVE  /\ Server!TypeOK'
             /\ \A t \in Tasks : held[t] \subseteq held'[t]
             /\ \A t \in Tasks : server[t] # Server!Absent => server'[t] # Server!Absent
  BY <1>3 DEF Server!Expire
<1>4. CASE UNCHANGED <<server, held>>
  BY <1>4
<1> HIDE DEF TypeOK, Server!TypeOK
<1> QED
  BY <1>1, <1>2, <1>3, <1>4, ServerStep DEF Server!Next

(* A "queued" record was never anything else, and what it says it has had  *)
(* (TaskLifecycle).                                                        *)
LEMMA FoundedStep ==
  ASSUME TypeOK, Server!Founded, [Next]_vars
  PROVE  Server!Founded'
<1> USE ServerNames DEF TypeOK, Server!TypeOK, Server!Founded
<1>1. ASSUME NEW u \in Tasks, Server!Create(u) PROVE Server!Founded'
  BY <1>1 DEF Server!Create, Server!Write
<1>2. ASSUME NEW u \in Tasks, NEW s \in Server!Written, Server!UpdateTo(u, s) PROVE Server!Founded'
  <2>1. PICK read \in held[u] : <<read, s>> \in Server!Transitions
    BY <1>2 DEF Server!UpdateTo
  <2>2. s # "queued" /\ (s \in {"completed", "failed"} => read = "running")
    BY <2>1 DEF Server!Transitions
  <2> QED
    BY <1>2, <2>1, <2>2 DEF Server!UpdateTo, Server!Write
<1>3. ASSUME NEW u \in Tasks, Server!Expire(u) PROVE Server!Founded'
  BY <1>3 DEF Server!Expire
<1>4. CASE UNCHANGED <<server, held>>
  BY <1>4
<1> HIDE DEF TypeOK, Server!TypeOK, Server!Founded
<1> QED
  BY <1>1, <1>2, <1>3, <1>4, ServerStep DEF Server!Next, Server!Update

-----------------------------------------------------------------------------
LEMMA TypeInit == Init => TypeOK /\ Tied
BY NewLoopType, ServerNames DEF Init, Server!Init, TypeOK, Tied, Server!TypeOK

(* A poll begins, and comes back.                                          *)
LEMMA AskLoop ==
  ASSUME TypeOK, Tied, NEW w \in Watches, Ask(w)
  PROVE  /\ loop' \in [Watches -> Loop] /\ Tied'
         /\ loop'[w].pc = "asked" /\ loop'[w].task = loop[w].task
         /\ loop'[w].current = loop[w].current /\ loop'[w].token = loop[w].token
         /\ \/ loop'[w].answer \in {"unavailable", "error"}
            \/ /\ loop'[w].answer \in Reported
               /\ loop'[w].answer = server[loop[w].task]
         /\ \A v \in Watches \ {w} : loop'[v] = loop[v]
<1>1. loop[w] \in Loop /\ loop[w].pc = "delay" /\ loop[w].task \in Tasks
      /\ loop[w].round < MaxRounds
  BY DEF TypeOK, Tied, TiedLoop, Ask, At, Shown, Polling
<1>2. PICK a \in {"unavailable", "error"} \cup ({server[loop[w].task]} \ Server!Missing) :
        Becomes(w, [loop[w] EXCEPT !.pc = "asked", !.round = @ + 1, !.answer = a])
  BY DEF Ask
<1> DEFINE r == [loop[w] EXCEPT !.pc = "asked", !.round = @ + 1, !.answer = a]
<1>3. /\ a \in Answers
      /\ \/ a \in {"unavailable", "error"}
         \/ a \in Reported /\ a = server[loop[w].task]
  <2>1. server[loop[w].task] \in Server!Statuses
    BY <1>1 DEF TypeOK, Server!TypeOK
  <2>2. server[loop[w].task] \notin Server!Missing => server[loop[w].task] \in Reported
    BY <2>1, ServerNames
  <2>3. CASE a \in {"unavailable", "error"}
    BY <2>3 DEF Answers
  <2>4. CASE a \in {server[loop[w].task]} \ Server!Missing
    BY <2>2, <2>4 DEF Answers
  <2> QED BY <1>2, <2>3, <2>4
<1>4. loop[w].round + 1 \in 0 .. MaxRounds
  BY <1>1 DEF Loop
<1>5. /\ r \in Loop /\ r.pc = "asked" /\ r.task = loop[w].task
      /\ r.current = loop[w].current /\ r.answer = a /\ r.token = loop[w].token
  BY <1>1, <1>3, <1>4 DEF Loop, Shown, Polling
<1>6. TiedLoop(r)
  BY <1>1, <1>5 DEF TiedLoop
<1> HIDE DEF r
<1>7. Becomes(w, r)
  BY <1>2 DEF r
<1> QED BY <1>3, <1>5, <1>6, <1>7, BecomesLoop

LEMMA BackLoop ==
  ASSUME TypeOK, Tied, NEW w \in Watches, loop[w].task \in Tasks, Answered(w) \/ Unavailable(w)
  PROVE  /\ loop' \in [Watches -> Loop] /\ Tied'
         /\ loop'[w].pc = "top" /\ loop'[w].task = loop[w].task /\ loop'[w].answer = None
         /\ loop'[w].token = loop[w].token
         /\ Answered(w) => loop'[w].current = loop[w].answer
         /\ Unavailable(w) => loop'[w].current = loop[w].current
         /\ \A v \in Watches \ {w} : loop'[v] = loop[v]
<1>1. loop[w] \in Loop
  BY DEF TypeOK
<1>2. "unavailable" \notin Reported
  BY DEF Reported, Terminal, Server!Terminal
<1>3. CASE Answered(w)
  <2> DEFINE r == [loop[w] EXCEPT !.pc = "top", !.current = loop[w].answer, !.answer = None]
  <2>1. /\ r \in Loop /\ r.pc = "top" /\ r.task = loop[w].task /\ r.answer = None
        /\ r.current = loop[w].answer /\ r.token = loop[w].token
    BY <1>1, <1>3 DEF Answered, Loop, Shown, Polling
  <2>2. TiedLoop(r)
    BY <2>1 DEF TiedLoop
  <2> HIDE DEF r
  <2>3. Becomes(w, r) /\ ~Unavailable(w)
    BY <1>2, <1>3 DEF r, Answered, Unavailable
  <2> QED BY <2>1, <2>2, <2>3, BecomesLoop
<1>4. CASE Unavailable(w)
  <2> DEFINE r == [loop[w] EXCEPT !.pc = "top", !.answer = None]
  <2>1. /\ r \in Loop /\ r.pc = "top" /\ r.task = loop[w].task /\ r.answer = None
        /\ r.current = loop[w].current /\ r.token = loop[w].token
    BY <1>1 DEF Loop, Shown, Polling
  <2>2. TiedLoop(r)
    BY <2>1 DEF TiedLoop
  <2> HIDE DEF r
  <2>3. Becomes(w, r) /\ ~Answered(w)
    BY <1>2, <1>4 DEF r, Answered, Unavailable
  <2> QED BY <2>1, <2>2, <2>3, BecomesLoop
<1> QED BY <1>3, <1>4

(* Of the list and of a loop, a step of which is of its own task.          *)
LEMMA TypeTurn ==
  ASSUME TypeOK, Tied, NEW w \in Watches, Turn(w)
  PROVE  list' \in [Tasks -> Reported \cup {NoRecord}] /\ loop' \in [Watches -> Loop] /\ Tied'
<1> USE DEF At
<1>1. loop[w] \in Loop /\ list \in [Tasks -> Reported \cup {NoRecord}]
  BY DEF TypeOK
<1>2. loop[w].task \in Tasks
  BY DEF Tied, TiedLoop, Turn, Return, ReturnCancelled, GiveUp, Delay, Ask, Answered, Unavailable, Failed,
         Shown, Polling
<1>3. Polling \subseteq Shown /\ {"cancelled", "failed"} \subseteq Reported /\ Terminal \subseteq Reported
      /\ Active \subseteq Reported
  BY DEF Shown, Reported, Terminal, Active, Server!Terminal
<1>4. CASE Return(w)
  <2>1. Goto(w, "onCompleted") \/ Ends(w, loop[w].current)
    BY <1>4 DEF Return
  <2> QED BY <1>1, <1>2, <1>3, <1>4, <2>1, GotoLoop, EndsLoop DEF Return, Shown
<1>5. CASE ReturnCancelled(w)
  BY <1>1, <1>3, <1>5, EndsLoop DEF ReturnCancelled
<1>6. CASE GiveUp(w)
  BY <1>1, <1>3, <1>6, EndsLoop DEF GiveUp
<1>7. CASE Delay(w)
  BY <1>1, <1>2, <1>7, GotoLoop DEF Delay, Shown, Polling
<1>8. CASE Ask(w)
  BY <1>1, <1>2, <1>8, AskLoop DEF Ask
<1>9. CASE Answered(w)
  BY <1>1, <1>2, <1>9, BackLoop DEF Answered, Upsert
<1>10. CASE Unavailable(w)
  BY <1>1, <1>2, <1>10, BackLoop DEF Unavailable
<1>11. CASE Failed(w)
  BY <1>1, <1>3, <1>11, EndsLoop DEF Failed, Upsert
<1> QED BY <1>4, <1>5, <1>6, <1>7, <1>8, <1>9, <1>10, <1>11 DEF Turn

LEMMA TypeStep == TypeOK /\ Tied /\ [Next]_vars => TypeOK' /\ Tied'
<1> SUFFICES ASSUME TypeOK, Tied, [Next]_vars PROVE TypeOK' /\ Tied'
  OBVIOUS
<1> USE DEF At
<1>1. Server!TypeOK'
  BY ServerKeeps
<1>2. /\ list \in [Tasks -> Reported \cup {NoRecord}] /\ cancels \in [Tasks -> 0 .. MaxCancels]
      /\ calledOff \subseteq Tasks /\ reloads \in 0 .. MaxReloads /\ offered \subseteq Tasks
      /\ loop \in [Watches -> Loop]
  BY DEF TypeOK
<1>3. Active \subseteq Reported /\ {"queued", "cancelled"} \subseteq Reported
  BY DEF Reported, Active, Terminal, Server!Terminal
<1>4. CASE ServerMoves
  BY <1>1, <1>2, <1>4 DEF TypeOK, Tied, ServerMoves
<1>5. ASSUME NEW w \in Watches, NEW t \in Tasks, Submit(w, t) PROVE TypeOK' /\ Tied'
  <2> DEFINE r == [loop[w] EXCEPT !.pc = "submit", !.task = t, !.submitted = TRUE]
  <2>1. r \in Loop /\ r.pc = "submit" /\ r.task = t
    BY <1>2 DEF Loop
  <2>2. TiedLoop(r)
    BY <2>1 DEF TiedLoop
  <2>3. loop' \in [Watches -> Loop] /\ Tied'
    BY <1>5, <2>1, <2>2, BecomesLoop DEF Submit
  <2> QED BY <1>1, <1>2, <1>5, <2>3 DEF TypeOK, Submit
<1>6. ASSUME NEW w \in Watches, NEW t \in Tasks, Watch(w, t) PROVE TypeOK' /\ Tied'
  <2> DEFINE r == [loop[w] EXCEPT !.pc = "top", !.task = t,
                     !.current = IF list[t] = NoRecord THEN "queued" ELSE list[t]]
  <2>1. r \in Loop /\ r.pc = "top" /\ r.task = t
    BY <1>2, <1>3 DEF Loop, Shown, Polling
  <2>2. TiedLoop(r)
    BY <2>1 DEF TiedLoop
  <2>3. loop' \in [Watches -> Loop] /\ Tied'
    BY <1>6, <2>1, <2>2, BecomesLoop DEF Watch
  <2> QED BY <1>1, <1>2, <1>6, <2>3 DEF TypeOK, Watch
<1>7. ASSUME NEW w \in Watches, SubmitFails(w) PROVE TypeOK' /\ Tied'
  <2> DEFINE r == [NewLoop EXCEPT !.pc = "done"]
  <2>1. r \in Loop /\ r.pc = "done"
    BY NewLoopType DEF Loop, NewLoop
  <2>2. TiedLoop(r)
    BY <2>1 DEF TiedLoop, Shown, Polling
  <2>3. loop' \in [Watches -> Loop] /\ Tied'
    BY <1>7, <2>1, <2>2, BecomesLoop DEF SubmitFails
  <2> QED BY <1>1, <1>2, <1>7, <2>3 DEF TypeOK, SubmitFails
<1>8. ASSUME NEW w \in Watches, Submitted(w) PROVE TypeOK' /\ Tied'
  <2>1. loop[w].task \in Tasks
    BY <1>8 DEF Tied, TiedLoop, Submitted
  <2>2. loop' \in [Watches -> Loop] /\ Tied'
    BY <1>8, <2>1, GotoLoop DEF Submitted, Shown, Polling
  <2> QED BY <1>1, <1>2, <1>3, <1>8, <2>2 DEF TypeOK, Submitted, Upsert
<1>9. ASSUME NEW w \in Watches, Turn(w) PROVE TypeOK' /\ Tied'
  <2>1. UNCHANGED <<offered, cancels, calledOff, reloads>>
    BY <1>9 DEF Turn, Return, ReturnCancelled, GiveUp, Delay, Ask, Answered, Unavailable, Failed
  <2> QED BY <1>1, <1>2, <1>9, <2>1, TypeTurn DEF TypeOK
<1>10. ASSUME NEW w \in Watches, OnCompletedReturns(w) PROVE TypeOK' /\ Tied'
  <2>1. "completed" \in Reported
    BY DEF Reported, Terminal, Server!Terminal
  <2>2. loop' \in [Watches -> Loop] /\ Tied'
    BY <1>10, <2>1, EndsLoop DEF OnCompletedReturns
  <2> QED BY <1>1, <1>2, <1>10, <2>2 DEF TypeOK, OnCompletedReturns
<1>11. ASSUME NEW w \in Watches, Press(w) PROVE TypeOK' /\ Tied'
  <2> DEFINE r == [loop[w] EXCEPT !.token = TRUE]
  <2>1. r \in Loop /\ TiedLoop(r) /\ loop[w].task \in Tasks
    BY <1>2, <1>11 DEF Loop, Press, Tied, TiedLoop
  <2>2. loop' \in [Watches -> Loop] /\ Tied'
    BY <1>11, <2>1, BecomesLoop DEF Press
  <2> QED BY <1>1, <1>2, <1>11, <2>1, <2>2 DEF TypeOK, Press, CancelTask
<1>12. ASSUME NEW t \in Tasks, Pick(t) PROVE TypeOK' /\ Tied'
  BY <1>1, <1>2, <1>12 DEF TypeOK, Tied, Pick, CancelTask
<1>17. CASE ShowStatus
  BY <1>1, <1>2, <1>17 DEF TypeOK, Tied, ShowStatus
<1>13. ASSUME NEW c \in Tasks, CancelArrives(c) PROVE TypeOK' /\ Tied'
  BY <1>1, <1>2, <1>13 DEF TypeOK, Tied, CancelArrives
<1>14. ASSUME NEW c \in Tasks, Mark(c) PROVE TypeOK' /\ Tied'
  BY <1>1, <1>2, <1>3, <1>14 DEF TypeOK, Tied, Mark, Upsert
<1>15. CASE Reload
  <2>1. loop' \in [Watches -> Loop] /\ \A w \in Watches : loop'[w] \in {NewLoop, Gone}
    BY <1>2, <1>15, NewLoopType DEF Reload
  <2>2. Tied'
    BY <2>1, NewLoopType DEF Tied
  <2>3. list' \in [Tasks -> Reported \cup {NoRecord}]
    BY <1>2, <1>15 DEF Reload
  <2>4. reloads' \in 0 .. MaxReloads /\ cancels' \in [Tasks -> 0 .. MaxCancels]
    BY <1>2, <1>15 DEF Reload
  <2> QED BY <1>1, <1>2, <1>15, <2>1, <2>2, <2>3, <2>4 DEF TypeOK, Reload
<1>16. CASE UNCHANGED vars
  BY <1>1, <1>16 DEF TypeOK, Tied, vars
<1> QED
  BY <1>4, <1>5, <1>6, <1>7, <1>8, <1>9, <1>10, <1>11, <1>12, <1>13, <1>14, <1>15, <1>16,
     <1>17 DEF Next

(* Every variable keeps its type.                                          *)
THEOREM TypeCorrect == Spec => []TypeOK
BY TypeInit, TypeStep, PTL DEF Spec

-----------------------------------------------------------------------------
(* What the extension has been told of a task, or shows of it, the         *)
(* server's record has been.                                               *)
Vouched(s, t) ==
  /\ s \in {"running", "completed"} => s \in held[t]
  /\ s = "cancelled" => t \in calledOff \/ s \in held[t]

KnownLoop(w) ==
  LET r == loop[w] IN
  /\ r.pc \in {"new", "submit"} => r.current = "queued" /\ ~r.token
  /\ r.pc = "new" => r.task = None
  /\ r.token => r.task \in calledOff
  /\ r.task \in Tasks => server[r.task] # Server!Absent
  /\ r.pc \in Shown => Vouched(r.current, r.task)
  /\ r.pc \in {"delay", "asked"} => r.current \in Active
  /\ r.pc = "asked" /\ r.answer \in Reported =>
       Vouched(r.answer, r.task) /\ (r.current = "running" => r.answer # "queued")
  /\ r.pc = "onCompleted" => r.current = "completed"

KnownInv ==
  /\ Server!Founded
  /\ \A t \in Tasks : Vouched(list[t], t)
  /\ \A t \in Tasks : server[t] = Server!Absent => list[t] = NoRecord
  /\ \A w \in Watches : KnownLoop(w)
  /\ \A c \in Tasks : cancels[c] > 0 => c \in calledOff

LEMMA KnownInit == Init => KnownInv
BY ServerNames
   DEF Init, Server!Init, Server!Founded, KnownInv, Vouched, KnownLoop, NewLoop, NoRecord, Shown,
       Polling

LEMMA CalledOffGrows == ASSUME [Next]_vars PROVE calledOff \subseteq calledOff'
BY DEF Next, vars, ServerMoves, Submit, SubmitFails, Submitted, Watch, Turn, Return,
       ReturnCancelled, GiveUp, Delay, Ask, Answered, Unavailable, Failed,
       OnCompletedReturns, Press, ShowStatus, Pick, CancelTask, CancelArrives, Mark, Reload

LEMMA StaysVouched ==
  ASSUME TypeOK, [Next]_vars, NEW t \in Tasks
  PROVE  /\ \A s \in Reported \cup {NoRecord} : Vouched(s, t) => Vouched(s, t)'
         /\ server[t] # Server!Absent => server'[t] # Server!Absent
<1>1. /\ held[t] \subseteq held'[t] /\ calledOff \subseteq calledOff'
      /\ server[t] # Server!Absent => server'[t] # Server!Absent
  BY ServerKeeps, CalledOffGrows
<1> QED BY <1>1 DEF Vouched

(* What a step leaves alone stays true.                                    *)
LEMMA KnownElsewhere ==
  ASSUME TypeOK, Tied, KnownInv, [Next]_vars
  PROVE  /\ \A v \in Watches : loop'[v] = loop[v] => KnownLoop(v)'
         /\ \A t \in Tasks : list'[t] = list[t] =>
              Vouched(list[t], t)' /\ (server'[t] = Server!Absent => list'[t] = NoRecord)
<1>1. ASSUME NEW v \in Watches, loop'[v] = loop[v] PROVE KnownLoop(v)'
  <2>1. loop[v] \in Loop /\ KnownLoop(v) /\ TiedLoop(loop[v])
    BY DEF TypeOK, KnownInv, Tied
  <2>2. CASE loop[v].task \in Tasks
    <3>1. loop[v].current \in Reported
      BY <2>1 DEF Loop
    <3>2. /\ Vouched(loop[v].current, loop[v].task) => Vouched(loop[v].current, loop[v].task)'
          /\ loop[v].answer \in Reported =>
               (Vouched(loop[v].answer, loop[v].task) => Vouched(loop[v].answer, loop[v].task)')
          /\ server[loop[v].task] # Server!Absent => server'[loop[v].task] # Server!Absent
      BY <1>1, <2>2, <3>1, StaysVouched DEF Vouched
    <3> QED BY <1>1, <2>1, <2>2, <3>2, CalledOffGrows DEF KnownLoop
  <2>3. CASE loop[v].task \notin Tasks
    BY <1>1, <2>1, <2>3, CalledOffGrows DEF KnownLoop, TiedLoop, Shown, Polling
  <2> QED BY <2>2, <2>3
<1>2. ASSUME NEW t \in Tasks, list'[t] = list[t]
      PROVE  Vouched(list[t], t)' /\ (server'[t] = Server!Absent => list'[t] = NoRecord)
  BY <1>2, StaysVouched DEF TypeOK, KnownInv, Vouched
<1> QED BY <1>1, <1>2

(* A loop polls on or ends: what it knows, and what it writes.             *)
LEMMA KnownTurn ==
  ASSUME TypeOK, Tied, KnownInv, NEW w \in Watches, Turn(w)
  PROVE  /\ KnownLoop(w)' /\ \A v \in Watches \ {w} : loop'[v] = loop[v]
         /\ list' = list \/ \E s \in Reported : list' = [list EXCEPT ![loop[w].task] = s] /\ Vouched(s, loop[w].task)
<1> USE DEF At
<1>1. /\ loop[w] \in Loop /\ KnownLoop(w) /\ loop[w].task \in Tasks
      /\ UNCHANGED <<server, held, calledOff>>
  BY DEF TypeOK, KnownInv, Tied, TiedLoop, Turn, Return, ReturnCancelled, GiveUp, Delay, Ask,
         Answered, Unavailable, Failed, Shown, Polling
<1>2. /\ Terminal \subseteq Reported /\ Active \subseteq Reported
      /\ {"cancelled", "failed"} \subseteq Reported
  BY DEF Reported, Terminal, Active, Server!Terminal
<1>3. loop[w].pc \in Shown /\ server[loop[w].task] # Server!Absent /\ Vouched(loop[w].current, loop[w].task)
  BY <1>1 DEF KnownLoop, Turn, Return, ReturnCancelled, GiveUp, Delay, Ask,
         Answered, Unavailable, Failed, Shown, Polling
<1>4. ASSUME NEW s \in Reported, Ends(w, s)
      PROVE  KnownLoop(w)' /\ \A v \in Watches \ {w} : loop'[v] = loop[v]
  BY <1>1, <1>3, <1>4, EndsLoop DEF KnownLoop, Shown, Polling
<1>5. CASE Return(w)
  <2>1. CASE Goto(w, "onCompleted") /\ loop[w].current = "completed"
    <3>1. /\ loop'[w].pc = "onCompleted" /\ loop'[w].task = loop[w].task
          /\ loop'[w].current = loop[w].current /\ loop'[w].token = loop[w].token
          /\ \A v \in Watches \ {w} : loop'[v] = loop[v]
      BY <1>1, <2>1, GotoLoop DEF Shown
    <3> QED BY <1>1, <1>3, <1>5, <2>1, <3>1 DEF KnownLoop, Vouched, Return
  <2>2. CASE Ends(w, loop[w].current)
    BY <1>1, <1>4, <1>5, <2>2 DEF Return, Loop
  <2> QED BY <1>5, <2>1, <2>2 DEF Return
<1>6. CASE ReturnCancelled(w)
  BY <1>2, <1>4, <1>6 DEF ReturnCancelled
<1>7. CASE GiveUp(w)
  BY <1>1, <1>4, <1>7 DEF GiveUp, Loop
<1>8. CASE Delay(w)
  <2>1. /\ loop'[w].pc = "delay" /\ loop'[w].task = loop[w].task
        /\ loop'[w].current = loop[w].current /\ loop'[w].token = loop[w].token
        /\ \A v \in Watches \ {w} : loop'[v] = loop[v]
    BY <1>1, <1>8, GotoLoop DEF Delay, Shown, Polling
  <2> QED BY <1>1, <1>3, <1>8, <2>1 DEF KnownLoop, Vouched, Delay
<1>9. CASE Ask(w)
  <2>1. loop[w].current \in Active
    BY <1>1, <1>9 DEF KnownLoop, Ask
  <2>2. server[loop[w].task] \in Reported => Vouched(server[loop[w].task], loop[w].task)
    BY <1>1, ServerNames DEF KnownInv, Server!Founded, Vouched
  <2>3. loop[w].current = "running" => server[loop[w].task] # "queued"
    BY <1>1, <1>3 DEF KnownInv, Server!Founded, Vouched
  <2>4. "unavailable" \notin Reported /\ "error" \notin Reported
    BY DEF Reported, Terminal, Server!Terminal
  <2> QED BY <1>1, <1>3, <1>9, <2>1, <2>2, <2>3, <2>4, AskLoop DEF KnownLoop, Vouched, Ask
<1>10. CASE Answered(w)
  <2>1. Vouched(loop[w].answer, loop[w].task) /\ loop[w].answer \in Reported
    BY <1>1, <1>10 DEF KnownLoop, Answered
  <2>2. list' = [list EXCEPT ![loop[w].task] = loop[w].answer]
    BY <1>10 DEF Answered, Upsert
  <2> QED BY <1>1, <1>3, <1>10, <2>1, <2>2, BackLoop DEF KnownLoop, Vouched
<1>11. CASE Unavailable(w)
  <2>1. list' = list
    BY <1>11 DEF Unavailable
  <2> QED BY <1>1, <1>3, <1>11, <2>1, BackLoop DEF KnownLoop, Vouched
<1>12. CASE Failed(w)
  <2>1. Vouched("failed", loop[w].task) /\ list' = [list EXCEPT ![loop[w].task] = "failed"]
    BY <1>12 DEF Vouched, Failed, Upsert
  <2> QED BY <1>2, <1>4, <1>12, <2>1 DEF Failed
<1> QED BY <1>5, <1>6, <1>7, <1>8, <1>9, <1>10, <1>11, <1>12 DEF Turn

LEMMA KnownStep == TypeOK /\ Tied /\ KnownInv /\ [Next]_vars => KnownInv'
<1> SUFFICES ASSUME TypeOK, Tied, KnownInv, [Next]_vars PROVE KnownInv'
  OBVIOUS
<1> USE DEF At
<1>1. /\ list \in [Tasks -> Reported \cup {NoRecord}] /\ loop \in [Watches -> Loop]
      /\ cancels \in [Tasks -> 0 .. MaxCancels] /\ calledOff \subseteq calledOff'
  BY CalledOffGrows DEF TypeOK
<1>0. Server!Founded'
  BY FoundedStep DEF KnownInv
<1> USE <1>0
<1> DEFINE ListKnown == \A t \in Tasks : Vouched(list[t], t) /\ (server[t] = Server!Absent => list[t] = NoRecord)
           CancelsKnown == \A c \in Tasks : cancels[c] > 0 => c \in calledOff
<1>2. list' = list => ListKnown'
  BY KnownElsewhere
<1>3. ASSUME NEW t \in Tasks, NEW s \in Reported, list' = [list EXCEPT ![t] = s],
             Vouched(s, t), server[t] # Server!Absent
      PROVE  ListKnown'
  BY <1>1, <1>3, StaysVouched, KnownElsewhere
<1>4. cancels' = cancels => CancelsKnown'
  BY <1>1 DEF KnownInv
<1>5. loop' = loop => (\A v \in Watches : KnownLoop(v))'
  BY KnownElsewhere
<1>6. ASSUME NEW w \in Watches, KnownLoop(w)', \A v \in Watches \ {w} : loop'[v] = loop[v]
      PROVE  (\A v \in Watches : KnownLoop(v))'
  BY <1>6, KnownElsewhere
<1>7. CASE ServerMoves \/ UNCHANGED vars
  BY <1>2, <1>4, <1>5, <1>7 DEF ServerMoves, vars, KnownInv
<1>8. ASSUME NEW w \in Watches, NEW t \in Tasks, Submit(w, t) PROVE KnownInv'
  <2>1. server'[t] = "queued"
    BY <1>8 DEF Submit, Server!Create, Server!Write, TypeOK, Server!TypeOK
  <2>2. /\ loop'[w].pc = "submit" /\ loop'[w].task = t /\ loop'[w].current = loop[w].current
        /\ loop'[w].token = loop[w].token
        /\ \A v \in Watches \ {w} : loop'[v] = loop[v]
    BY <1>1, <1>8 DEF Submit, Becomes, Loop
  <2>3. loop[w].current = "queued" /\ ~loop[w].token
    BY <1>8 DEF Submit, KnownInv, KnownLoop
  <2>4. KnownLoop(w)'
    BY <2>1, <2>2, <2>3 DEF KnownLoop, Shown, Polling, Server!Absent
  <2> QED BY <1>2, <1>4, <1>6, <1>8, <2>2, <2>4 DEF Submit, KnownInv
<1>9. ASSUME NEW w \in Watches, NEW t \in Tasks, Watch(w, t) PROVE KnownInv'
  <2>1. /\ loop'[w].pc = "top" /\ loop'[w].task = t
        /\ loop'[w].current = IF list[t] = NoRecord THEN "queued" ELSE list[t]
        /\ loop'[w].token = loop[w].token
        /\ \A v \in Watches \ {w} : loop'[v] = loop[v]
    BY <1>1, <1>9 DEF Watch, Becomes, Loop
  <2>2. UNCHANGED <<server, held, list, cancels, calledOff>> /\ Vouched(list[t], t) /\ server[t] # Server!Absent
        /\ ~loop[w].token
    BY <1>9 DEF Watch, KnownInv, KnownLoop
  <2>3. KnownLoop(w)'
    BY <2>1, <2>2 DEF KnownLoop, Vouched
  <2> QED BY <1>2, <1>4, <1>6, <2>1, <2>2, <2>3 DEF KnownInv
<1>10. ASSUME NEW w \in Watches, SubmitFails(w) PROVE KnownInv'
  <2>1. /\ loop'[w].pc = "done" /\ loop'[w].task = None /\ ~loop'[w].token
        /\ \A v \in Watches \ {w} : loop'[v] = loop[v]
    BY <1>1, <1>10 DEF SubmitFails, Becomes, NewLoop
  <2>2. KnownLoop(w)'
    BY <2>1 DEF KnownLoop, Shown, Polling
  <2> QED BY <1>2, <1>4, <1>6, <1>10, <2>1, <2>2 DEF SubmitFails, KnownInv
<1>11. ASSUME NEW w \in Watches, Submitted(w) PROVE KnownInv'
  <2>1. loop[w].task \in Tasks /\ server[loop[w].task] # Server!Absent /\ UNCHANGED <<server, held, calledOff, cancels>>
    BY <1>11 DEF Submitted, KnownInv, KnownLoop, Tied, TiedLoop
  <2>2. /\ loop'[w].pc = "top" /\ loop'[w].task = loop[w].task /\ loop'[w].current = loop[w].current
        /\ loop'[w].token = loop[w].token
        /\ \A v \in Watches \ {w} : loop'[v] = loop[v]
    BY <1>11, <2>1, GotoLoop DEF Submitted, Shown, Polling
  <2>3. list' = [list EXCEPT ![loop[w].task] = "queued"] /\ "queued" \in Reported
    BY <1>11 DEF Submitted, Upsert, Reported
  <2>4. loop[w].current = "queued" /\ ~loop[w].token
    BY <1>11 DEF Submitted, KnownInv, KnownLoop
  <2>5. KnownLoop(w)' /\ Vouched("queued", loop[w].task)
    BY <2>1, <2>2, <2>4 DEF KnownLoop, Vouched
  <2> QED BY <1>3, <1>4, <1>6, <2>1, <2>2, <2>3, <2>5 DEF KnownInv
<1>12. ASSUME NEW w \in Watches, Turn(w) PROVE KnownInv'
  <2>1. /\ UNCHANGED <<server, held, cancels, calledOff>>
        /\ loop[w].task \in Tasks /\ server[loop[w].task] # Server!Absent
    BY <1>12 DEF KnownInv, KnownLoop, Tied, TiedLoop, Turn, Return, ReturnCancelled, GiveUp, Delay, Ask,
         Answered, Unavailable, Failed, Shown, Polling
  <2>2. ListKnown'
    BY <1>2, <1>3, <1>12, <2>1, KnownTurn
  <2> QED BY <1>4, <1>6, <1>12, <2>1, <2>2, KnownTurn DEF KnownInv
<1>13. ASSUME NEW w \in Watches, OnCompletedReturns(w) PROVE KnownInv'
  <2>1. "completed" \in Reported /\ UNCHANGED <<server, held, list, cancels, calledOff>>
    BY <1>13 DEF Reported, Terminal, Server!Terminal, OnCompletedReturns
  <2>2. /\ loop'[w].pc = "done" /\ loop'[w].task = loop[w].task
        /\ ~loop'[w].token
        /\ \A v \in Watches \ {w} : loop'[v] = loop[v]
    BY <1>13, <2>1, EndsLoop DEF OnCompletedReturns
  <2>3. KnownLoop(w)'
    BY <2>1, <2>2 DEF KnownInv, KnownLoop, Shown, Polling
  <2> QED BY <1>2, <1>4, <1>6, <2>1, <2>2, <2>3 DEF KnownInv
<1>14. ASSUME NEW w \in Watches, Press(w) PROVE KnownInv'
  <2>1. /\ loop'[w] = [loop[w] EXCEPT !.token = TRUE]
        /\ \A v \in Watches \ {w} : loop'[v] = loop[v]
        /\ loop[w] \in Loop
    BY <1>1, <1>14 DEF Press, Becomes
  <2>2. /\ loop'[w].pc = loop[w].pc /\ loop'[w].task = loop[w].task
        /\ loop'[w].current = loop[w].current /\ loop'[w].answer = loop[w].answer
    BY <2>1 DEF Loop
  <2>3. KnownLoop(w) /\ UNCHANGED <<server, held, list>> /\ calledOff' = calledOff \cup {loop[w].task}
        /\ loop[w].pc \in Shown
    BY <1>14 DEF Press, CancelTask, KnownInv
  <2>4. KnownLoop(w)'
    BY <2>2, <2>3 DEF KnownLoop, Vouched, Shown, Polling
  <2>5. CancelsKnown'
    BY <1>1, <1>14 DEF Press, CancelTask, KnownInv
  <2> QED BY <1>2, <1>6, <2>1, <2>3, <2>4, <2>5 DEF KnownInv
<1>19. CASE ShowStatus
  BY <1>2, <1>4, <1>5, <1>19 DEF ShowStatus, KnownInv
<1>15. ASSUME NEW t \in Tasks, Pick(t) PROVE KnownInv'
  <2>1. CancelsKnown'
    BY <1>1, <1>15 DEF Pick, CancelTask, KnownInv
  <2> QED BY <1>2, <1>5, <1>15, <2>1 DEF Pick, KnownInv
<1>16. ASSUME NEW c \in Tasks, CancelArrives(c) PROVE KnownInv'
  BY <1>2, <1>4, <1>5, <1>16 DEF CancelArrives, KnownInv
<1>17. ASSUME NEW c \in Tasks, Mark(c) PROVE KnownInv'
  <2>1. /\ c \in calledOff
        /\ UNCHANGED <<server, held, loop, calledOff>>
    BY <1>1, <1>17 DEF Mark, KnownInv
  <2>2. CancelsKnown'
    BY <1>1, <1>17 DEF Mark, KnownInv
  <2>3. CASE list[c] = NoRecord
    BY <1>2, <1>5, <1>17, <2>1, <2>2, <2>3 DEF Mark, KnownInv
  <2>4. CASE list[c] # NoRecord
    <3>1. list' = [list EXCEPT ![c] = "cancelled"] /\ "cancelled" \in Reported
      BY <1>17, <2>4 DEF Mark, Upsert, Reported, Terminal, Server!Terminal
    <3>2. Vouched("cancelled", c) /\ server[c] # Server!Absent
      BY <2>1, <2>4 DEF Vouched, KnownInv
    <3> QED BY <1>3, <1>5, <2>1, <2>2, <3>1, <3>2 DEF KnownInv
  <2> QED BY <2>3, <2>4
<1>18. CASE Reload
  <2>1. \A v \in Watches : loop'[v] \in {NewLoop, Gone} /\ KnownLoop(v)'
    <3> SUFFICES ASSUME NEW v \in Watches PROVE loop'[v] \in {NewLoop, Gone} /\ KnownLoop(v)'
      OBVIOUS
    <3>1. loop'[v] \in {NewLoop, Gone}
      BY <1>18 DEF Reload
    <3>2. /\ NewLoop.task = None /\ NewLoop.pc = "new" /\ NewLoop.current = "queued"
          /\ Gone.task = None /\ Gone.pc = "gone" /\ ~NewLoop.token /\ ~Gone.token
      BY DEF NewLoop, Gone
    <3> QED BY <3>1, <3>2 DEF KnownLoop, Shown, Polling
  <2>2. ListKnown'
    <3> SUFFICES ASSUME NEW t \in Tasks
                 PROVE  Vouched(list[t], t)' /\ (server[t] = Server!Absent => list[t] = NoRecord)'
      OBVIOUS
    <3>1. CASE list'[t] = list[t]
      BY <3>1, KnownElsewhere
    <3>2. CASE list'[t] = NoRecord
      BY <3>2 DEF Vouched, NoRecord
    <3> QED BY <1>1, <1>18, <3>1, <3>2 DEF Reload
  <2>3. CancelsKnown'
    BY <1>18 DEF Reload
  <2> QED BY <2>1, <2>2, <2>3 DEF KnownInv
<1> QED
  BY <1>7, <1>8, <1>9, <1>10, <1>11, <1>12, <1>13, <1>14, <1>15, <1>16, <1>17, <1>18,
     <1>19 DEF Next

(* What the list calls completed, or tells the user of, was completed at   *)
(* the server; cancelled is what was cancelled there or by the user.  It   *)
(* holds although the server overwrites final statuses: two polls, a       *)
(* cancel and a lost record leave nothing in the list that was not so.     *)
THEOREM ListIsFounded == Spec => []ListFounded
<1>1. TypeOK /\ Tied /\ KnownInv => ListFounded
  BY DEF KnownInv, KnownLoop, Vouched, ListFounded, Tied, TiedLoop, Shown, At
<1> QED BY <1>1, TypeInit, TypeStep, KnownInit, KnownStep, PTL DEF Spec

-----------------------------------------------------------------------------
(* The loop that watches a listed active task still takes it for active.   *)
WatchInv ==
  \A t \in Tasks :
    list[t] \in Active =>
      \/ \E w \in Watches : /\ loop[w].task = t /\ loop[w].pc \in Polling
                            /\ loop[w].current \in Active
      \/ GaveUp(t) \/ t \in calledOff \/ reloads > 0

LEMMA WatchInit == Init => WatchInv
BY DEF Init, WatchInv, NoRecord, Active, Reported, Terminal, Server!Terminal

LEMMA WatchStep == TypeOK /\ Tied /\ KnownInv /\ WatchInv /\ [Next]_vars => WatchInv'
<1> SUFFICES ASSUME TypeOK, Tied, KnownInv, WatchInv, [Next]_vars, NEW t \in Tasks,
                    list'[t] \in Active, t \notin calledOff', ~(reloads' > 0)
             PROVE  \/ \E w \in Watches : /\ loop'[w].task = t /\ loop'[w].pc \in Polling
                                           /\ loop'[w].current \in Active
                    \/ GaveUp(t)'
  BY DEF WatchInv
<1> USE DEF At
<1> DEFINE Fine(w) == /\ loop[w].task = t /\ loop[w].current \in Active
                      /\ loop[w].pc \in Polling \cup {"done"}
<1>1. ASSUME NEW w \in Watches, Fine(w)'
      PROVE  \/ \E v \in Watches : /\ loop'[v].task = t /\ loop'[v].pc \in Polling
                                    /\ loop'[v].current \in Active
             \/ GaveUp(t)'
  BY <1>1 DEF GaveUp
<1>2. list[t] \in Active /\ t \notin calledOff /\ ~(reloads > 0) => \E w \in Watches : Fine(w)
  BY DEF WatchInv, GaveUp
<1>3. /\ t \notin calledOff /\ reloads \in Nat /\ loop \in [Watches -> Loop]
      /\ list \in [Tasks -> Reported \cup {NoRecord}]
  BY CalledOffGrows DEF TypeOK
<1>4. /\ "failed" \notin Active /\ "cancelled" \notin Active /\ NoRecord \notin Active
      /\ Active \cap Terminal = {} /\ "queued" \in Active
  BY DEF Active, Reported, Terminal, Server!Terminal, NoRecord
<1>5. ASSUME list'[t] = list[t], loop' = loop, reloads' = reloads
      PROVE  \E w \in Watches : Fine(w)'
  BY <1>2, <1>3, <1>5
<1>6. ASSUME NEW w \in Watches, loop[w].pc \in {"new", "submit", "onCompleted"},
             list'[t] = list[t], reloads' = reloads, \A v \in Watches \ {w} : loop'[v] = loop[v]
      PROVE  \E v \in Watches : Fine(v)'
  <2>1. PICK v \in Watches : Fine(v)
    BY <1>2, <1>3, <1>6
  <2>2. v # w
    BY <1>6, <2>1 DEF Polling
  <2> QED BY <1>6, <2>1, <2>2
<1>7. CASE ServerMoves \/ UNCHANGED vars
  BY <1>1, <1>5, <1>7 DEF ServerMoves, vars
<1>8. ASSUME NEW w \in Watches, NEW u \in Tasks, Submit(w, u) \/ Watch(w, u)
      PROVE  \E v \in Watches : Fine(v)'
  BY <1>3, <1>6, <1>8 DEF Submit, Watch, Becomes
<1>9. ASSUME NEW w \in Watches, SubmitFails(w) PROVE \E v \in Watches : Fine(v)'
  BY <1>3, <1>6, <1>9 DEF SubmitFails, Becomes
<1>10. ASSUME NEW w \in Watches, Submitted(w) PROVE \E v \in Watches : Fine(v)'
  <2>1. loop[w].task \in Tasks /\ loop[w].current = "queued" /\ reloads' = reloads
    BY <1>10 DEF Submitted, KnownInv, KnownLoop, Tied, TiedLoop
  <2>2. /\ loop'[w].pc = "top" /\ loop'[w].task = loop[w].task /\ loop'[w].current = "queued"
        /\ \A v \in Watches \ {w} : loop'[v] = loop[v]
    BY <1>10, <2>1, GotoLoop DEF Submitted, Shown, Polling
  <2>3. CASE loop[w].task = t
    BY <1>4, <2>2, <2>3 DEF Polling
  <2>4. CASE loop[w].task # t
    BY <1>3, <1>6, <1>10, <2>1, <2>2, <2>4 DEF Submitted, Upsert
  <2> QED BY <2>3, <2>4
<1>11. ASSUME NEW w \in Watches, Turn(w) PROVE \E v \in Watches : Fine(v)'
  <2>1. /\ loop[w].task \in Tasks /\ loop[w].pc \in Polling /\ reloads' = reloads
        /\ loop[w] \in Loop /\ KnownLoop(w)
    BY <1>3, <1>11 DEF KnownInv, Tied, TiedLoop, Turn, Return, ReturnCancelled, GiveUp, Delay, Ask,
         Answered, Unavailable, Failed, Shown, Polling
  <2>2. \A v \in Watches \ {w} : loop'[v] = loop[v]
    BY <1>11, KnownTurn
  <2>3. ASSUME list'[t] = list[t], Fine(w) => Fine(w)'
        PROVE  \E v \in Watches : Fine(v)'
    BY <1>2, <1>3, <2>1, <2>2, <2>3
  <2>4. CASE Return(w)
    BY <1>4, <2>3, <2>4 DEF Return
  <2>5. CASE ReturnCancelled(w)
    BY <1>3, <2>1, <2>3, <2>5 DEF ReturnCancelled, KnownLoop
  <2>6. CASE GiveUp(w)
    <3>1. loop'[w].pc = "done" /\ loop'[w].task = loop[w].task /\ loop'[w].current = loop[w].current
      BY <2>1, <2>6, EndsLoop DEF GiveUp, Loop
    <3> QED BY <2>3, <2>6, <3>1 DEF GiveUp
  <2>7. CASE Delay(w)
    <3>1. loop'[w].pc = "delay" /\ loop'[w].task = loop[w].task /\ loop'[w].current = loop[w].current
      BY <2>1, <2>7, GotoLoop DEF Delay, Shown, Polling
    <3> QED BY <2>3, <2>7, <3>1 DEF Delay, Polling
  <2>8. CASE Ask(w)
    BY <2>3, <2>8, AskLoop DEF Ask, Polling
  <2>9. CASE Answered(w)
    <3>1. loop'[w].pc = "top" /\ loop'[w].task = loop[w].task /\ loop'[w].current = loop[w].answer
      BY <2>1, <2>9, BackLoop
    <3>2. list' = [list EXCEPT ![loop[w].task] = loop[w].answer]
      BY <2>9 DEF Answered, Upsert
    <3>3. CASE loop[w].task = t
      BY <1>3, <3>1, <3>2, <3>3 DEF Polling
    <3>4. CASE loop[w].task # t
      BY <1>3, <2>3, <3>2, <3>4
    <3> QED BY <3>3, <3>4
  <2>10. CASE Unavailable(w)
    BY <2>1, <2>3, <2>10, BackLoop DEF Unavailable, Polling
  <2>11. CASE Failed(w)
    <3>1. list' = [list EXCEPT ![loop[w].task] = "failed"]
      BY <2>11 DEF Failed, Upsert
    <3>2. loop[w].task # t
      BY <1>3, <1>4, <3>1
    <3> QED BY <1>3, <2>3, <3>1, <3>2
  <2> QED BY <1>11, <2>4, <2>5, <2>6, <2>7, <2>8, <2>9, <2>10, <2>11 DEF Turn
<1>12. ASSUME NEW w \in Watches, OnCompletedReturns(w) PROVE \E v \in Watches : Fine(v)'
  <2>1. \A v \in Watches \ {w} : loop'[v] = loop[v]
    BY <1>3, <1>12 DEF OnCompletedReturns, Ends, Becomes
  <2> QED BY <1>6, <1>12, <2>1 DEF OnCompletedReturns
<1>13. ASSUME NEW w \in Watches, Press(w) PROVE \E v \in Watches : Fine(v)'
  <2>1. \A v \in Watches : /\ loop'[v].pc = loop[v].pc /\ loop'[v].task = loop[v].task
                            /\ loop'[v].current = loop[v].current
    BY <1>3, <1>13 DEF Press, Becomes, Loop
  <2> QED BY <1>2, <1>3, <1>13, <2>1 DEF Press
<1>14. CASE ShowStatus \/ \E c \in Tasks : Pick(c)
  BY <1>1, <1>5, <1>14 DEF ShowStatus, Pick
<1>15. ASSUME NEW c \in Tasks, CancelArrives(c) \/ Mark(c) PROVE \E v \in Watches : Fine(v)'
  <2>1. list'[t] = list[t]
    BY <1>3, <1>4, <1>15 DEF CancelArrives, Mark, Upsert
  <2> QED BY <1>5, <1>15, <2>1 DEF CancelArrives, Mark
<1>16. CASE Reload
  BY <1>3, <1>16 DEF Reload
<1> QED
  BY <1>1, <1>7, <1>8, <1>9, <1>10, <1>11, <1>12, <1>13, <1>14, <1>15, <1>16 DEF Next

(* A task the list calls active is watched, given up, cancelled, or left   *)
(* by a reload.                                                            *)
THEOREM ActiveWatched == Spec => []ActiveIsWatched
<1>1. WatchInv => ActiveIsWatched
  BY DEF WatchInv, ActiveIsWatched
<1> QED BY <1>1, TypeInit, TypeStep, KnownInit, KnownStep, WatchInit, WatchStep, PTL DEF Spec

-----------------------------------------------------------------------------
(* As long as no other loop has written the task's record, it is what the  *)
(* loop knows; before a submitted task has a loop it is not listed.        *)
Alone(w) ==
  \A v \in Watches : loop[v].task = loop[w].task /\ v # w => loop[v].pc = "submit"

ForwardLoop(w) ==
  LET t == loop[w].task IN
  Alone(w) =>
    /\ loop[w].pc = "submit" => list[t] = NoRecord
    /\ loop[w].pc \in Polling /\ t \notin calledOff =>
         list[t] = loop[w].current \/ (list[t] = NoRecord /\ loop[w].current = "queued")

ForwardInv == \A w \in Watches : ForwardLoop(w)

LEMMA ForwardInit == Init => ForwardInv
BY DEF Init, ForwardInv, ForwardLoop, NewLoop, Polling

(* Loops of other tasks, and those that have a competitor, do not matter.  *)
LEMMA ForwardElsewhere ==
  ASSUME TypeOK, Tied, KnownInv, ForwardInv, [Next]_vars,
         NEW w \in Watches, \A v \in Watches \ {w} : loop'[v] = loop[v],
         loop[w].pc # "submit" /\ loop[w].task # None => loop'[w].pc # "submit" /\ loop'[w].task = loop[w].task,
         \A t \in Tasks : list'[t] # list[t] => loop[w].task = t /\ loop'[w].task = t /\ loop'[w].pc # "submit",
         NEW v \in Watches \ {w}
  PROVE  ForwardLoop(v)'
<1>1. loop'[v] = loop[v] /\ ForwardLoop(v) /\ calledOff \subseteq calledOff'
  BY CalledOffGrows DEF ForwardInv
<1>2. CASE loop[v].pc \notin Shown \cup {"submit"}
  BY <1>1, <1>2 DEF ForwardLoop, Shown
<1>3. CASE loop[v].pc \in Shown \cup {"submit"}
  <2>1. loop[v].task \in Tasks
    BY <1>3 DEF Tied, TiedLoop
  <2>2. Alone(v)' => Alone(v)
    BY <1>1, <2>1 DEF Alone
  <2>3. Alone(v)' => list'[loop[v].task] = list[loop[v].task]
    BY <1>1, <2>1 DEF Alone
  <2> QED BY <1>1, <2>2, <2>3 DEF ForwardLoop
<1> QED BY <1>2, <1>3

LEMMA ForwardStep == TypeOK /\ Tied /\ KnownInv /\ ForwardInv /\ [Next]_vars => ForwardInv'
<1> SUFFICES ASSUME TypeOK, Tied, KnownInv, ForwardInv, [Next]_vars PROVE ForwardInv'
  OBVIOUS
<1> USE DEF At
<1>1. /\ list \in [Tasks -> Reported \cup {NoRecord}] /\ loop \in [Watches -> Loop]
      /\ calledOff \subseteq calledOff'
  BY CalledOffGrows DEF TypeOK
<1>2. ASSUME loop' = loop, list' = list PROVE ForwardInv'
  BY <1>1, <1>2 DEF ForwardInv, ForwardLoop, Alone
<1>3. CASE ServerMoves \/ UNCHANGED vars
  BY <1>2, <1>3 DEF ServerMoves, vars
<1>4. ASSUME NEW w \in Watches, NEW t \in Tasks, Submit(w, t) PROVE ForwardInv'
  <2>1. /\ loop'[w].pc = "submit" /\ loop'[w].task = t
        /\ \A v \in Watches \ {w} : loop'[v] = loop[v]
    BY <1>1, <1>4 DEF Submit, Becomes, Loop
  <2>2. list' = list /\ list[t] = NoRecord /\ loop[w].task = None
    BY <1>4 DEF Submit, Server!Create, KnownInv, KnownLoop
  <2>3. ForwardLoop(w)'
    BY <2>1, <2>2 DEF ForwardLoop, Polling
  <2> QED BY <2>1, <2>2, <2>3, ForwardElsewhere DEF ForwardInv
<1>5. ASSUME NEW w \in Watches, NEW t \in Tasks, Watch(w, t) PROVE ForwardInv'
  <2>1. /\ loop'[w].pc = "top" /\ loop'[w].task = t
        /\ loop'[w].current = IF list[t] = NoRecord THEN "queued" ELSE list[t]
        /\ \A v \in Watches \ {w} : loop'[v] = loop[v]
    BY <1>1, <1>5 DEF Watch, Becomes, Loop
  <2>2. list' = list /\ loop[w].task = None
    BY <1>5 DEF Watch, KnownInv, KnownLoop
  <2>3. ForwardLoop(w)'
    BY <2>1, <2>2 DEF ForwardLoop
  <2> QED BY <2>1, <2>2, <2>3, ForwardElsewhere DEF ForwardInv
<1>6. ASSUME NEW w \in Watches, SubmitFails(w) PROVE ForwardInv'
  <2>1. /\ loop'[w].pc = "done" /\ list' = list /\ loop[w].pc = "submit"
        /\ \A v \in Watches \ {w} : loop'[v] = loop[v]
    BY <1>1, <1>6 DEF SubmitFails, Becomes, NewLoop
  <2>2. ForwardLoop(w)'
    BY <2>1 DEF ForwardLoop, Polling
  <2> QED BY <2>1, <2>2, ForwardElsewhere DEF ForwardInv
<1>7. ASSUME NEW w \in Watches, Submitted(w) PROVE ForwardInv'
  <2>1. loop[w].task \in Tasks /\ loop[w].current = "queued"
    BY <1>7 DEF Submitted, KnownInv, KnownLoop, Tied, TiedLoop
  <2>2. /\ loop'[w].pc = "top" /\ loop'[w].task = loop[w].task /\ loop'[w].current = "queued"
        /\ \A v \in Watches \ {w} : loop'[v] = loop[v]
    BY <1>7, <2>1, GotoLoop DEF Submitted, Shown, Polling
  <2>3. list' = [list EXCEPT ![loop[w].task] = "queued"]
    BY <1>7 DEF Submitted, Upsert
  <2>4. ForwardLoop(w)'
    BY <1>1, <2>1, <2>2, <2>3 DEF ForwardLoop
  <2>5. \A t \in Tasks : list'[t] # list[t] => loop[w].task = t
    BY <1>1, <2>3
  <2> QED BY <1>7, <2>2, <2>4, <2>5, ForwardElsewhere DEF ForwardInv, Submitted
<1>8. ASSUME NEW w \in Watches, Turn(w) PROVE ForwardInv'
  <2>1. /\ loop[w].task \in Tasks /\ loop[w].pc \in Polling /\ calledOff' = calledOff
        /\ loop[w] \in Loop /\ ForwardLoop(w)
    BY <1>1, <1>8 DEF ForwardInv, Tied, TiedLoop, Turn, Return, ReturnCancelled, GiveUp, Delay, Ask,
         Answered, Unavailable, Failed, Shown, Polling
  <2>2. \A v \in Watches \ {w} : loop'[v] = loop[v]
    BY <1>8, KnownTurn
  <2>3. "onCompleted" \notin Polling /\ "done" \notin Polling /\ "submit" \notin Polling
        /\ {"cancelled", "failed"} \subseteq Reported
    BY DEF Polling, Reported, Terminal, Server!Terminal
  <2>4. ASSUME loop'[w].pc \notin Polling, loop'[w].pc # "submit", loop'[w].task = loop[w].task,
               list' = list \/ \E s \in Reported : list' = [list EXCEPT ![loop[w].task] = s]
        PROVE  ForwardInv'
    <3>1. ForwardLoop(w)'
      BY <2>4 DEF ForwardLoop
    <3>2. \A t \in Tasks : list'[t] # list[t] => loop[w].task = t
      BY <1>1, <2>4
    <3> QED BY <2>2, <2>4, <3>1, <3>2, ForwardElsewhere DEF ForwardInv
  <2>5. ASSUME loop'[w].pc \in Polling, loop'[w].task = loop[w].task,
               loop'[w].current = loop[w].current, list' = list
        PROVE  ForwardInv'
    <3>1. Alone(w)' => Alone(w)
      BY <2>2, <2>5 DEF Alone
    <3>2. ForwardLoop(w)'
      BY <2>1, <2>3, <2>5, <3>1 DEF ForwardLoop
    <3> QED BY <2>2, <2>3, <2>5, <3>2, ForwardElsewhere DEF ForwardInv
  <2>6. CASE Return(w)
    <3>1. CASE Goto(w, "onCompleted")
      <4>1. loop'[w].pc = "onCompleted" /\ loop'[w].task = loop[w].task
        BY <2>1, <3>1, GotoLoop DEF Shown
      <4> QED BY <2>3, <2>4, <2>6, <4>1 DEF Return
    <3>2. CASE Ends(w, loop[w].current)
      BY <2>1, <2>3, <2>4, <2>6, <3>2, EndsLoop DEF Return, Loop
    <3> QED BY <2>6, <3>1, <3>2 DEF Return
  <2>7. CASE ReturnCancelled(w)
    BY <2>3, <2>4, <2>7, EndsLoop DEF ReturnCancelled
  <2>8. CASE GiveUp(w)
    BY <2>1, <2>3, <2>4, <2>8, EndsLoop DEF GiveUp, Loop
  <2>9. CASE Delay(w)
    <3>1. loop'[w].pc = "delay" /\ loop'[w].task = loop[w].task /\ loop'[w].current = loop[w].current
      BY <2>1, <2>9, GotoLoop DEF Delay, Shown, Polling
    <3> QED BY <2>5, <2>9, <3>1 DEF Delay, Polling
  <2>10. CASE Ask(w)
    BY <2>5, <2>10, AskLoop DEF Ask, Polling
  <2>11. CASE Answered(w)
    <3>1. loop'[w].pc = "top" /\ loop'[w].task = loop[w].task /\ loop'[w].current = loop[w].answer
      BY <2>1, <2>11, BackLoop
    <3>2. list' = [list EXCEPT ![loop[w].task] = loop[w].answer]
      BY <2>11 DEF Answered, Upsert
    <3>3. ForwardLoop(w)'
      BY <1>1, <2>1, <3>1, <3>2 DEF ForwardLoop
    <3>4. \A t \in Tasks : list'[t] # list[t] => loop[w].task = t
      BY <1>1, <3>2
    <3> QED BY <2>2, <3>1, <3>3, <3>4, ForwardElsewhere DEF ForwardInv
  <2>12. CASE Unavailable(w)
    BY <2>1, <2>5, <2>12, BackLoop DEF Unavailable, Polling
  <2>13. CASE Failed(w)
    BY <2>3, <2>4, <2>13, EndsLoop DEF Failed, Upsert
  <2> QED BY <1>8, <2>6, <2>7, <2>8, <2>9, <2>10, <2>11, <2>12, <2>13 DEF Turn
<1>9. ASSUME NEW w \in Watches, OnCompletedReturns(w) PROVE ForwardInv'
  <2>1. "completed" \in Reported /\ list' = list
    BY <1>9 DEF Reported, Terminal, Server!Terminal, OnCompletedReturns
  <2>2. /\ loop'[w].pc = "done" /\ loop'[w].task = loop[w].task
        /\ \A v \in Watches \ {w} : loop'[v] = loop[v]
    BY <1>9, <2>1, EndsLoop DEF OnCompletedReturns
  <2>3. ForwardLoop(w)'
    BY <2>2 DEF ForwardLoop, Polling
  <2> QED BY <2>1, <2>2, <2>3, ForwardElsewhere DEF ForwardInv
<1>10. ASSUME NEW w \in Watches, Press(w) PROVE ForwardInv'
  <2>1. /\ \A v \in Watches : /\ loop'[v].pc = loop[v].pc /\ loop'[v].task = loop[v].task
                               /\ loop'[v].current = loop[v].current
        /\ list' = list
    BY <1>1, <1>10 DEF Press, Becomes, Loop
  <2> QED BY <1>1, <2>1 DEF ForwardInv, ForwardLoop, Alone
<1>11. CASE ShowStatus \/ \E c \in Tasks : Pick(c)
  BY <1>2, <1>11 DEF ShowStatus, Pick
<1>12. ASSUME NEW c \in Tasks, CancelArrives(c) PROVE ForwardInv'
  BY <1>2, <1>12 DEF CancelArrives
<1>13. ASSUME NEW c \in Tasks, Mark(c) PROVE ForwardInv'
  <2>1. /\ c \in calledOff' /\ loop' = loop
        /\ list' = list \/ (list[c] # NoRecord /\ list' = [list EXCEPT ![c] = "cancelled"])
    BY <1>1, <1>13 DEF Mark, Upsert, KnownInv
  <2>2. ASSUME NEW w \in Watches PROVE ForwardLoop(w)'
    <3>1. ForwardLoop(w) /\ (Alone(w)' <=> Alone(w))
      BY <2>1 DEF ForwardInv, Alone
    <3>2. loop[w].pc \in Shown \cup {"submit"} => loop[w].task \in Tasks
      BY DEF Tied, TiedLoop
    <3>3. CASE loop[w].task # c
      BY <1>1, <2>1, <3>1, <3>2, <3>3 DEF ForwardLoop, Shown
    <3>4. CASE loop[w].task = c
      BY <1>1, <2>1, <3>1, <3>2, <3>4 DEF ForwardLoop, Shown
    <3> QED BY <3>3, <3>4
  <2> QED BY <2>2 DEF ForwardInv
<1>14. CASE Reload
  <2>1. \A v \in Watches : loop'[v] \in {NewLoop, Gone}
    BY <1>14 DEF Reload
  <2> QED BY <2>1 DEF ForwardInv, ForwardLoop, NewLoop, Gone, Polling
<1> QED
  BY <1>3, <1>4, <1>5, <1>6, <1>7, <1>8, <1>9, <1>10, <1>11, <1>12, <1>13, <1>14 DEF Next

(* What is listed of a task that one loop watches and nobody cancels never *)
(* goes back, and a final status stays.                                    *)
THEOREM ForwardOnly == Spec => ListForward
<1> DEFINE A == \A t \in Tasks :
       list'[t] \notin {list[t], NoRecord} /\ Sole(t) /\ t \notin calledOff
         => Rank(list[t]) < Rank(list'[t])
<1>1. TypeOK /\ Tied /\ KnownInv /\ ForwardInv /\ [Next]_vars => [A]_vars
  <2> SUFFICES ASSUME TypeOK, Tied, KnownInv, ForwardInv, [Next]_vars, NEW t \in Tasks,
                      list'[t] \notin {list[t], NoRecord}, Sole(t), t \notin calledOff
               PROVE  Rank(list[t]) < Rank(list'[t])
    OBVIOUS
  <2> USE DEF At
  <2>1. list \in [Tasks -> Reported \cup {NoRecord}] /\ loop \in [Watches -> Loop]
    BY DEF TypeOK
  <2>2. ASSUME NEW w \in Watches, loop[w].task = t PROVE ForwardLoop(w) /\ Alone(w)
    BY <2>2 DEF ForwardInv, Alone, Sole
  <2>3. ASSUME NEW w \in Watches, Submitted(w) PROVE Rank(list[t]) < Rank(list'[t])
    <3>1. loop[w].task = t /\ list'[t] = "queued"
      BY <2>1, <2>3 DEF Submitted, Upsert
    <3>2. list[t] = NoRecord
      BY <2>2, <2>3, <3>1 DEF ForwardLoop, Submitted
    <3> QED BY <3>1, <3>2 DEF Rank, NoRecord
  <2>4. ASSUME NEW w \in Watches, Answered(w) \/ Failed(w) PROVE Rank(list[t]) < Rank(list'[t])
    <3>1. loop[w].task = t /\ loop[w].pc = "asked"
      BY <2>1, <2>4 DEF Answered, Failed, Upsert
    <3>2. list[t] = loop[w].current \/ list[t] = NoRecord
      BY <2>2, <3>1 DEF ForwardLoop, Polling
    <3>3. loop[w].current \in {"queued", "running"}
      BY <3>1 DEF KnownInv, KnownLoop, Active, Reported
    <3>4. CASE Answered(w)
      <4>1. /\ list'[t] = loop[w].answer /\ loop[w].answer \in Reported
            /\ loop[w].current = "running" => loop[w].answer # "queued"
        BY <2>1, <3>1, <3>4 DEF Answered, Upsert, KnownInv, KnownLoop
      <4> QED BY <3>2, <3>3, <4>1 DEF Rank, NoRecord, Reported, Terminal, Server!Terminal
    <3>5. CASE Failed(w)
      <4>1. list'[t] = "failed"
        BY <2>1, <3>1, <3>5 DEF Failed, Upsert
      <4> QED BY <3>2, <3>3, <4>1 DEF Rank, NoRecord
    <3> QED BY <2>4, <3>4, <3>5
  <2>5. ASSUME NEW c \in Tasks, Mark(c) PROVE FALSE
    <3>1. c \in calledOff
      BY <2>5 DEF Mark, KnownInv
    <3> QED BY <2>1, <2>5, <3>1 DEF Mark, Upsert
  <2>6. ~Reload
    BY <2>1 DEF Reload
  <2> QED
    BY <2>3, <2>4, <2>5, <2>6
       DEF Next, vars, ServerMoves, Submit, SubmitFails, Watch, Turn, Return, ReturnCancelled,
           GiveUp, Delay, Ask, Unavailable, OnCompletedReturns, Press, ShowStatus, Pick,
           CancelArrives
<1> QED
  BY <1>1, TypeInit, TypeStep, KnownInit, KnownStep, ForwardInit, ForwardStep, PTL
     DEF Spec, ListForward

-----------------------------------------------------------------------------
(* What is left of the wait of a loop: three turns to a round, and what    *)
(* the present round still takes.                                          *)
Left(r) ==
  3 * (MaxRounds - r.round)
    + (IF r.pc = "delay" THEN 1 ELSE IF r.pc = "top" THEN 2 ELSE 3)

LEMMA LeftIsNat == ASSUME NEW r \in Loop PROVE Left(r) \in Nat
BY DEF Left, Loop

(* Every turn of a loop uses up some of its wait, and nothing gives it     *)
(* back: no answer, failed call, cancel or move of the server starts it    *)
(* anew.                                                                   *)
TurnsRunOut ==
  [][\A w \in Watches :
       loop[w].pc \in Polling /\ loop'[w].pc \in Polling =>
         /\ Left(loop'[w]) <= Left(loop[w])
         /\ Turn(w) => Left(loop'[w]) < Left(loop[w])]_vars

LEMMA TurnUses ==
  ASSUME TypeOK, Tied, NEW w \in Watches, Turn(w), loop'[w].pc \in Polling
  PROVE  Left(loop'[w]) < Left(loop[w])
<1> USE DEF At
<1>1. loop[w] \in Loop /\ loop \in [Watches -> Loop]
  BY DEF TypeOK
<1>2. loop[w].round \in 0 .. MaxRounds
  BY <1>1 DEF Loop
<1>3. ASSUME NEW s, Ends(w, s) PROVE FALSE
  <2>1. loop'[w].pc = "done"
    BY <1>1, <1>3 DEF Ends, Becomes, NewLoop
  <2> QED BY <2>1 DEF Polling
<1>4. CASE Return(w)
  <2>1. Goto(w, "onCompleted")
    BY <1>3, <1>4 DEF Return
  <2>2. loop'[w].pc = "onCompleted"
    BY <1>1, <2>1 DEF Goto, Becomes, Loop
  <2> QED BY <2>2 DEF Polling
<1>5. CASE ReturnCancelled(w) \/ GiveUp(w) \/ Failed(w)
  BY <1>3, <1>5 DEF ReturnCancelled, GiveUp, Failed
<1>6. CASE Delay(w)
  <2>1. loop'[w] = [loop[w] EXCEPT !.pc = "delay"] /\ loop[w].pc = "top"
    BY <1>1, <1>6 DEF Delay, Goto, Becomes
  <2>2. loop'[w].round = loop[w].round /\ loop'[w].pc = "delay"
    BY <1>1, <2>1 DEF Loop
  <2> QED BY <1>2, <2>1, <2>2 DEF Left
<1>7. CASE Ask(w)
  <2>1. loop[w].pc = "delay" /\ loop[w].round < MaxRounds
    BY <1>7 DEF Ask, Tied, TiedLoop
  <2>2. PICK a : loop'[w] = [loop[w] EXCEPT !.pc = "asked", !.round = @ + 1, !.answer = a]
    BY <1>1, <1>7 DEF Ask, Becomes
  <2>3. loop'[w].round = loop[w].round + 1 /\ loop'[w].pc = "asked"
    BY <1>1, <2>2 DEF Loop
  <2> QED BY <1>2, <2>1, <2>3 DEF Left
<1>8. CASE Answered(w) \/ Unavailable(w)
  <2>1. loop[w].pc = "asked"
    BY <1>8 DEF Answered, Unavailable
  <2>2. loop'[w].round = loop[w].round /\ loop'[w].pc = "top"
    <3>1. CASE Answered(w)
      <4>1. loop'[w] = [loop[w] EXCEPT !.pc = "top", !.current = loop[w].answer, !.answer = None]
        BY <1>1, <3>1 DEF Answered, Becomes
      <4> QED BY <1>1, <4>1 DEF Loop
    <3>2. CASE Unavailable(w)
      <4>1. loop'[w] = [loop[w] EXCEPT !.pc = "top", !.answer = None]
        BY <1>1, <3>2 DEF Unavailable, Becomes
      <4> QED BY <1>1, <4>1 DEF Loop
    <3> QED BY <1>8, <3>1, <3>2
  <2> QED BY <1>2, <2>1, <2>2 DEF Left
<1> QED BY <1>4, <1>5, <1>6, <1>7, <1>8 DEF Turn

(* Any other step leaves a polling loop where it is in its wait, or ends   *)
(* its polling.                                                            *)
LEMMA OthersKeep ==
  ASSUME TypeOK, Tied, [Next]_vars, NEW w \in Watches, ~Turn(w), loop[w].pc \in Polling,
         loop'[w].pc \in Polling
  PROVE  Left(loop'[w]) = Left(loop[w])
<1> USE DEF At
<1>1. loop[w] \in Loop /\ loop \in [Watches -> Loop]
  BY DEF TypeOK
<1>2. CASE loop' = loop
  BY <1>2
<1>3. ASSUME NEW v \in Watches, v # w, NEW r, Becomes(v, r) PROVE loop'[w] = loop[w]
  BY <1>1, <1>3 DEF Becomes
<1>4. ASSUME NEW v \in Watches, NEW t \in Tasks, Submit(v, t) \/ Watch(v, t)
      PROVE  Left(loop'[w]) = Left(loop[w])
  BY <1>3, <1>4 DEF Submit, Watch, Polling
<1>5. ASSUME NEW v \in Watches, SubmitFails(v) \/ Submitted(v) \/ OnCompletedReturns(v)
      PROVE  Left(loop'[w]) = Left(loop[w])
  BY <1>3, <1>5 DEF SubmitFails, Submitted, OnCompletedReturns, Goto, Ends, Polling
<1>6. ASSUME NEW v \in Watches, Turn(v) PROVE Left(loop'[w]) = Left(loop[w])
  <2>1. v # w /\ \E r : Becomes(v, r)
    BY <1>6 DEF Turn, Return, ReturnCancelled, GiveUp, Delay, Ask, Answered, Unavailable, Failed,
                Goto, Ends
  <2> QED BY <1>3, <2>1
<1>7. ASSUME NEW v \in Watches, Press(v) PROVE Left(loop'[w]) = Left(loop[w])
  <2>1. CASE v = w
    <3>1. loop'[w] = [loop[w] EXCEPT !.token = TRUE]
      BY <1>1, <1>7, <2>1 DEF Press, Becomes
    <3>2. loop'[w].round = loop[w].round /\ loop'[w].pc = loop[w].pc
      BY <1>1, <3>1 DEF Loop
    <3> QED BY <3>2 DEF Left
  <2>2. CASE v # w
    BY <1>3, <1>7, <2>2 DEF Press
  <2> QED BY <2>1, <2>2
<1>8. CASE Reload
  <2>1. loop'[w] \in {NewLoop, Gone}
    BY <1>8 DEF Reload
  <2> QED BY <2>1, NewLoopType DEF NewLoop, Gone, Polling, Loop
<1>9. ASSUME NEW c \in Tasks, CancelArrives(c) \/ Mark(c) PROVE loop' = loop
  BY <1>9 DEF CancelArrives, Mark
<1>10. ShowStatus \/ (\E c \in Tasks : Pick(c)) => loop' = loop
  BY DEF ShowStatus, Pick
<1>11. ServerMoves \/ UNCHANGED vars => loop' = loop
  BY DEF ServerMoves, vars
<1> QED BY <1>2, <1>4, <1>5, <1>6, <1>7, <1>8, <1>9, <1>10, <1>11 DEF Next

(* A polling loop has at most 3 * MaxRounds + 3 turns, for any length of   *)
(* the wait and whatever the server, the user and the command line do      *)
(* (pollUntilTerminal): the part of WatchEnds that needs no fairness.      *)
THEOREM WaitIsBounded == Spec => TurnsRunOut
<1>1. TypeOK /\ Tied /\ [Next]_vars =>
        [\A w \in Watches :
           loop[w].pc \in Polling /\ loop'[w].pc \in Polling =>
             /\ Left(loop'[w]) <= Left(loop[w])
             /\ Turn(w) => Left(loop'[w]) < Left(loop[w])]_vars
  <2> SUFFICES ASSUME TypeOK, Tied, [Next]_vars, NEW w \in Watches,
                      loop[w].pc \in Polling, loop'[w].pc \in Polling
               PROVE  /\ Left(loop'[w]) <= Left(loop[w])
                      /\ Turn(w) => Left(loop'[w]) < Left(loop[w])
    OBVIOUS
  <2>1. loop[w] \in Loop /\ loop'[w] \in Loop
    BY TypeStep DEF TypeOK
  <2>2. Left(loop[w]) \in Nat /\ Left(loop'[w]) \in Nat
    BY <2>1, LeftIsNat
  <2>3. \A m, n \in Nat : m < n \/ m = n => m <= n
    OBVIOUS
  <2> QED BY <2>2, <2>3, TurnUses, OthersKeep
<1> QED BY <1>1, TypeInit, TypeStep, PTL DEF Spec, TurnsRunOut
=============================================================================
