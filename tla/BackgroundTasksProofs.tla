----------------------- MODULE BackgroundTasksProofs -----------------------
(***************************************************************************)
(* SignalsMatchTurns, NothingOutlivesItsSession and OutputIsKept for any   *)
(* sessions and any tasks.  None needs the fairness of TasksSpec.          *)
(*                                                                         *)
(* A line of output passes from the pipe through the buffer, and for a     *)
(* monitor through what the call gathered, to the model.  OutputInv says   *)
(* that on this way the lines stay in the order they were printed in:      *)
(* what is yet to be shown is newer than all that was shown.               *)
(***************************************************************************)
EXTENDS BackgroundTasks, SequenceTheorems, TLAPS

TurnStates == {"closed", "idle", "turn", "cancelled", "closing"}

-----------------------------------------------------------------------------
(* Signals *)

\* A call; what a monitor gathered is of no concern here.
IsCall(c) ==
    c \in [tool : {"none", "run", "output", "monitor"}, task : {c.task}, signal : Nat,
           gathered : {c.gathered}, dropped : {c.dropped}]

CallTypes ==
    /\ calls = [s \in Sessions |-> calls[s]]
    /\ \A s \in Sessions : IsCall(calls[s])

SignalTypes ==
    /\ signals \in [Sessions -> Nat]
    /\ turns \in [Sessions -> TurnStates]
    /\ made \in Nat

\* Signals are made one after the other, and no two sessions share one.
SignalsAreOwn ==
    /\ \A s \in Sessions : signals[s] <= made
    /\ \A n \in raised : n \in Nat /\ 1 <= n /\ n <= made
    /\ \A s, u \in Sessions : s # u /\ signals[s] # 0 => signals[s] # signals[u]

\* The signal of a session is that of its turn.
SignalsTell ==
    \A s \in Sessions :
        /\ turns[s] = "turn" => signals[s] # 0 /\ signals[s] \notin raised
        /\ turns[s] \in {"cancelled", "closing"} => signals[s] \in raised

\* A call listens to the signal its turn began with.
CallsListen ==
    \A s \in Sessions : calls[s].tool \in {"run", "monitor"} =>
        turns[s] \in {"turn", "cancelled", "closing"} /\ calls[s].signal = signals[s]

SignalInv == CallTypes /\ SignalTypes /\ SignalsAreOwn /\ SignalsTell /\ CallsListen

LEMMA SignalInit == TasksInit => SignalInv
<1> SUFFICES ASSUME TasksInit
             PROVE  SignalInv
  OBVIOUS
<1>1. \A s \in Sessions : calls[s] = NoCall
  BY DEF TasksInit
<1>2. CallTypes
  BY <1>1 DEF TasksInit, CallTypes, IsCall, NoCall
<1>3. SignalTypes /\ SignalsAreOwn /\ SignalsTell
  BY DEF TasksInit, SignalTypes, SignalsAreOwn, SignalsTell, TurnStates
<1>4. CallsListen
  BY <1>1 DEF CallsListen, NoCall
<1> QED
  BY <1>2, <1>3, <1>4 DEF SignalInv

\* Raising the signal of one session leaves those of the others as they were.
LEMMA AbortReachesOne ==
    ASSUME SignalInv, NEW s \in Sessions, AbortSessionTools(s)
    PROVE  /\ signals' \in [Sessions -> Nat] /\ made' \in Nat
           /\ SignalsAreOwn'
           /\ signals'[s] \in raised'
           /\ signals[s] # 0 => signals'[s] = signals[s]
           /\ \A u \in Sessions \ {s} : /\ signals'[u] = signals[u]
                                        /\ signals[u] \in raised => signals[u] \in raised'
                                        /\ signals[u] # 0 /\ signals[u] \notin raised => signals[u] \notin raised'
<1> USE DEF SignalInv, SignalTypes, SignalsAreOwn
<1>1. CASE signals[s] = 0
  <2>1. /\ made' = made + 1 /\ signals' = [signals EXCEPT ![s] = made + 1]
        /\ raised' = raised \cup {made + 1} /\ made + 1 \in Nat
    BY <1>1 DEF AbortSessionTools
  <2> QED
    BY <1>1, <2>1
<1>2. CASE signals[s] # 0
  <2>1. made' = made /\ signals' = signals /\ raised' = raised \cup {signals[s]}
    BY <1>2 DEF AbortSessionTools
  <2> QED
    BY <1>2, <2>1
<1> QED
  BY <1>1, <1>2

\* A step of the turn of one session, which leaves the calls alone.
LEMMA TurnStep ==
    ASSUME SignalInv, NEW s \in Sessions,
           TurnStarts(s) \/ TurnEnds(s) \/ CancelTurn(s) \/ BeginClose(s) \/ Reopens(s)
    PROVE  SignalInv'
<1> USE DEF SignalInv
<1>1. UNCHANGED calls
  BY DEF TurnStarts, TurnEnds, CancelTurn, BeginClose, Reopens
<1>2. CallTypes'
  BY <1>1 DEF CallTypes
<1>3. CASE TurnStarts(s)
  <2>1. /\ turns[s] = "idle" /\ turns' = [turns EXCEPT ![s] = "turn"]
        /\ made' = made + 1 /\ signals' = [signals EXCEPT ![s] = made + 1] /\ UNCHANGED raised
        /\ made + 1 \in Nat
    BY <1>3 DEF TurnStarts, ResetAbort, SignalTypes
  <2>2. SignalTypes'
    BY <2>1 DEF SignalTypes, TurnStates
  <2>3. SignalsAreOwn'
    BY <2>1 DEF SignalTypes, SignalsAreOwn
  <2>4. SignalsTell'
    BY <2>1 DEF SignalTypes, SignalsAreOwn, SignalsTell
  <2>5. CallsListen'
    BY <1>1, <2>1 DEF SignalTypes, CallsListen
  <2> QED
    BY <1>2, <2>2, <2>3, <2>4, <2>5
<1>4. CASE TurnEnds(s)
  <2>1. turns[s] \in {"turn", "cancelled"} /\ turns' = [turns EXCEPT ![s] = "idle"]
        /\ calls[s].tool = "none" /\ UNCHANGED <<signals, raised, made>>
    BY <1>4 DEF TurnEnds, NoCall
  <2> QED
    BY <1>1, <1>2, <2>1 DEF SignalTypes, SignalsAreOwn, SignalsTell, CallsListen, TurnStates
<1>5. CASE CancelTurn(s)
  <2>1. turns' = [turns EXCEPT ![s] = IF @ = "turn" THEN "cancelled" ELSE @]
    BY <1>5 DEF CancelTurn
  <2>2. AbortSessionTools(s)
    BY <1>5 DEF CancelTurn
  <2>3. SignalTypes' /\ SignalsAreOwn'
    BY <2>1, <2>2, AbortReachesOne DEF SignalTypes, TurnStates
  <2>4. SignalsTell'
    BY <2>1, <2>2, AbortReachesOne DEF SignalTypes, SignalsTell
  <2>5. CallsListen'
    <3> SUFFICES ASSUME NEW u \in Sessions, calls[u].tool \in {"run", "monitor"}
                 PROVE  turns'[u] \in {"turn", "cancelled", "closing"} /\ calls[u].signal = signals'[u]
      BY <1>1 DEF CallsListen
    <3>1. turns[u] \in {"turn", "cancelled", "closing"} /\ calls[u].signal = signals[u]
      BY DEF CallsListen
    <3>2. signals[u] # 0
      BY <3>1 DEF SignalsTell, SignalsAreOwn
    <3> QED
      BY <2>1, <2>2, <3>1, <3>2, AbortReachesOne DEF SignalTypes
  <2> QED
    BY <1>2, <2>3, <2>4, <2>5
<1>6. CASE BeginClose(s)
  <2>1. turns' = [turns EXCEPT ![s] = "closing"]
    BY <1>6 DEF BeginClose
  <2>2. AbortSessionTools(s)
    BY <1>6 DEF BeginClose
  <2>3. SignalTypes' /\ SignalsAreOwn'
    BY <2>1, <2>2, AbortReachesOne DEF SignalTypes, TurnStates
  <2>4. SignalsTell'
    BY <2>1, <2>2, AbortReachesOne DEF SignalTypes, SignalsTell
  <2>5. CallsListen'
    <3> SUFFICES ASSUME NEW u \in Sessions, calls[u].tool \in {"run", "monitor"}
                 PROVE  turns'[u] \in {"turn", "cancelled", "closing"} /\ calls[u].signal = signals'[u]
      BY <1>1 DEF CallsListen
    <3>1. turns[u] \in {"turn", "cancelled", "closing"} /\ calls[u].signal = signals[u]
      BY DEF CallsListen
    <3>2. signals[u] # 0
      BY <3>1 DEF SignalsTell, SignalsAreOwn
    <3> QED
      BY <2>1, <2>2, <3>1, <3>2, AbortReachesOne DEF SignalTypes
  <2> QED
    BY <1>2, <2>3, <2>4, <2>5
<1>7. CASE Reopens(s)
  <2>1. turns[s] = "closed" /\ turns' = [turns EXCEPT ![s] = "idle"] /\ UNCHANGED <<signals, raised, made>>
    BY <1>7 DEF Reopens
  <2> QED
    BY <1>1, <1>2, <2>1 DEF SignalTypes, SignalsAreOwn, SignalsTell, CallsListen, TurnStates
<1> QED
  BY <1>3, <1>4, <1>5, <1>6, <1>7

\* The session is closed: its call is over.
LEMMA CloseStep ==
    ASSUME SignalInv, NEW s \in Sessions, SessionCloses(s)
    PROVE  SignalInv'
<1> USE DEF SignalInv
<1>1. /\ turns[s] = "closing" /\ turns' = [turns EXCEPT ![s] = "closed"]
      /\ calls[s].tool = "none" /\ signals' = [signals EXCEPT ![s] = 0]
      /\ UNCHANGED <<raised, made, calls>>
  BY DEF SessionCloses, NoCall
<1>2. CallTypes'
  BY <1>1 DEF CallTypes
<1>3. SignalTypes'
  BY <1>1 DEF SignalTypes, TurnStates
<1>4. SignalsAreOwn'
  BY <1>1 DEF SignalTypes, SignalsAreOwn
<1>5. (SignalsTell /\ CallsListen)'
  BY <1>1 DEF SignalTypes, SignalsTell, CallsListen
<1> QED
  BY <1>2, <1>3, <1>4, <1>5

\* A call begins, goes on or ends.
LEMMA CallStep ==
    ASSUME SignalInv, NEW s \in Sessions,
           CallStarts(s) \/ CallGoesOn(s) \/ ForegroundEnds(s)
    PROVE  SignalInv'
<1> USE DEF SignalInv
<1>1. UNCHANGED <<signals, raised, made, turns>>
  BY DEF CallStarts, CallGoesOn, StartTask, RunForeground, Watch, KillCommand, ForegroundEnds,
         ForegroundAborted, OutputLook, MonitorLook
<1>2. SignalTypes' /\ SignalsAreOwn' /\ SignalsTell'
  BY <1>1 DEF SignalTypes, SignalsAreOwn, SignalsTell
<1>3. ASSUME NEW c, IsCall(c), calls' = [calls EXCEPT ![s] = c],
             c.tool \in {"run", "monitor"} =>
                turns[s] \in {"turn", "cancelled", "closing"} /\ c.signal = signals[s]
      PROVE  (CallTypes /\ CallsListen)'
  BY <1>1, <1>3 DEF CallTypes, CallsListen
<1>4. CASE UNCHANGED calls
  BY <1>1, <1>2, <1>4 DEF CallTypes, CallsListen
<1>5. CASE calls' = [calls EXCEPT ![s] = NoCall]
  <2>1. IsCall(NoCall) /\ NoCall.tool = "none"
    BY DEF IsCall, NoCall
  <2> QED
    BY <1>2, <1>3, <1>5, <2>1
<1>6. ASSUME NEW tool \in {"run", "output", "monitor"}, NEW t, turns[s] = "turn", BeginCall(s, tool, t)
      PROVE  SignalInv'
  <2> DEFINE c == [NoCall EXCEPT !.tool = tool, !.task = t, !.signal = signals[s]]
  <2>1. IsCall(NoCall)
    BY DEF IsCall, NoCall
  <2>2. signals[s] \in Nat
    BY DEF SignalTypes
  <2>3. IsCall(c) /\ c.signal = signals[s]
    BY <2>1, <2>2 DEF IsCall
  <2>4. calls' = [calls EXCEPT ![s] = c]
    BY <1>6 DEF BeginCall
  <2> HIDE DEF c
  <2> QED
    BY <1>2, <1>3, <1>6, <2>3, <2>4
<1>7. CASE RunForeground(s)
  BY <1>6, <1>7 DEF RunForeground, Calling
<1>8. CASE Watch(s)
  <2>1. turns[s] = "turn" /\ \E t \in Tasks, tool \in {"output", "monitor"} : BeginCall(s, tool, t)
    BY <1>8 DEF Watch, Calling
  <2> QED
    BY <1>6, <2>1
<1>9. CASE MonitorLook(s)
  <2>1. \/ calls' = [calls EXCEPT ![s] = NoCall]
        \/ /\ calls[s].tool = "monitor"
           /\ \E g, d : calls' = [calls EXCEPT ![s] = [calls[s] EXCEPT !.gathered = g, !.dropped = d]]
    BY <1>9 DEF MonitorLook
  <2>2. ASSUME NEW g, NEW d, calls[s].tool = "monitor",
               calls' = [calls EXCEPT ![s] = [calls[s] EXCEPT !.gathered = g, !.dropped = d]]
        PROVE  SignalInv'
    <3> DEFINE c == [calls[s] EXCEPT !.gathered = g, !.dropped = d]
    <3>1. IsCall(calls[s])
      BY DEF CallTypes
    <3>2. IsCall(c) /\ c.tool = calls[s].tool /\ c.signal = calls[s].signal
      BY <3>1 DEF IsCall
    <3>3. c.tool \in {"run", "monitor"} =>
            turns[s] \in {"turn", "cancelled", "closing"} /\ c.signal = signals[s]
      BY <2>2, <3>2 DEF CallsListen
    <3>4. calls' = [calls EXCEPT ![s] = c]
      BY <2>2
    <3> HIDE DEF c
    <3> QED
      BY <1>2, <1>3, <3>2, <3>3, <3>4
  <2> QED
    BY <1>5, <2>1, <2>2
<1>10. CASE OutputLook(s)
  BY <1>4, <1>5, <1>10 DEF OutputLook
<1>11. StartTask(s) \/ KillCommand(s) => UNCHANGED calls
  BY DEF StartTask, KillCommand
<1>12. ForegroundEnds(s) \/ ForegroundAborted(s) => calls' = [calls EXCEPT ![s] = NoCall]
  BY DEF ForegroundEnds, ForegroundAborted
<1> QED
  BY <1>4, <1>5, <1>7, <1>8, <1>9, <1>10, <1>11, <1>12 DEF CallStarts, CallGoesOn

LEMMA SignalStep == SignalInv /\ [TasksNext]_taskVars => SignalInv'
<1> SUFFICES ASSUME SignalInv, [TasksNext]_taskVars
             PROVE  SignalInv'
  OBVIOUS
<1>1. ASSUME NEW s \in Sessions, SessionActs(s)
      PROVE  SignalInv'
  BY <1>1, TurnStep, CloseStep, CallStep DEF SessionActs
<1>2. ASSUME NEW t \in Tasks, TaskActs(t)
      PROVE  UNCHANGED <<signals, raised, made, turns, calls>>
  BY <1>2 DEF TaskActs, Prints, Exits, ReaderReads
<1>3. CASE UNCHANGED <<signals, raised, made, turns, calls>>
  BY <1>3 DEF SignalInv, CallTypes, SignalTypes, SignalsAreOwn, SignalsTell, CallsListen
<1>4. UNCHANGED taskVars => UNCHANGED <<signals, raised, made, turns, calls>>
  BY DEF taskVars
<1> QED
  BY <1>1, <1>2, <1>3, <1>4 DEF TasksNext

\* The signal a command listens to is raised exactly when its own turn was
\* cancelled or its session is being closed, in whatever order turns start,
\* end and are cancelled.
THEOREM SignalsAreTimely == TasksSpec => []SignalsMatchTurns
<1>1. SignalInv => SignalsMatchTurns
  BY DEF SignalInv, CallsListen, SignalsTell, SignalsMatchTurns
<1> QED
  BY <1>1, SignalInit, SignalStep, PTL DEF TasksSpec

-----------------------------------------------------------------------------
(* Processes *)

\* A task; what it printed is of no concern here.
IsTask(r) ==
    r \in [owner : Sessions \cup {"none"}, shell : BOOLEAN, rest : BOOLEAN, ended : BOOLEAN,
           printed : {r.printed}, pipe : {r.pipe}, buf : {r.buf}, dropped : {r.dropped},
           gone : BOOLEAN]

\* What is forgotten does not run, and what a task started outlives its shell
\* only when that ended before.
IsLawful(r) ==
    /\ IsTask(r)
    /\ r.rest => r.shell \/ r.ended
    /\ r.gone => ~r.shell

TasksAreLawful ==
    /\ tasks = [t \in Tasks |-> tasks[t]]
    /\ \A t \in Tasks : IsLawful(tasks[t])

ClosedOwnNothing ==
    \A t \in Tasks : tasks[t].owner \in Sessions /\ turns[tasks[t].owner] = "closed" => tasks[t].gone

ProcessInv == TasksAreLawful /\ ClosedOwnNothing /\ turns \in [Sessions -> TurnStates]

LEMMA ProcessInit == TasksInit => ProcessInv
<1> SUFFICES ASSUME TasksInit
             PROVE  ProcessInv
  OBVIOUS
<1>1. IsLawful(NoTask) /\ NoTask.owner \notin Sessions
  BY TasksAssumption DEF TasksAssumption, IsLawful, IsTask, NoTask
<1> QED
  BY <1>1 DEF TasksInit, ProcessInv, TasksAreLawful, ClosedOwnNothing, TurnStates

\* A task changes, and its owner stays or is a session whose turn goes on.
LEMMA TaskChanges ==
    ASSUME ProcessInv, NEW t \in Tasks, NEW r, IsLawful(r),
           tasks' = [tasks EXCEPT ![t] = r], UNCHANGED turns,
           \/ r.owner = tasks[t].owner /\ (tasks[t].gone => r.gone)
           \/ r.owner \in Sessions /\ turns[r.owner] # "closed"
    PROVE  ProcessInv'
BY DEF ProcessInv, TasksAreLawful, ClosedOwnNothing

LEMMA TaskStep ==
    ASSUME ProcessInv, NEW t \in Tasks, TaskActs(t)
    PROVE  ProcessInv'
<1>1. IsLawful(tasks[t]) /\ UNCHANGED turns
  BY DEF ProcessInv, TasksAreLawful, TaskActs, Prints, Exits, ReaderReads
<1>2. CASE Prints(t)
  <2> DEFINE r == [tasks[t] EXCEPT !.printed = tasks[t].printed + 1,
                                   !.pipe = Append(tasks[t].pipe, tasks[t].printed + 1)]
  <2>1. tasks' = [tasks EXCEPT ![t] = r]
    BY <1>2 DEF Prints
  <2>2. IsLawful(r) /\ r.owner = tasks[t].owner /\ r.gone = tasks[t].gone
    BY <1>1 DEF IsLawful, IsTask
  <2> HIDE DEF r
  <2> QED
    BY <1>1, <2>1, <2>2, TaskChanges
<1>3. CASE Exits(t)
  <2> DEFINE r == [tasks[t] EXCEPT !.shell = FALSE, !.ended = TRUE]
  <2>1. tasks' = [tasks EXCEPT ![t] = r]
    BY <1>3 DEF Exits
  <2>2. IsLawful(r) /\ r.owner = tasks[t].owner /\ r.gone = tasks[t].gone
    BY <1>1 DEF IsLawful, IsTask
  <2> HIDE DEF r
  <2> QED
    BY <1>1, <2>1, <2>2, TaskChanges
<1>4. CASE ReaderReads(t)
  <2> DEFINE all == tasks[t].buf \o tasks[t].pipe
             r == [tasks[t] EXCEPT !.buf = LastLines(all), !.pipe = << >>,
                                   !.dropped = tasks[t].dropped \/ Len(all) > BufferLimit]
  <2>1. tasks' = [tasks EXCEPT ![t] = r]
    BY <1>4 DEF ReaderReads
  <2>2. IsLawful(r) /\ r.owner = tasks[t].owner /\ r.gone = tasks[t].gone
    BY <1>1 DEF IsLawful, IsTask
  <2> HIDE DEF r
  <2> QED
    BY <1>1, <2>1, <2>2, TaskChanges
<1> QED
  BY <1>2, <1>3, <1>4 DEF TaskActs

LEMMA DrainedIsLawful ==
    ASSUME NEW r, IsLawful(r)
    PROVE  /\ IsLawful(Drained(r)) /\ Drained(r).owner = r.owner /\ Drained(r).gone = r.gone
BY DEF IsLawful, IsTask, Drained

\* The calls that touch a task.
LEMMA TaskCallStep ==
    ASSUME ProcessInv, NEW s \in Sessions, StartTask(s) \/ KillCommand(s) \/ OutputLook(s) \/ MonitorLook(s)
    PROVE  ProcessInv'
<1>1. UNCHANGED turns
  BY DEF StartTask, KillCommand, OutputLook, MonitorLook
<1>2. ASSUME NEW t, tasks' = [tasks EXCEPT ![t] = Drained(tasks[t])]
      PROVE  ProcessInv'
  <2>1. CASE t \in Tasks
    BY <1>1, <1>2, <2>1, DrainedIsLawful, TaskChanges DEF ProcessInv, TasksAreLawful
  <2>2. CASE t \notin Tasks
    BY <1>1, <1>2, <2>2 DEF ProcessInv, TasksAreLawful, ClosedOwnNothing
  <2> QED
    BY <2>1, <2>2
<1>3. CASE UNCHANGED tasks
  BY <1>1, <1>3 DEF ProcessInv, TasksAreLawful, ClosedOwnNothing
<1>4. CASE StartTask(s)
  <2>1. PICK t \in Tasks, rest \in BOOLEAN :
          /\ tasks[t] = NoTask
          /\ tasks' = [tasks EXCEPT ![t] = [NoTask EXCEPT !.owner = s, !.shell = TRUE, !.rest = rest]]
    BY <1>4 DEF StartTask
  <2> DEFINE r == [NoTask EXCEPT !.owner = s, !.shell = TRUE, !.rest = rest]
  <2>2. IsTask(NoTask) /\ ~NoTask.gone
    BY DEF IsTask, NoTask
  <2>3. IsLawful(r) /\ r.owner = s
    BY <2>2 DEF IsLawful, IsTask, NoTask
  <2>4. turns[s] # "closed"
    BY <1>4 DEF StartTask, Calling
  <2>5. tasks' = [tasks EXCEPT ![t] = r]
    BY <2>1
  <2> HIDE DEF r
  <2> QED
    BY <1>1, <2>3, <2>4, <2>5, TaskChanges
<1>5. CASE KillCommand(s)
  <2>1. PICK t \in Tasks :
          tasks' = [tasks EXCEPT ![t] = [Drained(tasks[t]) EXCEPT !.shell = FALSE, !.ended = TRUE]]
    BY <1>5 DEF KillCommand
  <2> DEFINE d == Drained(tasks[t])
             r == [d EXCEPT !.shell = FALSE, !.ended = TRUE]
  <2>2. IsLawful(d) /\ d.owner = tasks[t].owner /\ d.gone = tasks[t].gone
    BY DrainedIsLawful DEF ProcessInv, TasksAreLawful
  <2> HIDE DEF d
  <2>3. IsLawful(r) /\ r.owner = tasks[t].owner /\ r.gone = tasks[t].gone
    BY <2>2 DEF IsLawful, IsTask
  <2>4. tasks' = [tasks EXCEPT ![t] = r]
    BY <2>1 DEF d
  <2> HIDE DEF r
  <2> QED
    BY <1>1, <2>3, <2>4, TaskChanges
<1>6. CASE OutputLook(s)
  BY <1>2, <1>3, <1>6 DEF OutputLook
<1>7. CASE MonitorLook(s)
  BY <1>2, <1>7 DEF MonitorLook
<1> QED
  BY <1>4, <1>5, <1>6, <1>7

\* The end of a session takes its tasks with it.
LEMMA SessionEnd ==
    ASSUME ProcessInv, NEW s \in Sessions, SessionCloses(s)
    PROVE  ProcessInv'
<1>1. tasks' = KillSessionTasks(s) /\ turns' = [turns EXCEPT ![s] = "closed"]
  BY DEF SessionCloses
<1>2. ASSUME NEW t \in Tasks
      PROVE  /\ IsLawful(tasks'[t]) /\ tasks'[t].owner = tasks[t].owner
             /\ tasks[t].gone => tasks'[t].gone
             /\ tasks[t].owner = s => tasks'[t].gone
  <2>1. IsLawful(tasks[t])
    BY DEF ProcessInv, TasksAreLawful
  <2>2. CASE ~Owned(s, t)
    <3>1. tasks'[t] = tasks[t]
      BY <1>1, <2>2 DEF KillSessionTasks
    <3> QED
      BY <2>1, <2>2, <3>1 DEF Owned, IsLawful, IsTask
  <2>3. CASE Owned(s, t)
    <3>1. tasks'[t] = [tasks[t] EXCEPT !.gone = TRUE, !.shell = FALSE,
                                       !.rest = tasks[t].rest /\ ~tasks[t].shell]
      BY <1>1, <2>3 DEF KillSessionTasks
    <3> QED
      BY <2>1, <3>1 DEF IsLawful, IsTask
  <2> QED
    BY <2>2, <2>3
<1>3. tasks' = [t \in Tasks |-> tasks'[t]]
  BY <1>1 DEF KillSessionTasks
<1>4. turns' \in [Sessions -> TurnStates]
  BY <1>1 DEF ProcessInv, TurnStates
<1>5. ClosedOwnNothing'
  BY <1>1, <1>2 DEF ProcessInv, ClosedOwnNothing
<1> QED
  BY <1>2, <1>3, <1>4, <1>5 DEF ProcessInv, TasksAreLawful

LEMMA ProcessStep == ProcessInv /\ [TasksNext]_taskVars => ProcessInv'
<1> SUFFICES ASSUME ProcessInv, [TasksNext]_taskVars
             PROVE  ProcessInv'
  OBVIOUS
<1>1. ASSUME NEW s \in Sessions,
             TurnStarts(s) \/ TurnEnds(s) \/ CancelTurn(s) \/ BeginClose(s) \/ Reopens(s)
      PROVE  ProcessInv'
  <2>1. /\ UNCHANGED tasks
        /\ \E c \in TurnStates : /\ turns' = [turns EXCEPT ![s] = c]
                                 /\ c = "closed" => turns[s] = "closed"
    BY <1>1 DEF TurnStarts, TurnEnds, CancelTurn, BeginClose, Reopens, ProcessInv, TurnStates
  <2> QED
    BY <2>1 DEF ProcessInv, TasksAreLawful, ClosedOwnNothing, TurnStates
<1>2. CASE UNCHANGED <<tasks, turns>>
  BY <1>2 DEF ProcessInv, TasksAreLawful, ClosedOwnNothing
<1>3. ASSUME NEW s \in Sessions,
             RunForeground(s) \/ Watch(s) \/ ForegroundEnds(s) \/ ForegroundAborted(s)
      PROVE  UNCHANGED <<tasks, turns>>
  BY <1>3 DEF RunForeground, Watch, ForegroundEnds, ForegroundAborted
<1>4. ASSUME NEW s \in Sessions, SessionActs(s)
      PROVE  ProcessInv'
  BY <1>1, <1>2, <1>3, <1>4, TaskCallStep, SessionEnd DEF SessionActs, CallStarts, CallGoesOn
<1> QED
  BY <1>2, <1>4, TaskStep DEF TasksNext, taskVars

\* A closed session leaves no task behind, and nothing a task started but for
\* what had outlived its shell before.
THEOREM ClosingKills == TasksSpec => []NothingOutlivesItsSession
<1>1. ProcessInv => NothingOutlivesItsSession
  BY DEF ProcessInv, TasksAreLawful, IsLawful, ClosedOwnNothing, NothingOutlivesItsSession
<1> QED
  BY <1>1, ProcessInit, ProcessStep, PTL DEF TasksSpec

-----------------------------------------------------------------------------
(* Output *)

\* Lines in order, none above n.
Rising(q, n) ==
    /\ q \in Seq(Nat)
    /\ \A i, j \in 1..Len(q) : i < j => q[i] < q[j]
    /\ \A i \in 1..Len(q) : q[i] <= n

\* Where two sequences meet, the first stays below the second.
LEMMA RisingConcat ==
    ASSUME NEW p \in Seq(Nat), NEW q \in Seq(Nat), NEW n
    PROVE  Rising(p \o q, n) <=>
             /\ Rising(p, n) /\ Rising(q, n)
             /\ \A i \in 1..Len(p), j \in 1..Len(q) : p[i] < q[j]
<1>1. /\ p \o q \in Seq(Nat) /\ Len(p \o q) = Len(p) + Len(q)
      /\ \A i \in 1..(Len(p) + Len(q)) : (p \o q)[i] = IF i <= Len(p) THEN p[i] ELSE q[i - Len(p)]
  BY ConcatProperties
<1>2. Len(p) \in Nat /\ Len(q) \in Nat
  BY LenProperties
<1>3. /\ \A i \in 1..Len(p) : (p \o q)[i] = p[i] /\ p[i] \in Nat
      /\ \A j \in 1..Len(q) : (p \o q)[Len(p) + j] = q[j] /\ q[j] \in Nat
  BY <1>1, <1>2, ElementOfSeq
<1>4. ASSUME Rising(p \o q, n)
      PROVE  /\ Rising(p, n) /\ Rising(q, n)
             /\ \A i \in 1..Len(p), j \in 1..Len(q) : p[i] < q[j]
  <2>1. Rising(p, n)
    <3>1. \A i \in 1..Len(p) : i \in 1..Len(p \o q)
      BY <1>1, <1>2
    <3>2. \A i, j \in 1..Len(p) : i < j => p[i] < p[j]
      BY <1>3, <1>4, <3>1 DEF Rising
    <3>3. \A i \in 1..Len(p) : p[i] <= n
      BY <1>3, <1>4, <3>1 DEF Rising
    <3> QED
      BY <3>2, <3>3 DEF Rising
  <2>2. Rising(q, n)
    <3>1. ASSUME NEW i \in 1..Len(q), NEW j \in 1..Len(q), i < j
          PROVE  q[i] < q[j]
      <4>1. Len(p) + i \in 1..Len(p \o q) /\ Len(p) + j \in 1..Len(p \o q) /\ Len(p) + i < Len(p) + j
        BY <1>1, <1>2, <3>1
      <4>2. (p \o q)[Len(p) + i] < (p \o q)[Len(p) + j]
        BY <1>4, <4>1 DEF Rising
      <4> QED
        BY <1>3, <4>2
    <3>2. ASSUME NEW i \in 1..Len(q)
          PROVE  q[i] <= n
      <4>1. Len(p) + i \in 1..Len(p \o q)
        BY <1>1, <1>2
      <4> QED
        BY <1>3, <1>4, <4>1 DEF Rising
    <3> QED
      BY <3>1, <3>2 DEF Rising
  <2>3. ASSUME NEW i \in 1..Len(p), NEW j \in 1..Len(q)
        PROVE  p[i] < q[j]
    <3>1. i \in 1..Len(p \o q) /\ Len(p) + j \in 1..Len(p \o q) /\ i < Len(p) + j
      BY <1>1, <1>2
    <3>2. (p \o q)[i] < (p \o q)[Len(p) + j]
      BY <1>4, <3>1 DEF Rising
    <3> QED
      BY <1>3, <3>2
  <2> QED
    BY <2>1, <2>2, <2>3
<1>5. ASSUME Rising(p, n), Rising(q, n), \A i \in 1..Len(p), j \in 1..Len(q) : p[i] < q[j]
      PROVE  Rising(p \o q, n)
  <2>1. ASSUME NEW i \in 1..Len(p \o q), NEW j \in 1..Len(p \o q), i < j
        PROVE  (p \o q)[i] < (p \o q)[j]
    <3>1. CASE j <= Len(p)
      BY <1>1, <1>2, <1>5, <2>1, <3>1 DEF Rising
    <3>2. CASE j > Len(p) /\ i <= Len(p)
      <4>1. i \in 1..Len(p) /\ j - Len(p) \in 1..Len(q)
        BY <1>1, <1>2, <3>2
      <4>2. (p \o q)[i] = p[i] /\ (p \o q)[j] = q[j - Len(p)]
        BY <1>1, <1>2, <3>2
      <4> QED
        BY <1>5, <4>1, <4>2
    <3>3. CASE i > Len(p)
      <4>1. i - Len(p) \in 1..Len(q) /\ j - Len(p) \in 1..Len(q) /\ i - Len(p) < j - Len(p)
        BY <1>1, <1>2, <2>1, <3>3
      <4>2. (p \o q)[i] = q[i - Len(p)] /\ (p \o q)[j] = q[j - Len(p)]
        BY <1>1, <1>2, <2>1, <3>3
      <4> QED
        BY <1>5, <4>1, <4>2 DEF Rising
    <3> QED
      BY <1>1, <1>2, <3>1, <3>2, <3>3
  <2>2. ASSUME NEW i \in 1..Len(p \o q)
        PROVE  (p \o q)[i] <= n
    <3>1. CASE i <= Len(p)
      BY <1>1, <1>2, <1>5, <3>1 DEF Rising
    <3>2. CASE i > Len(p)
      <4>1. i - Len(p) \in 1..Len(q) /\ (p \o q)[i] = q[i - Len(p)]
        BY <1>1, <1>2, <3>2
      <4> QED
        BY <1>5, <4>1 DEF Rising
    <3> QED
      BY <1>1, <1>2, <3>1, <3>2
  <2> QED
    BY <1>1, <2>1, <2>2 DEF Rising
<1> QED
  BY <1>4, <1>5

\* The end of a sequence, and all of one that fits.
LEMMA LastLinesProperties ==
    ASSUME NEW q \in Seq(Nat)
    PROVE  /\ LastLines(q) \in Seq(Nat)
           /\ Len(q) <= BufferLimit => LastLines(q) = q
           /\ \E k \in Nat : /\ Len(LastLines(q)) = Len(q) - k
                             /\ \A i \in 1..Len(LastLines(q)) : LastLines(q)[i] = q[k + i]
<1> DEFINE k == IF Len(q) > BufferLimit THEN Len(q) - BufferLimit ELSE 0
<1>1. Len(q) \in Nat /\ BufferLimit \in Nat
  BY LenProperties, TasksAssumption DEF TasksAssumption
<1>2. k \in Nat /\ k <= Len(q)
  BY <1>1
<1>3. LastLines(q) = SubSeq(q, k + 1, Len(q))
  BY DEF LastLines
<1>4. Len(q) <= BufferLimit => k = 0
  BY <1>1
<1> HIDE DEF k
<1>5. \A i \in (k + 1)..Len(q) : q[i] \in Nat
  BY <1>1, <1>2, ElementOfSeq
<1>6. /\ SubSeq(q, k + 1, Len(q)) \in Seq(Nat)
      /\ Len(SubSeq(q, k + 1, Len(q))) = IF k + 1 <= Len(q) THEN Len(q) - (k + 1) + 1 ELSE 0
      /\ \A i \in 1..(Len(q) - (k + 1) + 1) : SubSeq(q, k + 1, Len(q))[i] = q[(k + 1) + i - 1]
  BY <1>1, <1>2, <1>5, SubSeqProperties
<1>7. Len(LastLines(q)) = Len(q) - k
  BY <1>1, <1>2, <1>3, <1>6
<1>8. \A i \in 1..Len(LastLines(q)) : LastLines(q)[i] = q[k + i]
  BY <1>1, <1>2, <1>3, <1>6, <1>7
<1>9. Len(q) <= BufferLimit => LastLines(q) = q
  BY <1>3, <1>4, SubSeqFull
<1> QED
  BY <1>2, <1>3, <1>6, <1>7, <1>8, <1>9

\* Losing the beginning of a middle piece leaves the order as it was.
LEMMA MiddleCut ==
    ASSUME NEW p \in Seq(Nat), NEW q \in Seq(Nat), NEW r \in Seq(Nat), NEW n,
           Rising(p \o q \o r, n)
    PROVE  Rising(p \o LastLines(q) \o r, n)
<1>1. p \o q \in Seq(Nat) /\ LastLines(q) \in Seq(Nat) /\ p \o LastLines(q) \in Seq(Nat)
  BY ConcatProperties, LastLinesProperties
<1>2. /\ Rising(p \o q, n) /\ Rising(r, n)
      /\ \A i \in 1..Len(p \o q), j \in 1..Len(r) : (p \o q)[i] < r[j]
  BY <1>1, RisingConcat
<1>3. Rising(p, n) /\ Rising(q, n) /\ \A i \in 1..Len(p), j \in 1..Len(q) : p[i] < q[j]
  BY <1>2, RisingConcat
<1>4. PICK k \in Nat : /\ Len(LastLines(q)) = Len(q) - k
                       /\ \A i \in 1..Len(LastLines(q)) : LastLines(q)[i] = q[k + i]
  BY LastLinesProperties
<1>5. Len(p) \in Nat /\ Len(q) \in Nat /\ Len(r) \in Nat /\ Len(LastLines(q)) \in Nat
  BY <1>1, LenProperties
<1>6. \A i \in 1..Len(LastLines(q)) : k + i \in 1..Len(q)
  BY <1>4, <1>5
<1>7. Rising(LastLines(q), n)
  <2>1. ASSUME NEW i \in 1..Len(LastLines(q)), NEW j \in 1..Len(LastLines(q)), i < j
        PROVE  LastLines(q)[i] < LastLines(q)[j]
    <3>1. k + i \in 1..Len(q) /\ k + j \in 1..Len(q) /\ k + i < k + j
      BY <1>5, <1>6, <2>1
    <3>2. q[k + i] < q[k + j]
      BY <1>3, <3>1 DEF Rising
    <3> QED
      BY <1>4, <3>2
  <2>2. ASSUME NEW i \in 1..Len(LastLines(q))
        PROVE  LastLines(q)[i] <= n
    <3>1. q[k + i] <= n
      BY <1>3, <1>6 DEF Rising
    <3> QED
      BY <1>4, <3>1
  <2> QED
    BY <1>1, <2>1, <2>2 DEF Rising
<1>8. Rising(p \o LastLines(q), n)
  BY <1>1, <1>3, <1>4, <1>6, <1>7, RisingConcat
<1>9. /\ \A i \in 1..Len(p), j \in 1..Len(r) : p[i] < r[j]
      /\ \A i \in 1..Len(q), j \in 1..Len(r) : q[i] < r[j]
  <2>1. /\ Len(p \o q) = Len(p) + Len(q)
        /\ \A i \in 1..(Len(p) + Len(q)) : (p \o q)[i] = IF i <= Len(p) THEN p[i] ELSE q[i - Len(p)]
    BY ConcatProperties
  <2>2. \A i \in 1..Len(p) : i \in 1..Len(p \o q) /\ (p \o q)[i] = p[i]
    BY <1>5, <2>1
  <2>3. \A i \in 1..Len(q) : Len(p) + i \in 1..Len(p \o q) /\ (p \o q)[Len(p) + i] = q[i]
    BY <1>5, <2>1
  <2> QED
    BY <1>2, <2>2, <2>3
<1>10. \A i \in 1..Len(p \o LastLines(q)), j \in 1..Len(r) : (p \o LastLines(q))[i] < r[j]
  <2>1. /\ Len(p \o LastLines(q)) = Len(p) + Len(LastLines(q))
        /\ \A i \in 1..(Len(p) + Len(LastLines(q))) :
             (p \o LastLines(q))[i] = IF i <= Len(p) THEN p[i] ELSE LastLines(q)[i - Len(p)]
    BY <1>1, ConcatProperties
  <2>2. SUFFICES ASSUME NEW i \in 1..Len(p \o LastLines(q)), NEW j \in 1..Len(r)
                 PROVE  (p \o LastLines(q))[i] < r[j]
    OBVIOUS
  <2>3. CASE i <= Len(p)
    BY <1>5, <1>9, <2>1, <2>3
  <2>4. CASE i > Len(p)
    <3>1. i - Len(p) \in 1..Len(LastLines(q)) /\ (p \o LastLines(q))[i] = LastLines(q)[i - Len(p)]
      BY <1>5, <2>1, <2>4
    <3> QED
      BY <1>4, <1>6, <1>9, <3>1
  <2> QED
    BY <1>5, <2>1, <2>3, <2>4
<1> QED
  BY <1>1, <1>2, <1>8, <1>10, RisingConcat

\* Concatenation and lines, as names of their own: the proofs below need the
\* laws of the first and no more of the second.
Lines == Seq(Nat)

Cat(p, q) == p \o q

LEMMA CatLaws ==
    /\ << >> \in Lines
    /\ \A p, q \in Lines : Cat(p, q) \in Lines
    /\ \A p \in Lines : Cat(p, << >>) = p /\ Cat(<< >>, p) = p
    /\ \A p, q, r \in Lines : Cat(Cat(p, q), r) = Cat(p, Cat(q, r))
<1>1. << >> \in Lines
  BY DEF Lines
<1>2. ASSUME NEW p \in Lines, NEW q \in Lines
      PROVE  Cat(p, q) \in Lines
  BY ConcatProperties DEF Lines, Cat
<1>3. ASSUME NEW p \in Lines
      PROVE  Cat(p, << >>) = p /\ Cat(<< >>, p) = p
  BY ConcatEmptySeq DEF Lines, Cat
<1>4. ASSUME NEW p \in Lines, NEW q \in Lines, NEW r \in Lines
      PROVE  Cat(Cat(p, q), r) = Cat(p, Cat(q, r))
  <2>1. p \in Seq(Nat) /\ q \in Seq(Nat) /\ r \in Seq(Nat)
    BY DEF Lines
  <2>2. (p \o q) \o r = p \o (q \o r)
    BY <2>1, ConcatAssociative, SMTT(30)
  <2> QED
    BY <2>2 DEF Cat
<1> QED
  BY <1>1, <1>2, <1>3, <1>4

LEMMA CatCut ==
    \A q \in Lines :
        /\ LastLines(q) \in Lines
        /\ Len(q) <= BufferLimit => LastLines(q) = q
        /\ \A p, r \in Lines, n \in Nat :
             Rising(Cat(Cat(p, q), r), n) => Rising(Cat(Cat(p, LastLines(q)), r), n)
<1> SUFFICES ASSUME NEW q \in Lines
             PROVE  /\ LastLines(q) \in Lines
                    /\ Len(q) <= BufferLimit => LastLines(q) = q
                    /\ \A p, r \in Lines, n \in Nat :
                         Rising(Cat(Cat(p, q), r), n) => Rising(Cat(Cat(p, LastLines(q)), r), n)
  OBVIOUS
<1>1. LastLines(q) \in Lines /\ (Len(q) <= BufferLimit => LastLines(q) = q)
  BY LastLinesProperties DEF Lines
<1>2. ASSUME NEW p \in Lines, NEW r \in Lines, NEW n \in Nat, Rising(Cat(Cat(p, q), r), n)
      PROVE  Rising(Cat(Cat(p, LastLines(q)), r), n)
  BY <1>2, MiddleCut DEF Lines, Cat
<1> QED
  BY <1>1, <1>2

LEMMA CatPrint ==
    ASSUME NEW n \in Nat
    PROVE  /\ <<n + 1>> \in Lines
           /\ \A p \in Lines : Append(p, n + 1) = Cat(p, <<n + 1>>)
           /\ \A q \in Lines : Rising(q, n) =>
                Rising(Cat(q, <<n + 1>>), n + 1) /\ Len(Cat(q, <<n + 1>>)) = Len(q) + 1
<1> DEFINE one == <<n + 1>>
<1>1. one \in Seq(Nat) /\ Len(one) = 1 /\ one[1] = n + 1
  OBVIOUS
<1>2. ASSUME NEW p \in Lines
      PROVE  Append(p, n + 1) = Cat(p, one)
  BY AppendIsConcat DEF Lines, Cat
<1> HIDE DEF one
<1>3. ASSUME NEW q \in Lines, Rising(q, n)
      PROVE  Rising(Cat(q, one), n + 1) /\ Len(Cat(q, one)) = Len(q) + 1
  <2>1. q \in Seq(Nat)
    BY DEF Lines
  <2>2. \A i \in 1..Len(q) : q[i] \in Nat /\ q[i] <= n
    BY <1>3, <2>1, ElementOfSeq DEF Rising
  <2>3. \A i \in 1..Len(q) : q[i] <= n + 1 /\ q[i] < n + 1
    BY <2>2
  <2>4. Rising(q, n + 1)
    BY <1>3, <2>3 DEF Rising
  <2>5. Rising(one, n + 1)
    BY <1>1 DEF Rising
  <2>6. \A i \in 1..Len(q), j \in 1..Len(one) : q[i] < one[j]
    BY <1>1, <2>3
  <2>7. Rising(q \o one, n + 1)
    BY <1>1, <2>1, <2>4, <2>5, <2>6, RisingConcat
  <2>8. Len(q \o one) = Len(q) + 1
    <3>1. Len(q \o one) = Len(q) + Len(one)
      BY <1>1, <2>1, ConcatProperties
    <3> QED
      BY <1>1, <3>1
  <2> QED
    BY <2>7, <2>8 DEF Cat
<1> QED
  BY <1>1, <1>2, <1>3 DEF one, Lines

\* The lines of a task on their way to the model: those it was told, those a
\* monitor has in hand, the buffer's and the pipe's.
Way(T, H, B, P) == Cat(Cat(Cat(T, H), B), P)

\* A task prints.
LEMMA WayOfPrint ==
    ASSUME NEW T \in Lines, NEW H \in Lines, NEW B \in Lines, NEW P \in Lines,
           NEW n \in Nat, Rising(Way(T, H, B, P), n)
    PROVE  /\ Rising(Way(T, H, B, Append(P, n + 1)), n + 1)
           /\ Len(Way(T, H, B, Append(P, n + 1))) = Len(Way(T, H, B, P)) + 1
<1> DEFINE q == Cat(Cat(T, H), B)
           one == <<n + 1>>
<1>1. q \in Lines /\ Cat(q, P) \in Lines
  BY CatLaws, Zenon
<1>2. one \in Lines /\ Append(P, n + 1) = Cat(P, one)
  BY CatPrint, Zenon
<1>3. Rising(Cat(q, P), n)
  BY DEF Way
<1>4. Rising(Cat(Cat(q, P), one), n + 1) /\ Len(Cat(Cat(q, P), one)) = Len(Cat(q, P)) + 1
  BY <1>1, <1>3, CatPrint, Zenon
<1> HIDE DEF q, one
<1>5. Cat(q, Append(P, n + 1)) = Cat(Cat(q, P), one)
  <2>1. Cat(Cat(q, P), one) = Cat(q, Cat(P, one))
    BY <1>1, <1>2, CatLaws
  <2> QED
    BY <1>2, <2>1
<1> QED
  BY <1>4, <1>5, Zenon DEF Way, q

\* The reader reads; command_output or kill_command takes the buffer; a monitor
\* takes it and goes on, or ends.
LEMMA WaysOfLooks ==
    ASSUME NEW T \in Lines, NEW H \in Lines, NEW B \in Lines, NEW P \in Lines,
           NEW n \in Nat, Rising(Way(T, H, B, P), n)
    PROVE  /\ Way(Cat(T, B), << >>, << >>, P) = Way(T, << >>, B, P)
           /\ Rising(Way(T, H, LastLines(Cat(B, P)), << >>), n)
           /\ Len(Cat(B, P)) <= BufferLimit =>
                Way(T, H, LastLines(Cat(B, P)), << >>) = Way(T, H, B, P)
           /\ Rising(Way(T, LastLines(Cat(H, B)), << >>, P), n)
           /\ Len(Cat(H, B)) <= BufferLimit =>
                Way(T, LastLines(Cat(H, B)), << >>, P) = Way(T, H, B, P)
           /\ Way(Cat(T, LastLines(Cat(H, B))), << >>, << >>, P) = Way(T, LastLines(Cat(H, B)), << >>, P)
<1> DEFINE E == << >>
           BP == Cat(B, P)
           HB == Cat(H, B)
           TH == Cat(T, H)
<1>1. /\ E \in Lines
      /\ \A p, q \in Lines : Cat(p, q) \in Lines
      /\ \A p \in Lines : Cat(p, E) = p /\ Cat(E, p) = p
      /\ \A p, q, r \in Lines : Cat(Cat(p, q), r) = Cat(p, Cat(q, r))
  BY CatLaws, Zenon
<1>2. BP \in Lines /\ HB \in Lines /\ TH \in Lines
  BY <1>1, Zenon
<1>3. LastLines(BP) \in Lines /\ LastLines(HB) \in Lines
  BY <1>2, CatCut, Zenon
<1>4. Way(T, H, B, P) = Cat(TH, BP) /\ Way(T, H, B, P) = Cat(Cat(TH, BP), E)
  BY <1>1, <1>2 DEF Way
<1>5. Way(T, H, B, P) = Cat(Cat(T, HB), P)
  BY <1>1, Zenon DEF Way
<1> HIDE DEF E, BP, HB, TH
<1>6. Rising(Cat(Cat(TH, LastLines(BP)), E), n)
  <2>1. Rising(Cat(Cat(TH, BP), E), n)
    BY <1>4
  <2> QED
    BY <1>1, <1>2, <2>1, CatCut
<1>7. Rising(Cat(Cat(T, LastLines(HB)), P), n)
  BY <1>2, <1>5, CatCut
<1>8. Way(T, H, LastLines(BP), E) = Cat(Cat(TH, LastLines(BP)), E)
  BY Zenon DEF Way, TH
<1>9. Way(T, LastLines(HB), E, P) = Cat(Cat(T, LastLines(HB)), P)
  BY <1>1, <1>3, Zenon DEF Way
<1>10. Way(Cat(T, LastLines(HB)), E, E, P) = Cat(Cat(T, LastLines(HB)), P)
  BY <1>1, <1>3, Zenon DEF Way
<1>11. Way(Cat(T, B), E, E, P) = Way(T, E, B, P)
  BY <1>1, Zenon DEF Way
<1>12. Len(BP) <= BufferLimit => Way(T, H, LastLines(BP), E) = Way(T, H, B, P)
  BY <1>2, <1>4, <1>8, CatCut, Zenon
<1>13. Len(HB) <= BufferLimit => Way(T, LastLines(HB), E, P) = Way(T, H, B, P)
  BY <1>2, <1>5, <1>9, CatCut, Zenon
<1> QED
  BY <1>6, <1>7, <1>8, <1>9, <1>10, <1>11, <1>12, <1>13, Zenon DEF E, BP, HB

OutputTypes ==
    /\ told \in [Tasks -> Lines]
    /\ \A t \in Tasks : /\ tasks[t].printed \in Nat /\ tasks[t].dropped \in BOOLEAN
                        /\ tasks[t].buf \in Lines /\ tasks[t].pipe \in Lines
    /\ \A s \in Sessions : calls[s].gathered \in Lines /\ calls[s].dropped \in BOOLEAN

\* A session watches tasks of its own only, and a monitor alone has lines in
\* hand.
CallsWatch ==
    \A s \in Sessions :
        /\ calls[s].tool \in {"output", "monitor"} =>
             calls[s].task \in Tasks /\ tasks[calls[s].task].owner = s
        /\ calls[s].tool \in {"none", "run"} => calls[s].task = 0
        /\ calls[s].tool # "monitor" => calls[s].gathered = << >> /\ calls[s].dropped = FALSE

OnWay(t) ==
    LET w == Way(told[t], InHand(t), tasks[t].buf, tasks[t].pipe)
    IN  Rising(w, tasks[t].printed) /\ (Len(w) = tasks[t].printed \/ LossKnown(t))

OutputInv == OutputTypes /\ CallsWatch /\ \A t \in Tasks : OnWay(t)

\* InHand, of any calls.
Hand(c, t) ==
    LET watching == {s \in Sessions : c[s].task = t}
    IN  IF watching = {} THEN << >> ELSE c[CHOOSE s \in watching : TRUE].gathered

LEMMA HandIs ==
    ASSUME NEW c, NEW t, NEW o, \A u \in Sessions : c[u].task = t => u = o
    PROVE  Hand(c, t) = IF o \in Sessions /\ c[o].task = t THEN c[o].gathered ELSE << >>
<1> DEFINE watching == {s \in Sessions : c[s].task = t}
<1>1. CASE o \in Sessions /\ c[o].task = t
  <2>1. watching = {o}
    BY <1>1
  <2>2. (CHOOSE s \in watching : TRUE) = o
    BY <2>1
  <2> QED
    BY <1>1, <2>1, <2>2 DEF Hand
<1>2. CASE ~(o \in Sessions /\ c[o].task = t)
  BY <1>2 DEF Hand
<1> QED
  BY <1>1, <1>2

LEMMA Watchers ==
    ASSUME SignalInv, CallsWatch
    PROVE  /\ \A t \in Tasks, u \in Sessions : calls[u].task = t =>
                u = tasks[t].owner /\ calls[u].tool \in {"output", "monitor"}
           /\ \A t \in Tasks : InHand(t) =
                IF tasks[t].owner \in Sessions /\ calls[tasks[t].owner].task = t
                THEN calls[tasks[t].owner].gathered ELSE << >>
<1>1. \A u \in Sessions : calls[u].tool \in {"none", "run", "output", "monitor"}
  BY DEF SignalInv, CallTypes, IsCall
<1>2. 0 \notin Tasks
  BY TasksAssumption DEF TasksAssumption
<1>3. \A t \in Tasks, u \in Sessions : calls[u].task = t =>
        u = tasks[t].owner /\ calls[u].tool \in {"output", "monitor"}
  BY <1>1, <1>2 DEF CallsWatch
<1>4. ASSUME NEW t \in Tasks
      PROVE  InHand(t) = IF tasks[t].owner \in Sessions /\ calls[tasks[t].owner].task = t
                             THEN calls[tasks[t].owner].gathered ELSE << >>
  <2>1. InHand(t) = Hand(calls, t)
    BY DEF InHand, Hand
  <2>2. \A u \in Sessions : calls[u].task = t => u = tasks[t].owner
    BY <1>3
  <2> QED
    BY <2>1, <2>2, HandIs, Zenon
<1> QED
  BY <1>3, <1>4, Zenon

\* The same of the next state.
LEMMA WatchersNext ==
    ASSUME SignalInv', CallsWatch'
    PROVE  /\ \A t \in Tasks, u \in Sessions : calls'[u].task = t =>
                u = tasks'[t].owner /\ calls'[u].tool \in {"output", "monitor"}
           /\ \A t \in Tasks : InHand(t)' =
                IF tasks'[t].owner \in Sessions /\ calls'[tasks'[t].owner].task = t
                THEN calls'[tasks'[t].owner].gathered ELSE << >>
<1>1. \A u \in Sessions : calls'[u].tool \in {"none", "run", "output", "monitor"}
  BY DEF SignalInv, CallTypes, IsCall
<1>2. 0 \notin Tasks
  BY TasksAssumption DEF TasksAssumption
<1>3. \A t \in Tasks, u \in Sessions : calls'[u].task = t =>
        u = tasks'[t].owner /\ calls'[u].tool \in {"output", "monitor"}
  BY <1>1, <1>2 DEF CallsWatch
<1>4. ASSUME NEW t \in Tasks
      PROVE  InHand(t)' = IF tasks'[t].owner \in Sessions /\ calls'[tasks'[t].owner].task = t
                             THEN calls'[tasks'[t].owner].gathered ELSE << >>
  <2>1. InHand(t)' = Hand(calls', t)
    BY DEF InHand, Hand
  <2>2. \A u \in Sessions : calls'[u].task = t => u = tasks'[t].owner
    BY <1>3
  <2> QED
    BY <2>1, <2>2, HandIs, Zenon
<1> QED
  BY <1>3, <1>4, Zenon

LEMMA HandIsLines ==
    ASSUME SignalInv, OutputInv, NEW t \in Tasks
    PROVE  InHand(t) \in Lines
BY Watchers, CatLaws DEF OutputInv, OutputTypes

LEMMA OutputInit == TasksInit => OutputInv
<1> SUFFICES ASSUME TasksInit
             PROVE  OutputInv
  OBVIOUS
<1>1. SignalInv
  BY SignalInit
<1>2. \A s \in Sessions : /\ calls[s].tool = "none" /\ calls[s].task = 0
                          /\ calls[s].gathered = << >> /\ calls[s].dropped = FALSE
  BY DEF TasksInit, NoCall
<1>3. \A t \in Tasks : /\ tasks[t].printed = 0 /\ tasks[t].buf = << >> /\ tasks[t].pipe = << >>
                       /\ tasks[t].dropped = FALSE /\ tasks[t].owner = "none" /\ told[t] = << >>
  BY DEF TasksInit, NoTask
<1>4. told \in [Tasks -> Lines]
  BY CatLaws DEF TasksInit
<1>5. OutputTypes
  <2>1. << >> \in Lines
    BY CatLaws
  <2>2. \A t \in Tasks : /\ tasks[t].printed \in Nat /\ tasks[t].dropped \in BOOLEAN
                           /\ tasks[t].buf \in Lines /\ tasks[t].pipe \in Lines
    <3>1. ASSUME NEW t \in Tasks
          PROVE  tasks[t].printed \in Nat
      BY <1>3
    <3>2. ASSUME NEW t \in Tasks
          PROVE  tasks[t].dropped \in BOOLEAN
      BY <1>3
    <3>3. ASSUME NEW t \in Tasks
          PROVE  tasks[t].buf \in Lines /\ tasks[t].pipe \in Lines
      BY <1>3, <2>1, Zenon
    <3> QED
      BY <3>1, <3>2, <3>3
  <2>3. \A s \in Sessions : calls[s].gathered \in Lines /\ calls[s].dropped \in BOOLEAN
    BY <1>2, <2>1
  <2> QED
    BY <1>4, <2>2, <2>3, Zenon DEF OutputTypes
<1>6. CallsWatch
  BY <1>2 DEF CallsWatch
<1>7. ASSUME NEW t \in Tasks
      PROVE  OnWay(t)
  <2>1. InHand(t) = << >>
    BY <1>1, <1>3, <1>6, Watchers, TasksAssumption DEF TasksAssumption
  <2>2. Way(<< >>, << >>, << >>, << >>) = << >>
    BY CatLaws, Zenon DEF Way
  <2>3. Rising(<< >>, 0) /\ Len(<< >>) = 0
    BY DEF Rising
  <2> QED
    BY <1>3, <2>1, <2>2, <2>3 DEF OnWay
<1> QED
  BY <1>5, <1>6, <1>7 DEF OutputInv

\* A task of which nothing changes that concerns its output.
LEMMA Elsewhere ==
    ASSUME OutputInv, NEW t \in Tasks, told'[t] = told[t],
           tasks'[t].printed = tasks[t].printed, tasks'[t].buf = tasks[t].buf,
           tasks'[t].pipe = tasks[t].pipe, InHand(t)' = InHand(t), LossKnown(t) => LossKnown(t)'
    PROVE  OnWay(t)'
BY DEF OutputInv, OnWay

\* The calls stay as they are, and of the tasks what they printed.
LEMMA CallsStay ==
    ASSUME SignalInv, SignalInv', OutputInv, UNCHANGED <<calls, told, noted>>,
           \A t \in Tasks :
             /\ tasks'[t].printed = tasks[t].printed /\ tasks'[t].buf = tasks[t].buf
             /\ tasks'[t].pipe = tasks[t].pipe /\ tasks'[t].dropped = tasks[t].dropped
             /\ tasks'[t].owner = tasks[t].owner \/ tasks[t].owner \notin Sessions
    PROVE  OutputInv'
<1>1. OutputTypes'
  BY DEF OutputInv, OutputTypes
<1>2. CallsWatch'
  BY DEF OutputInv, CallsWatch
<1>3. ASSUME NEW t \in Tasks
      PROVE  OnWay(t)'
  <2>1. InHand(t)' = InHand(t)
    BY DEF InHand
  <2>2. LossKnown(t) => LossKnown(t)'
    BY DEF LossKnown
  <2> QED
    BY <2>1, <2>2, Elsewhere
<1> QED
  BY <1>1, <1>2, <1>3 DEF OutputInv

\* A task prints or its reader reads: the calls stay as they are.
LEMMA OneTask ==
    ASSUME SignalInv, SignalInv', OutputInv, UNCHANGED <<calls, told, noted>>, NEW t \in Tasks,
           \A u \in Tasks \ {t} : tasks'[u] = tasks[u],
           tasks'[t].owner = tasks[t].owner, tasks'[t].printed \in Nat,
           tasks'[t].dropped \in BOOLEAN, tasks'[t].buf \in Lines, tasks'[t].pipe \in Lines,
           tasks[t].dropped => tasks'[t].dropped,
           NEW w, w = Way(told[t], InHand(t), tasks'[t].buf, tasks'[t].pipe),
           Rising(w, tasks'[t].printed),
           Len(w) = tasks'[t].printed \/ LossKnown(t) \/ tasks'[t].dropped
    PROVE  OutputInv'
<1>1. OutputTypes'
  BY DEF OutputInv, OutputTypes
<1>2. CallsWatch'
  <2>1. \A u \in Tasks : tasks'[u].owner = tasks[u].owner
    OBVIOUS
  <2> QED
    BY <2>1 DEF OutputInv, CallsWatch
<1>3. ASSUME NEW u \in Tasks
      PROVE  InHand(u)' = InHand(u) /\ (LossKnown(u) => LossKnown(u)')
  <2>1. InHand(u)' = InHand(u)
    BY DEF InHand
  <2>2. tasks[u].dropped => tasks'[u].dropped
    OBVIOUS
  <2> QED
    BY <2>1, <2>2 DEF LossKnown
<1>4. ASSUME NEW u \in Tasks \ {t}
      PROVE  OnWay(u)'
  BY <1>3, Elsewhere
<1>5. OnWay(t)'
  <2>1. tasks'[t].dropped => LossKnown(t)'
    BY DEF LossKnown
  <2> QED
    BY <1>3, <2>1 DEF OnWay
<1> QED
  BY <1>1, <1>2, <1>4, <1>5 DEF OutputInv

LEMMA TaskOutputStep ==
    ASSUME SignalInv, SignalInv', ProcessInv, OutputInv, NEW t \in Tasks, TaskActs(t)
    PROVE  OutputInv'
<1>1. UNCHANGED <<calls, told, noted>>
  BY DEF TaskActs, Prints, Exits, ReaderReads
<1>2. IsTask(tasks[t]) /\ tasks = [u \in Tasks |-> tasks[u]]
  BY DEF ProcessInv, TasksAreLawful, IsLawful
<1> DEFINE T == told[t]
           H == InHand(t)
           B == tasks[t].buf
           P == tasks[t].pipe
           n == tasks[t].printed
<1>3. /\ T \in Lines /\ H \in Lines /\ B \in Lines /\ P \in Lines /\ n \in Nat
      /\ tasks[t].dropped \in BOOLEAN
  BY HandIsLines DEF OutputInv, OutputTypes
<1>4. Rising(Way(T, H, B, P), n) /\ (Len(Way(T, H, B, P)) = n \/ LossKnown(t))
  BY DEF OutputInv, OnWay
<1>5. CASE Prints(t)
  <2>1. tasks' = [tasks EXCEPT ![t] = [tasks[t] EXCEPT !.printed = n + 1, !.pipe = Append(P, n + 1)]]
    BY <1>5 DEF Prints
  <2>2. /\ tasks'[t].owner = tasks[t].owner /\ tasks'[t].printed = n + 1 /\ tasks'[t].buf = B
        /\ tasks'[t].pipe = Append(P, n + 1) /\ tasks'[t].dropped = tasks[t].dropped
        /\ \A u \in Tasks \ {t} : tasks'[u] = tasks[u]
    BY <1>2, <2>1 DEF IsTask
  <2> DEFINE w == Way(T, H, B, Append(P, n + 1))
  <2>3. Rising(w, n + 1) /\ Len(w) = Len(Way(T, H, B, P)) + 1
    BY <1>3, <1>4, WayOfPrint
  <2>4. Append(P, n + 1) \in Lines /\ n + 1 \in Nat
    <3>1. n + 1 \in Nat
      BY <1>3
    <3>2. Append(P, n + 1) = Cat(P, <<n + 1>>) /\ <<n + 1>> \in Lines
      BY <1>3, CatPrint, Zenon
    <3> QED
      <4>1. Cat(P, <<n + 1>>) \in Lines
        BY <1>3, <3>2, CatLaws
      <4> QED
        BY <3>1, <3>2, <4>1
  <2> HIDE DEF T, H, B, P, n
  <2>5. Len(w) = n + 1 \/ LossKnown(t)
    BY <1>4, <2>3
  <2>6. w = Way(told[t], InHand(t), tasks'[t].buf, tasks'[t].pipe)
    BY <2>2 DEF T, H
  <2> HIDE DEF w
  <2> QED
    BY <1>1, <1>3, <2>2, <2>3, <2>4, <2>5, <2>6, OneTask
<1>6. CASE ReaderReads(t)
  <2> DEFINE all == Cat(B, P)
             d == tasks[t].dropped \/ Len(all) > BufferLimit
             w == Way(T, H, LastLines(all), << >>)
  <2>1. tasks' = [tasks EXCEPT ![t] = [tasks[t] EXCEPT !.buf = LastLines(all), !.pipe = << >>, !.dropped = d]]
    BY <1>6 DEF ReaderReads, Cat
  <2>2. d \in BOOLEAN /\ (tasks[t].dropped => d) /\ (~d => ~(Len(all) > BufferLimit))
    BY <1>3
  <2>3. all \in Lines /\ LastLines(all) \in Lines /\ << >> \in Lines
    BY <1>3, CatLaws, CatCut
  <2>4. Len(all) \in Nat /\ BufferLimit \in Nat
    BY <2>3, LenProperties, TasksAssumption DEF TasksAssumption, Lines
  <2>5. Rising(w, n) /\ (Len(all) <= BufferLimit => Len(w) = Len(Way(T, H, B, P)))
    BY <1>3, <1>4, WaysOfLooks
  <2>6. ~d => Len(all) <= BufferLimit
    BY <2>2, <2>4
  <2> HIDE DEF d
  <2>7. /\ tasks'[t].owner = tasks[t].owner /\ tasks'[t].printed = n /\ tasks'[t].buf = LastLines(all)
        /\ tasks'[t].pipe = << >> /\ tasks'[t].dropped = d
        /\ \A u \in Tasks \ {t} : tasks'[u] = tasks[u]
    BY <1>2, <2>1 DEF IsTask
  <2> HIDE DEF T, H, B, P, n, all
  <2>8. Len(w) = n \/ LossKnown(t) \/ tasks'[t].dropped
    BY <1>4, <2>5, <2>6, <2>7
  <2>9. w = Way(told[t], InHand(t), tasks'[t].buf, tasks'[t].pipe)
    BY <2>7 DEF T, H
  <2> HIDE DEF w
  <2> QED
    BY <1>1, <1>3, <2>2, <2>3, <2>5, <2>7, <2>8, <2>9, OneTask
<1>7. CASE Exits(t)
  <2>1. tasks' = [tasks EXCEPT ![t] = [tasks[t] EXCEPT !.shell = FALSE, !.ended = TRUE]]
    BY <1>7 DEF Exits
  <2>2. \A u \in Tasks :
          /\ tasks'[u].printed = tasks[u].printed /\ tasks'[u].buf = tasks[u].buf
          /\ tasks'[u].pipe = tasks[u].pipe /\ tasks'[u].dropped = tasks[u].dropped
          /\ tasks'[u].owner = tasks[u].owner
    BY <1>2, <2>1 DEF IsTask
  <2> QED
    BY <1>1, <2>2, CallsStay
<1> QED
  BY <1>5, <1>6, <1>7 DEF TaskActs

\* A call begins or ends, and has nothing in hand.
LEMMA CallTurns ==
    ASSUME SignalInv, SignalInv', OutputInv, UNCHANGED <<tasks, told, noted>>,
           NEW s \in Sessions, NEW c, calls' = [calls EXCEPT ![s] = c],
           calls[s].tool # "monitor", c.gathered = << >>, c.dropped = FALSE,
           c.tool \in {"output", "monitor"} => c.task \in Tasks /\ tasks[c.task].owner = s,
           c.tool \in {"none", "run"} => c.task = 0
    PROVE  OutputInv'
<1>1. calls'[s] = c /\ \A u \in Sessions \ {s} : calls'[u] = calls[u]
  BY DEF SignalInv, CallTypes
<1>2. calls[s].gathered = << >> /\ calls[s].dropped = FALSE
  BY DEF OutputInv, CallsWatch
<1>3. OutputTypes'
  <2>1. \A u \in Sessions : calls'[u].gathered \in Lines /\ calls'[u].dropped \in BOOLEAN
    BY <1>1, CatLaws DEF OutputInv, OutputTypes
  <2> QED
    BY <2>1 DEF OutputInv, OutputTypes
<1>4. CallsWatch'
  BY <1>1 DEF OutputInv, CallsWatch
<1>5. ASSUME NEW t \in Tasks
      PROVE  OnWay(t)'
  <2>1. InHand(t)' = InHand(t)
    <3> DEFINE o == tasks[t].owner
    <3>1. InHand(t) = IF o \in Sessions /\ calls[o].task = t THEN calls[o].gathered ELSE << >>
      BY Watchers DEF OutputInv
    <3>2. InHand(t)' = IF o \in Sessions /\ calls'[o].task = t THEN calls'[o].gathered ELSE << >>
      BY <1>4, WatchersNext
    <3> HIDE DEF o
    <3> QED
      BY <1>1, <1>2, <3>1, <3>2
  <2>2. LossKnown(t) => LossKnown(t)'
    BY <1>1, <1>2 DEF LossKnown
  <2> QED
    BY <2>1, <2>2, Elsewhere
<1> QED
  BY <1>3, <1>4, <1>5 DEF OutputInv

\* A look takes the buffer of a task: `h` is what the monitor has in hand then.
LEMMA Look ==
    ASSUME SignalInv, SignalInv', OutputInv, NEW s \in Sessions, NEW t \in Tasks,
           tasks[t].owner = s, calls[s].task \in {0, t},
           \A u \in Tasks \ {t} : tasks'[u] = tasks[u],
           tasks'[t].owner = s, tasks'[t].printed = tasks[t].printed, tasks'[t].pipe = tasks[t].pipe,
           tasks'[t].buf = << >>, tasks'[t].dropped = FALSE,
           \A u \in Sessions \ {s} : calls'[u] = calls[u],
           NEW c, calls'[s] = c,
           \/ c.tool = "none" /\ c.task = 0 /\ c.gathered = << >> /\ c.dropped = FALSE
           \/ c.tool = "monitor" /\ c.task = t /\ c.gathered \in Lines /\ c.dropped \in BOOLEAN,
           NEW lines \in Lines, told' = [told EXCEPT ![t] = lines],
           noted \subseteq noted',
           NEW w, w = Way(lines, c.gathered, << >>, tasks[t].pipe), Rising(w, tasks[t].printed),
           Len(w) = tasks[t].printed \/ t \in noted' \/ c.dropped
    PROVE  OutputInv'
<1>1. 0 \notin Tasks /\ << >> \in Lines
  BY CatLaws, TasksAssumption DEF TasksAssumption
<1>2. told' \in [Tasks -> Lines] /\ told'[t] = lines /\ \A u \in Tasks \ {t} : told'[u] = told[u]
  BY DEF OutputInv, OutputTypes
<1>3. OutputTypes'
  <2>1. \A u \in Sessions : calls'[u].gathered \in Lines /\ calls'[u].dropped \in BOOLEAN
    BY <1>1 DEF OutputInv, OutputTypes
  <2>2. \A u \in Tasks : /\ tasks'[u].printed \in Nat /\ tasks'[u].dropped \in BOOLEAN
                         /\ tasks'[u].buf \in Lines /\ tasks'[u].pipe \in Lines
    BY <1>1 DEF OutputInv, OutputTypes
  <2> QED
    BY <1>2, <2>1, <2>2 DEF OutputTypes
<1>4. CallsWatch'
  <2>1. \A u \in Tasks : tasks'[u].owner = tasks[u].owner
    OBVIOUS
  <2>2. ASSUME NEW u \in Sessions \ {s}
        PROVE  /\ calls'[u].tool \in {"output", "monitor"} =>
                    calls'[u].task \in Tasks /\ tasks'[calls'[u].task].owner = u
               /\ calls'[u].tool \in {"none", "run"} => calls'[u].task = 0
               /\ calls'[u].tool # "monitor" => calls'[u].gathered = << >> /\ calls'[u].dropped = FALSE
    BY <2>1 DEF OutputInv, CallsWatch
  <2>3. /\ calls'[s].tool \in {"output", "monitor"} =>
             calls'[s].task \in Tasks /\ tasks'[calls'[s].task].owner = s
        /\ calls'[s].tool \in {"none", "run"} => calls'[s].task = 0
        /\ calls'[s].tool # "monitor" => calls'[s].gathered = << >> /\ calls'[s].dropped = FALSE
    OBVIOUS
  <2> QED
    BY <2>2, <2>3 DEF CallsWatch
<1>5. \A u \in Tasks : InHand(u) = IF tasks[u].owner \in Sessions /\ calls[tasks[u].owner].task = u
                                   THEN calls[tasks[u].owner].gathered ELSE << >>
  BY Watchers DEF OutputInv
<1>6. \A u \in Tasks : InHand(u)' = IF tasks'[u].owner \in Sessions /\ calls'[tasks'[u].owner].task = u
                                    THEN calls'[tasks'[u].owner].gathered ELSE << >>
  BY <1>4, WatchersNext
<1>7. ASSUME NEW u \in Tasks \ {t}
      PROVE  OnWay(u)'
  <2>1. InHand(u)' = InHand(u)
    <3>1. tasks'[u].owner = tasks[u].owner /\ calls[s].task # u /\ calls'[s].task # u
      BY <1>1
    <3> QED
      BY <1>5, <1>6, <3>1
  <2>2. LossKnown(u) => LossKnown(u)'
    <3>1. \A x \in Sessions : calls[x].task = u => calls'[x] = calls[x]
      BY <1>1
    <3> QED
      BY <3>1 DEF LossKnown
  <2> QED
    BY <1>2, <2>1, <2>2, Elsewhere
<1>8. OnWay(t)'
  <2>1. InHand(t)' = c.gathered
    BY <1>1, <1>6
  <2>2. t \in noted' \/ c.dropped => LossKnown(t)'
    BY DEF LossKnown
  <2> QED
    BY <1>2, <2>1, <2>2 DEF OnWay
<1> QED
  BY <1>3, <1>4, <1>7, <1>8 DEF OutputInv

LEMMA DrainedFields ==
    ASSUME NEW r, IsTask(r)
    PROVE  /\ IsTask(Drained(r)) /\ Drained(r).owner = r.owner /\ Drained(r).printed = r.printed
           /\ Drained(r).pipe = r.pipe /\ Drained(r).buf = << >> /\ Drained(r).dropped = FALSE
BY DEF IsTask, Drained

LEMMA NoCallFields == /\ NoCall.tool = "none" /\ NoCall.task = 0
                      /\ NoCall.gathered = << >> /\ NoCall.dropped = FALSE
BY DEF NoCall

\* The buffer is told at once, to a session that has nothing in hand of it.
LEMMA TellAll ==
    ASSUME SignalInv, SignalInv', OutputInv, NEW s \in Sessions, NEW t \in Tasks,
           tasks[t].owner = s, calls[s].task \in {0, t}, calls[s].tool # "monitor",
           \A u \in Tasks \ {t} : tasks'[u] = tasks[u],
           tasks'[t].owner = s, tasks'[t].printed = tasks[t].printed, tasks'[t].pipe = tasks[t].pipe,
           tasks'[t].buf = << >>, tasks'[t].dropped = FALSE,
           \A u \in Sessions \ {s} : calls'[u] = calls[u], calls'[s] = NoCall,
           Tell(t, tasks[t].buf, tasks[t].dropped)
    PROVE  OutputInv'
<1> DEFINE T == told[t]
           B == tasks[t].buf
           P == tasks[t].pipe
           n == tasks[t].printed
           w == Way(Cat(T, B), << >>, << >>, P)
<1>1. T \in Lines /\ B \in Lines /\ P \in Lines /\ n \in Nat /\ << >> \in Lines
  BY CatLaws DEF OutputInv, OutputTypes
<1>2. calls[s].gathered = << >> /\ calls[s].dropped = FALSE
  BY DEF OutputInv, CallsWatch
<1>3. InHand(t) = << >>
  BY <1>2, Watchers DEF OutputInv
<1>4. Rising(Way(T, << >>, B, P), n) /\ (Len(Way(T, << >>, B, P)) = n \/ LossKnown(t))
  BY <1>3 DEF OutputInv, OnWay
<1>5. LossKnown(t) => t \in noted \/ tasks[t].dropped
  <2>1. \A x \in Sessions : calls[x].task = t => x = s
    BY Watchers DEF OutputInv
  <2> QED
    BY <1>2, <2>1 DEF LossKnown
<1>6. /\ told' = [told EXCEPT ![t] = Cat(T, B)] /\ noted \subseteq noted'
      /\ t \in noted \/ tasks[t].dropped => t \in noted'
  BY DEF Tell, Cat
<1>7. w = Way(T, << >>, B, P) /\ Cat(T, B) \in Lines
  <2>1. Cat(T, B) \in Lines
    BY <1>1, CatLaws
  <2>2. w = Way(T, << >>, B, P)
    <3> HIDE DEF T, B, P, n
    <3>1. Way(Cat(T, B), << >>, << >>, P) = Way(T, << >>, B, P)
      BY <1>1, <1>4, WaysOfLooks
    <3> QED
      BY <3>1
  <2> QED
    BY <2>1, <2>2
<1>8. Rising(w, n) /\ (Len(w) = n \/ t \in noted')
  BY <1>4, <1>5, <1>6, <1>7
<1>9. w = Way(Cat(T, B), NoCall.gathered, << >>, P)
  BY NoCallFields
<1> HIDE DEF w
<1> QED
  BY <1>6, <1>7, <1>8, <1>9, NoCallFields, Look

\* A monitor takes the buffer, and goes on or tells what it has.
LEMMA MonitorStep ==
    ASSUME SignalInv, SignalInv', ProcessInv, OutputInv, NEW s \in Sessions, MonitorLook(s)
    PROVE  OutputInv'
<1> DEFINE t == calls[s].task
           T == told[t]
           H == calls[s].gathered
           B == tasks[t].buf
           P == tasks[t].pipe
           n == tasks[t].printed
           all == Cat(H, B)
           d == calls[s].dropped \/ tasks[t].dropped \/ Len(all) > BufferLimit
<1>1. calls[s].tool = "monitor"
  BY DEF MonitorLook
<1>2. t \in Tasks /\ tasks[t].owner = s
  BY <1>1 DEF OutputInv, CallsWatch
<1>3. /\ T \in Lines /\ H \in Lines /\ B \in Lines /\ P \in Lines /\ n \in Nat /\ << >> \in Lines
      /\ calls[s].dropped \in BOOLEAN /\ tasks[t].dropped \in BOOLEAN
  BY <1>2, CatLaws DEF OutputInv, OutputTypes
<1>4. InHand(t) = H
  BY <1>2, Watchers DEF OutputInv
<1>5. Rising(Way(T, H, B, P), n) /\ (Len(Way(T, H, B, P)) = n \/ LossKnown(t))
  BY <1>2, <1>4 DEF OutputInv, OnWay
<1>6. LossKnown(t) => t \in noted \/ d
  <2>1. \A x \in Sessions : calls[x].task = t => x = s
    BY <1>2, Watchers DEF OutputInv
  <2> QED
    BY <2>1 DEF LossKnown
<1>7. d \in BOOLEAN
  BY <1>3
<1>8. ~d => Len(all) <= BufferLimit
  <2>1. all \in Lines
    BY <1>3, CatLaws
  <2>2. Len(all) \in Nat /\ BufferLimit \in Nat
    BY <2>1, LenProperties, TasksAssumption DEF TasksAssumption, Lines
  <2> QED
    BY <2>2
<1>9. /\ tasks' = [tasks EXCEPT ![t] = Drained(tasks[t])]
      /\ \/ Tell(t, LastLines(all), d) /\ calls' = [calls EXCEPT ![s] = NoCall]
         \/ /\ calls' = [calls EXCEPT ![s] = [calls[s] EXCEPT !.gathered = LastLines(all), !.dropped = d]]
            /\ UNCHANGED <<told, noted>>
  BY DEF MonitorLook, Cat
<1> DEFINE L == LastLines(all)
           w == Way(T, L, << >>, P)
<1>10. L \in Lines /\ Cat(T, L) \in Lines
  <2>1. all \in Lines
    BY <1>3, CatLaws
  <2>2. L \in Lines
    BY <2>1, CatCut
  <2> QED
    BY <1>3, <2>2, CatLaws
<1>11. /\ Rising(w, n) /\ (Len(all) <= BufferLimit => Len(w) = Len(Way(T, H, B, P)))
       /\ Way(Cat(T, L), << >>, << >>, P) = w
  BY <1>3, <1>5, WaysOfLooks
<1> HIDE DEF d, L
<1>12. Len(w) = n \/ t \in noted \/ d
  BY <1>5, <1>6, <1>8, <1>11
<1>13. /\ IsTask(tasks[t]) /\ tasks = [u \in Tasks |-> tasks[u]]
       /\ calls = [u \in Sessions |-> calls[u]] /\ IsCall(calls[s])
  BY <1>2 DEF ProcessInv, TasksAreLawful, IsLawful, SignalInv, CallTypes
<1>14. /\ \A u \in Tasks \ {t} : tasks'[u] = tasks[u]
       /\ tasks'[t].owner = s /\ tasks'[t].printed = n /\ tasks'[t].pipe = P
       /\ tasks'[t].buf = << >> /\ tasks'[t].dropped = FALSE
  BY <1>2, <1>9, <1>13, DrainedFields
<1>15. CASE Tell(t, L, d) /\ calls' = [calls EXCEPT ![s] = NoCall]
  <2>1. /\ told' = [told EXCEPT ![t] = Cat(T, L)] /\ noted \subseteq noted' /\ (d => t \in noted')
    BY <1>7, <1>15 DEF Tell, Cat
  <2>2. calls'[s] = NoCall /\ \A u \in Sessions \ {s} : calls'[u] = calls[u]
    BY <1>13, <1>15
  <2>3. w = Way(Cat(T, L), NoCall.gathered, << >>, P)
    BY <1>11, NoCallFields
  <2>4. Len(w) = n \/ t \in noted'
    BY <1>12, <2>1
  <2> HIDE DEF w
  <2> QED
    BY <1>2, <1>10, <1>11, <1>14, <2>1, <2>2, <2>3, <2>4, NoCallFields, Look
<1>16. ASSUME calls' = [calls EXCEPT ![s] = [calls[s] EXCEPT !.gathered = L, !.dropped = d]],
              UNCHANGED <<told, noted>>
       PROVE  OutputInv'
  <2> DEFINE c == [calls[s] EXCEPT !.gathered = L, !.dropped = d]
  <2>1. c.tool = "monitor" /\ c.task = t /\ c.gathered = L /\ c.dropped = d
    BY <1>1, <1>13 DEF IsCall
  <2>2. calls'[s] = c /\ \A u \in Sessions \ {s} : calls'[u] = calls[u]
    BY <1>13, <1>16
  <2>3. told' = [told EXCEPT ![t] = T]
    BY <1>2, <1>16 DEF OutputInv, OutputTypes
  <2> HIDE DEF c
  <2>4. w = Way(T, c.gathered, << >>, P)
    BY <2>1
  <2> HIDE DEF w
  <2>5. Len(w) = n \/ t \in noted' \/ c.dropped
    BY <1>12, <1>16, <2>1
  <2> QED
    BY <1>2, <1>3, <1>7, <1>10, <1>11, <1>14, <1>16, <2>1, <2>2, <2>3, <2>4, <2>5, Look
<1> QED
  BY <1>9, <1>15, <1>16 DEF L

LEMMA CallOutputStep ==
    ASSUME SignalInv, SignalInv', ProcessInv, OutputInv, NEW s \in Sessions,
           CallStarts(s) \/ CallGoesOn(s) \/ ForegroundEnds(s)
    PROVE  OutputInv'
<1>1. /\ calls = [u \in Sessions |-> calls[u]] /\ IsCall(calls[s])
      /\ tasks = [t \in Tasks |-> tasks[t]] /\ \A t \in Tasks : IsTask(tasks[t])
  BY DEF ProcessInv, TasksAreLawful, IsLawful, SignalInv, CallTypes
<1>2. CASE StartTask(s)
  <2>1. PICK t \in Tasks, rest \in BOOLEAN :
          /\ tasks[t] = NoTask
          /\ tasks' = [tasks EXCEPT ![t] = [NoTask EXCEPT !.owner = s, !.shell = TRUE, !.rest = rest]]
    BY <1>2 DEF StartTask
  <2>2. UNCHANGED <<calls, told, noted>>
    BY <1>2 DEF StartTask
  <2>3. tasks[t].owner \notin Sessions
    BY <2>1, TasksAssumption DEF TasksAssumption, NoTask
  <2>4. /\ tasks'[t].printed = tasks[t].printed /\ tasks'[t].buf = tasks[t].buf
        /\ tasks'[t].pipe = tasks[t].pipe /\ tasks'[t].dropped = tasks[t].dropped
    BY <1>1, <2>1 DEF NoTask
  <2>5. \A u \in Tasks \ {t} : tasks'[u] = tasks[u]
    BY <1>1, <2>1
  <2> QED
    BY <2>2, <2>3, <2>4, <2>5, CallsStay
<1>3. CASE RunForeground(s)
  <2> DEFINE c == [NoCall EXCEPT !.tool = "run", !.task = 0, !.signal = signals[s]]
  <2>1. /\ calls' = [calls EXCEPT ![s] = c] /\ calls[s] = NoCall /\ UNCHANGED <<tasks, told, noted>>
    BY <1>3 DEF RunForeground, BeginCall, Calling
  <2>2. c.tool = "run" /\ c.task = 0 /\ c.gathered = << >> /\ c.dropped = FALSE
    BY DEF NoCall
  <2> HIDE DEF c
  <2> QED
    BY <2>1, <2>2, NoCallFields, CallTurns
<1>4. CASE Watch(s)
  <2>1. PICK t \in Tasks, tool \in {"output", "monitor"} : Owned(s, t) /\ BeginCall(s, tool, t)
    BY <1>4 DEF Watch
  <2> DEFINE c == [NoCall EXCEPT !.tool = tool, !.task = t, !.signal = signals[s]]
  <2>2. /\ calls' = [calls EXCEPT ![s] = c] /\ calls[s] = NoCall /\ UNCHANGED <<tasks, told, noted>>
    BY <1>4, <2>1 DEF Watch, BeginCall, Calling
  <2>3. c.tool = tool /\ c.task = t /\ c.gathered = << >> /\ c.dropped = FALSE
    BY DEF NoCall
  <2>4. tasks[t].owner = s
    BY <2>1 DEF Owned
  <2> HIDE DEF c
  <2> QED
    BY <2>1, <2>2, <2>3, <2>4, NoCallFields, CallTurns
<1>5. CASE KillCommand(s)
  <2>1. PICK t \in Tasks :
          /\ Owned(s, t)
          /\ tasks' = [tasks EXCEPT ![t] = [Drained(tasks[t]) EXCEPT !.shell = FALSE, !.ended = TRUE]]
          /\ Tell(t, tasks[t].buf, tasks[t].dropped)
    BY <1>5 DEF KillCommand
  <2>2. calls[s] = NoCall /\ UNCHANGED calls /\ tasks[t].owner = s
    BY <1>5, <2>1 DEF KillCommand, Calling, Owned
  <2> DEFINE r == Drained(tasks[t])
  <2>3. /\ IsTask(r) /\ r.owner = s /\ r.printed = tasks[t].printed
        /\ r.pipe = tasks[t].pipe /\ r.buf = << >> /\ r.dropped = FALSE
    BY <1>1, <2>2, DrainedFields
  <2>4. tasks'[t] = [r EXCEPT !.shell = FALSE, !.ended = TRUE] /\ \A u \in Tasks \ {t} : tasks'[u] = tasks[u]
    BY <1>1, <2>1
  <2> HIDE DEF r
  <2>5. /\ tasks'[t].owner = s /\ tasks'[t].printed = tasks[t].printed
        /\ tasks'[t].pipe = tasks[t].pipe /\ tasks'[t].buf = << >> /\ tasks'[t].dropped = FALSE
    BY <2>3, <2>4 DEF IsTask
  <2> QED
    BY <2>1, <2>2, <2>4, <2>5, NoCallFields, TellAll
<1>6. CASE OutputLook(s)
  <2> DEFINE t == calls[s].task
  <2>1. calls[s].tool = "output"
    BY <1>6 DEF OutputLook
  <2>2. t \in Tasks /\ tasks[t].owner = s
    BY <2>1 DEF OutputInv, CallsWatch
  <2>3. CASE UNCHANGED <<tasks, told, noted, calls>>
    BY <2>3, CallsStay
  <2>4. CASE /\ tasks' = [tasks EXCEPT ![t] = Drained(tasks[t])]
             /\ Tell(t, tasks[t].buf, tasks[t].dropped)
             /\ calls' = [calls EXCEPT ![s] = NoCall]
    <3>1. /\ \A u \in Tasks \ {t} : tasks'[u] = tasks[u]
          /\ tasks'[t].owner = s /\ tasks'[t].printed = tasks[t].printed
          /\ tasks'[t].pipe = tasks[t].pipe /\ tasks'[t].buf = << >> /\ tasks'[t].dropped = FALSE
      BY <1>1, <2>2, <2>4, DrainedFields
    <3>2. calls'[s] = NoCall /\ \A u \in Sessions \ {s} : calls'[u] = calls[u]
      BY <1>1, <2>4
    <3> QED
      BY <2>1, <2>2, <2>4, <3>1, <3>2, TellAll
  <2> QED
    BY <1>6, <2>3, <2>4 DEF OutputLook
<1>7. CASE ForegroundEnds(s) \/ ForegroundAborted(s)
  <2>1. /\ calls' = [calls EXCEPT ![s] = NoCall] /\ calls[s].tool = "run" /\ UNCHANGED <<tasks, told, noted>>
    BY <1>7 DEF ForegroundEnds, ForegroundAborted
  <2> QED
    BY <2>1, NoCallFields, CallTurns
<1> QED
  BY <1>2, <1>3, <1>4, <1>5, <1>6, <1>7, MonitorStep DEF CallStarts, CallGoesOn

LEMMA OutputStep == SignalInv /\ SignalInv' /\ ProcessInv /\ OutputInv /\ [TasksNext]_taskVars => OutputInv'
<1> SUFFICES ASSUME SignalInv, SignalInv', ProcessInv, OutputInv, [TasksNext]_taskVars
             PROVE  OutputInv'
  OBVIOUS
<1>1. tasks = [t \in Tasks |-> tasks[t]] /\ \A t \in Tasks : IsTask(tasks[t])
  BY DEF ProcessInv, TasksAreLawful, IsLawful
<1>2. ASSUME NEW s \in Sessions,
             TurnStarts(s) \/ TurnEnds(s) \/ CancelTurn(s) \/ BeginClose(s) \/ Reopens(s)
      PROVE  UNCHANGED <<tasks, calls, told, noted>>
  BY <1>2 DEF TurnStarts, TurnEnds, CancelTurn, BeginClose, Reopens
<1>3. ASSUME NEW s \in Sessions, SessionCloses(s)
      PROVE  OutputInv'
  <2>1. tasks' = KillSessionTasks(s) /\ UNCHANGED <<calls, told, noted>>
    BY <1>3 DEF SessionCloses
  <2>2. ASSUME NEW t \in Tasks
        PROVE  /\ tasks'[t].printed = tasks[t].printed /\ tasks'[t].buf = tasks[t].buf
               /\ tasks'[t].pipe = tasks[t].pipe /\ tasks'[t].dropped = tasks[t].dropped
               /\ tasks'[t].owner = tasks[t].owner
    BY <1>1, <2>1 DEF KillSessionTasks, IsTask
  <2> QED
    BY <2>1, <2>2, CallsStay
<1>4. CASE UNCHANGED <<tasks, calls, told, noted>>
  BY <1>4, CallsStay
<1>5. UNCHANGED taskVars => UNCHANGED <<tasks, calls, told, noted>>
  BY DEF taskVars
<1>6. ASSUME NEW s \in Sessions, SessionActs(s)
      PROVE  OutputInv'
  BY <1>2, <1>3, <1>4, <1>6, CallOutputStep DEF SessionActs
<1> QED
  BY <1>4, <1>5, <1>6, TaskOutputStep DEF TasksNext

\* What a task prints reaches the model in order and once, through the pipe,
\* the buffer and the calls that look at it, and no line is missing that is not
\* owned up to: for buffers of any size, any tasks, and whatever a monitor, the
\* reader, a kill and a close come between.
THEOREM OutputReachesTheModel == TasksSpec => []OutputIsKept
<1>1. SignalInv /\ OutputInv => OutputIsKept
  <2> SUFFICES ASSUME SignalInv, OutputInv, NEW t \in Tasks
               PROVE  LET lines == told[t] \o InHand(t) \o tasks[t].buf \o tasks[t].pipe
                      IN  /\ \A i, j \in DOMAIN lines : i < j => lines[i] < lines[j]
                          /\ Len(lines) = tasks[t].printed \/ LossKnown(t)
    BY Zenon DEF OutputIsKept
  <2> DEFINE lines == told[t] \o InHand(t) \o tasks[t].buf \o tasks[t].pipe
  <2>1. lines = Way(told[t], InHand(t), tasks[t].buf, tasks[t].pipe)
    BY Zenon DEF Way, Cat
  <2>2. Rising(lines, tasks[t].printed) /\ (Len(lines) = tasks[t].printed \/ LossKnown(t))
    BY <2>1 DEF OutputInv, OnWay
  <2> HIDE DEF lines
  <2>3. DOMAIN lines = 1..Len(lines)
    BY <2>2, LenProperties DEF Rising
  <2>4. \A i, j \in DOMAIN lines : i < j => lines[i] < lines[j]
    BY <2>2, <2>3 DEF Rising
  <2> QED
    BY <2>2, <2>4 DEF lines
<1>2. TasksInit => SignalInv /\ ProcessInv /\ OutputInv
  BY SignalInit, ProcessInit, OutputInit
<1>3. SignalInv /\ ProcessInv /\ OutputInv /\ [TasksNext]_taskVars => (SignalInv /\ ProcessInv /\ OutputInv)'
  BY SignalStep, ProcessStep, OutputStep
<1> QED
  BY <1>1, <1>2, <1>3, PTL DEF TasksSpec
=============================================================================
