--------------------------- MODULE ToolLoopProofs ---------------------------
(***************************************************************************)
(* LoopRequestsAnswerEveryCall for every ToolLoop: any number of prompts,  *)
(* rounds, calls and commands, whatever the budget.                        *)
(*                                                                         *)
(* Nothing keeps a cancelled task and the user's next prompt from working  *)
(* on one conversation; the invariant says that while nobody did so, one   *)
(* task works at a time, where it is with the calls of its reply, and that *)
(* a summary replaces what it was made of.  A conversation that no task    *)
(* works on is one an endpoint accepts, and so is what /resume brings back. *)
(***************************************************************************)
EXTENDS ToolLoop, ConversationProofs

Messages == MessageType(0..MaxPrompts)

Backends == Endpoints \cup {Engine}

JobType == [ pc : {"idle", "request", "round", "compact", "calls", "ask", "run", "end", "over"},
             what : {"prompt", "results", "wrapup"}, open : BOOLEAN, on : Backends,
             round : Nat, asked : Nat, at : Nat, silent : BOOLEAN, before : Seq(Messages) ]

UiType == { u \in [ made : Nat, commands : Nat, loading : BOOLEAN, loaded : BOOLEAN,
                    overlapped : BOOLEAN, dropped : BOOLEAN ] :
              u.made <= u.commands + 1 /\ u.commands <= MaxCommands }

LoopTypes ==
    /\ loop \in LoopKinds
    /\ threads \in [Backends -> Seq(Messages)]
    /\ backend \in Backends
    /\ jobs \in [Prompts -> JobType]
    /\ screen \in 0..MaxPrompts
    /\ ui \in UiType
    /\ saved \in Seq(Messages)

\* A reply makes calls where a round is left for them; `sigit run` asks for
\* the wrap-up.
Phase(job) ==
    /\ job.pc = "request" /\ job.what = "prompt" => job.round = 0
    /\ job.pc = "request" /\ job.what = "wrapup" => loop = "headless"
    /\ job.pc = "end" => loop = "headless"
    /\ job.pc = "round" /\ job.asked > 0 => job.round < LoopCap
    /\ job.pc = "compact" => Headed(job.before)

Heads ==
    /\ \A b \in Backends : Headed(threads[b])
    /\ saved = << >> \/ Headed(saved)

Phases ==
    /\ \A t \in Prompts : Phase(jobs[t])
    /\ loop # "chat" => \A t \in Prompts : t = 1 \/ At(t, "idle")

\* The ids of a round's calls.
JobIds(t, job, round) == [i \in 1..job.asked |-> <<t, round, i>>]

\* What a task's conversation h is, given where the task is.
Held(t, job, h) ==
    /\ job.pc = "request" => Good(h)
    /\ job.pc = "round" /\ job.asked = 0 => Good(h)
    /\ job.pc = "round" /\ job.asked > 0 => Awaits(h, JobIds(t, job, job.round + 1))
    /\ job.pc \in {"compact", "calls", "ask", "run"} => Awaits(h, JobIds(t, job, job.round))
    /\ job.pc = "compact" => job.before = h

Fine == ~ui.overlapped /\ ~ui.dropped

Alone == \A s, t \in Working : s = t

Hands == \A t \in Working : jobs[t].on # Engine => Held(t, jobs[t], Thread(t))

\* `sigit run` and a subagent have one task, and nothing comes after it.
Resting(b) == /\ \A t \in Working : jobs[t].on # b
              /\ loop = "chat" \/ At(1, "idle")

Rests == \A b \in Endpoints : Resting(b) => Good(threads[b])

SavedIsGood == loop = "chat" /\ saved # << >> => Good(saved)

LoopInv == /\ LoopTypes /\ Heads /\ Phases
           /\ Fine => Alone /\ Hands /\ Rests /\ SavedIsGood

-----------------------------------------------------------------------------
(* Steps of one task *)

LEMMA TaskStep ==
    ASSUME LoopInv, NEW t \in Working,
           NEW h \in Seq(Messages), Headed(h), NEW job \in JobType, Phase(job),
           threads' = [threads EXCEPT ![jobs[t].on] = h], jobs' = [jobs EXCEPT ![t] = job],
           UNCHANGED <<loop, backend>>, screen' \in 0..MaxPrompts,
           ui' \in UiType, Fine' => Fine,
           job.pc # "idle", job.pc = "over" \/ job.on = jobs[t].on,
           saved' \in Seq(Messages), saved' = << >> \/ Headed(saved'),
           Fine' /\ loop = "chat" /\ saved' # << >> => Good(saved'),
           Fine' /\ jobs[t].on # Engine =>
               IF job.pc = "over" THEN loop = "chat" => Good(h) ELSE Held(t, job, h)
    PROVE  LoopInv'
<1>1. /\ t \in Prompts /\ jobs[t] \in JobType /\ jobs[t].on \in Backends /\ Prompts = Prompts'
      /\ \A s \in Prompts : jobs'[s] = IF s = t THEN job ELSE jobs[s]
      /\ \A b \in Backends : threads'[b] = IF b = jobs[t].on THEN h ELSE threads[b]
  BY DEF Working, LoopInv, LoopTypes, JobType
<1>2. LoopTypes'
  BY <1>1 DEF LoopInv, LoopTypes
<1>3. Heads'
  BY <1>1 DEF LoopInv, Heads
<1>4. Phases'
  <2>1. \A s \in Prompts : Phase(jobs'[s])
    BY <1>1 DEF LoopInv, Phases
  <2>2. \A s \in Prompts : Phase(jobs[s])'
    BY <2>1 DEF Phase
  <2>3. loop # "chat" => \A s \in Prompts : s = 1 \/ jobs'[s].pc = "idle"
    BY <1>1 DEF LoopInv, Phases, At, Working
  <2> QED
    BY <2>2, <2>3 DEF Phases, At
<1>5. Working' \subseteq Working /\ (t \in Working' <=> job.pc # "over")
  BY <1>1 DEF Working
<1>6. ASSUME Fine'
      PROVE  (Alone /\ Hands /\ Rests /\ SavedIsGood)'
  <2>1. Fine /\ Alone /\ Hands /\ Rests
    BY <1>6 DEF LoopInv
  <2>2. Alone'
    BY <1>5, <2>1 DEF Alone
  <2>3. \A s \in Working : s = t
    BY <2>1 DEF Alone
  <2>4. Hands'
    <3>1. ASSUME NEW s \in Working', jobs'[s].on # Engine
          PROVE  Held(s, jobs'[s], threads'[jobs'[s].on])
      <4>1. s = t
        BY <1>5, <2>3
      <4>2. jobs'[s] = job /\ job.pc # "over" /\ job.on = jobs[t].on
        BY <1>1, <1>5, <3>1, <4>1
      <4>3. Held(t, job, h)
        BY <1>6, <3>1, <4>2
      <4>4. threads'[jobs'[s].on] = h
        BY <1>1, <4>2
      <4> QED
        BY <4>1, <4>2, <4>3, <4>4
    <3> QED
      BY <3>1 DEF Hands, Thread, Held, JobIds
  <2>5. Rests'
    <3>1. ASSUME NEW b \in Endpoints, Resting(b)'
          PROVE  Good(threads'[b])
      <4>1. b \in Backends /\ b # Engine
        BY DEF Backends, Endpoints, Engine
      <4>2. CASE b = jobs[t].on
        <5>1. job.pc = "over"
          BY <1>1, <1>5, <3>1, <4>2 DEF Resting
        <5>2. loop = "chat"
          <6>1. ~(jobs'[1].pc = "idle") \/ loop = "chat"
            <7>1. loop # "chat" => t = 1
              BY <1>1 DEF LoopInv, Phases, At, Working
            <7> QED
              BY <1>1, <7>1
          <6> QED
            BY <3>1, <6>1 DEF Resting, At
        <5> QED
          BY <1>1, <1>6, <4>1, <4>2, <5>1, <5>2
      <4>3. CASE b # jobs[t].on
        <5>1. \A s \in Working : jobs[s].on # b
          BY <2>3, <4>3
        <5>2. loop = "chat" \/ jobs[1].pc = "idle"
          BY <1>1, <3>1 DEF Resting, At
        <5> QED
          BY <1>1, <2>1, <4>1, <4>3, <5>1, <5>2 DEF Rests, Resting, At
      <4> QED
        BY <4>2, <4>3
    <3> QED
      BY <3>1 DEF Rests
  <2>6. SavedIsGood'
    BY <1>6 DEF SavedIsGood
  <2> QED
    BY <2>2, <2>4, <2>5, <2>6
<1> QED
  BY <1>2, <1>3, <1>4, <1>6 DEF LoopInv

-----------------------------------------------------------------------------
(* Conversations of a task *)

LEMMA BoundsAre ==
    /\ MaxPrompts \in Nat \ {0} /\ LoopCap \in Nat \ {0} /\ CallsPerReply \in Nat \ {0}
    /\ MaxCommands \in Nat /\ 0 \in 0..MaxPrompts
    /\ \A t \in Prompts : t \in Nat /\ t \in 0..MaxPrompts
    /\ 1 \in Prompts
    /\ \A b \in Endpoints : b \in Backends /\ b # Engine
    /\ Engine \in Backends
BY LoopAssumption DEF LoopAssumption, Prompts, Endpoints, Backends, Engine

LEMMA TaskIs ==
    ASSUME LoopInv, NEW t \in Prompts
    PROVE  /\ jobs[t] \in JobType /\ jobs[t].on \in Backends /\ Phase(jobs[t])
           /\ Thread(t) \in Seq(Messages) /\ Headed(Thread(t))
           /\ jobs[t].pc \notin {"idle", "over"} => t \in Working
BY DEF LoopInv, LoopTypes, Heads, Phases, Thread, JobType, Working

LEMMA HeldIs ==
    ASSUME LoopInv, NEW t \in Working, Fine, jobs[t].on # Engine
    PROVE  Held(t, jobs[t], Thread(t))
BY DEF LoopInv, Hands

LEMMA JobIdsAre ==
    ASSUME NEW t \in Prompts, NEW job, job.asked \in Nat, NEW round \in Nat
    PROVE  /\ JobIds(t, job, round) \in Seq(CallIds)
           /\ DOMAIN JobIds(t, job, round) = 1..job.asked
           /\ Len(JobIds(t, job, round)) = job.asked
           /\ \A a, b \in 1..job.asked :
                JobIds(t, job, round)[a] = JobIds(t, job, round)[b] => a = b
<1> DEFINE n == job.asked
           ids == JobIds(t, job, round)
<1>1. t \in Nat /\ n \in Nat
  BY BoundsAre
<1>2. \A i \in 1..n : <<t, round, i>> \in CallIds
  BY <1>1 DEF CallIds
<1>3. ids = [i \in 1..n |-> <<t, round, i>>]
  BY DEF JobIds
<1> HIDE DEF n, ids
<1>4. ids \in [1..n -> CallIds]
  BY <1>2, <1>3
<1>5. ids \in Seq(CallIds) /\ DOMAIN ids = 1..n /\ Len(ids) = n
  BY <1>1, <1>4
<1>6. \A a, b \in 1..n : ids[a] = ids[b] => a = b
  BY <1>1, <1>3
<1> QED
  BY <1>5, <1>6 DEF n, ids

LEMMA AskedIs ==
    ASSUME NEW t
    PROVE  Asked(t) = JobIds(t, jobs[t], jobs[t].round)
BY DEF Asked, JobIds

\* The round's calls have their results, of the tools or of the cancellation.
LEMMA RoundAnswered ==
    ASSUME LoopInv, NEW t \in Working, jobs[t].pc \in {"calls", "ask"},
           NEW g \in {AppendResults(Thread(t), t, Asked(t)),
                      RecordCancelledToolResults(Thread(t), t, Asked(t))}
    PROVE  /\ g \in Seq(Messages) /\ Headed(g)
           /\ Fine /\ jobs[t].on # Engine => Good(g)
<1> DEFINE h == Thread(t)
           N == jobs[t].asked
           ids == Asked(t)
<1>1. /\ t \in Prompts /\ t \in 0..MaxPrompts
      /\ N \in Nat /\ jobs[t].round \in Nat /\ h \in Seq(Messages) /\ Headed(h)
  BY TaskIs, BoundsAre DEF Working, JobType
<1>2. ids \in Seq(CallIds) /\ DOMAIN ids = 1..N /\ Len(ids) = N
      /\ \A a, b \in 1..N : ids[a] = ids[b] => a = b
  BY <1>1, AskedIs, JobIdsAre
<1>3. Fine /\ jobs[t].on # Engine => Awaits(h, ids)
  BY HeldIs, AskedIs DEF Held
<1>4. g \in {AppendResults(h, t, ids), RecordCancelledToolResults(h, t, ids)}
  OBVIOUS
<1> HIDE DEF h, N, ids
<1>5. AppendResults(h, t, ids) \in Seq(Messages) /\ Headed(AppendResults(h, t, ids))
  BY <1>1, <1>2, ResultsAreTyped, ResultsKeepHead DEF Messages
<1>6. /\ RecordCancelledToolResults(h, t, ids) \in Seq(Messages)
      /\ Headed(RecordCancelledToolResults(h, t, ids))
  <2> DEFINE turns == 0..MaxPrompts
  <2>1. t \in turns /\ h \in Seq(MessageType(turns)) /\ Messages = MessageType(turns)
    BY <1>1 DEF Messages
  <2> HIDE DEF turns
  <2> QED
    BY <1>1, <1>2, <2>1, CancelledKeepsHead
<1>7. g \in Seq(Messages) /\ Headed(g)
  BY <1>4, <1>5, <1>6
<1>8. ASSUME Awaits(h, ids)
      PROVE  Good(g)
  <2>1. IsReply(h, ids)
    BY <1>8 DEF Awaits
  <2>2. \A k \in 1..N : ~Recorded(h, ids[k])
    BY <1>1, <1>2, <2>1, ReplyIsUnrecorded
  <2>3. g = AppendResults(h, t, ids)
    BY <1>1, <1>2, <1>4, <2>2, NoneRecorded
  <2>4. /\ Sound(h) => Sound(g)
        /\ Once(h) => Once(g)
        /\ MetTo(h, Len(h) - 1) => MetTo(g, Len(g))
    BY <1>1, <1>2, <1>7, <2>1, <2>3, ReplyAnswered
  <2> QED
    BY <1>8, <2>4 DEF Awaits, Good
<1> QED
  BY <1>3, <1>7, <1>8

LEMMA MessagesAre ==
    ASSUME NEW n \in 0..MaxPrompts
    PROVE  /\ Prompt(n) \in Messages /\ Prompt(n).calls = << >>
           /\ ~IsTool(Prompt(n)) /\ ~IsSystem(Prompt(n))
           /\ System("system") \in Messages /\ IsSystem(System("system"))
           /\ \A kind \in Kinds : \A ids \in Seq(CallIds) :
                /\ Assistant(kind, n, ids) \in Messages /\ Assistant(kind, n, ids).calls = ids
                /\ IsAssistant(Assistant(kind, n, ids)) /\ ~IsTool(Assistant(kind, n, ids))
                /\ ~IsSystem(Assistant(kind, n, ids))
<1>1. << >> \in Seq(CallIds)
  OBVIOUS
<1> QED
  BY <1>1, BoundsAre DEF Messages, MessageType, Prompt, System, Assistant, Message, Roles, Kinds,
     SystemKinds, IsTool, IsSystem, IsAssistant

LEMMA PromptAppended ==
    ASSUME NEW n \in Prompts, NEW h \in Seq(Messages), Headed(h), NEW g, g = Append(h, Prompt(n))
    PROVE  g \in Seq(Messages) /\ Headed(g) /\ (Good(h) => Good(g))
<1> DEFINE m == Prompt(n)
<1>1. m \in Messages /\ ~IsTool(m) /\ ~IsSystem(m) /\ m.calls = << >>
  BY BoundsAre, MessagesAre
<1>2. g = Append(h, m)
  OBVIOUS
<1> HIDE DEF m
<1>3. g \in Seq(Messages)
  BY <1>1, <1>2
<1> QED
  BY <1>1, <1>2, <1>3, AppendKeeps DEF Good

\* A conversation h after a reply with the calls ids.
Replied(h, ids, g) ==
    /\ g \in Seq(Messages) /\ Headed(g)
    /\ Good(h) => Awaits(g, ids)
    /\ Good(h) /\ ids = << >> => Good(g)

LEMMA ReplyAppended ==
    ASSUME NEW n \in Prompts, NEW h \in Seq(Messages), Headed(h), NEW kind \in Kinds,
           NEW ids \in Seq(CallIds)
    PROVE  Replied(h, ids, Append(h, Assistant(kind, n, ids)))
<1> DEFINE m == Assistant(kind, n, ids)
           g == Append(h, m)
<1>1. m \in Messages /\ IsAssistant(m) /\ ~IsTool(m) /\ ~IsSystem(m) /\ m.calls = ids
  BY BoundsAre, MessagesAre
<1>2. g = Append(h, m)
  OBVIOUS
<1> HIDE DEF m, g
<1>3. g \in Seq(Messages) /\ g # << >> /\ Last(g) = m
  BY <1>1, <1>2 DEF Last
<1>4. /\ Headed(h) /\ ~IsSystem(m) => Headed(g)
      /\ Sound(h) => Sound(g)
      /\ Once(h) => Once(g)
      /\ MetTo(h, Len(h)) => MetTo(g, Len(g) - 1)
      /\ MetTo(h, Len(h)) /\ m.calls = << >> => MetTo(g, Len(g))
  BY <1>1, <1>2, AppendKeeps
<1> QED
  BY <1>1, <1>3, <1>4 DEF Good, Awaits, IsReply, Replied, m, g

LEMMA ReportedIs ==
    ASSUME NEW b, threads[b] \in Seq(Messages), Headed(threads[b])
    PROVE  /\ Reported(b) \in Seq(Messages) /\ Headed(Reported(b))
           /\ b = Engine \/ Good(threads[b]) => Good(Reported(b))
<1>1. /\ EngineSnapshot(threads[b]) \in Seq(Messages) /\ Headed(EngineSnapshot(threads[b]))
      /\ Good(EngineSnapshot(threads[b]))
  BY SnapshotIs, SnapshotKeepsHead, NoCallsIsGood DEF Messages
<1> QED
  BY <1>1 DEF Reported

LEMMA RestoredIs ==
    ASSUME NEW b, NEW h \in Seq(Messages), Headed(h)
    PROVE  /\ Restored(b, h) \in Seq(Messages) /\ Headed(Restored(b, h))
           /\ b # Engine => Restored(b, h) = h
<1>1. FlattenForEngine(h) \in Seq(Messages) /\ Headed(FlattenForEngine(h))
  BY FlattenedIs, FlattenKeepsHead DEF Messages
<1> QED
  BY <1>1 DEF Restored

LEMMA CompactedIs ==
    ASSUME NEW b, NEW h \in Seq(Messages), Headed(h), NEW summarized,
           NEW g, g = Compacted(b, h, summarized), g # NoRebuild
    PROVE  /\ g \in Seq(Messages) /\ Headed(g)
           /\ b = Engine \/ Good(h) => Good(g)
           /\ b # Engine /\ Last(g) = Last(h) =>
                \A ids : Awaits(h, ids) => Awaits(g, ids)
<1> DEFINE turns == 0..MaxPrompts
           k == IF b = Engine THEN EngineSnapshot(h) ELSE h
<1>1. 0 \in turns /\ Messages = MessageType(turns)
  BY BoundsAre DEF Messages
<1> HIDE DEF turns
<1>2. /\ k \in Seq(MessageType(turns)) /\ Headed(k)
      /\ b = Engine \/ Good(h) => Good(k)
  <2>1. /\ EngineSnapshot(h) \in Seq(MessageType(turns)) /\ Headed(EngineSnapshot(h))
        /\ Good(EngineSnapshot(h))
    BY <1>1, SnapshotIs, SnapshotKeepsHead, NoCallsIsGood
  <2> QED
    BY <1>1, <2>1
<1>3. g = CompactHistory(k, summarized)
  BY DEF Compacted, CompactEngine
<1>4. b # Engine => k = h
  OBVIOUS
<1> HIDE DEF k
<1>5. IsCompaction(g, k, turns)
  BY <1>1, <1>2, <1>3, CompactIs
<1>6. g \in Seq(MessageType(turns)) /\ Headed(g) /\ (Good(k) => Good(g))
  BY <1>2, <1>5, CompactionKeeps, CompactionKeepsGood
<1>7. ASSUME b # Engine, Last(g) = Last(h), NEW ids, Awaits(h, ids)
      PROVE  Awaits(g, ids)
  <2>1. /\ Sound(k) => Sound(g)
        /\ Once(k) => Once(g)
        /\ MetTo(k, Len(k) - 1) => MetTo(g, Len(g) - 1)
    BY <1>2, <1>5, CompactionKeeps
  <2> QED
    BY <1>4, <1>7, <2>1 DEF Awaits, IsReply, NoRebuild
<1> QED
  BY <1>1, <1>2, <1>6, <1>7

-----------------------------------------------------------------------------
(* The steps of a task *)

LEMMA SavedStays ==
    ASSUME LoopInv, UNCHANGED <<loop, saved>>, Fine' => Fine
    PROVE  /\ saved' \in Seq(Messages) /\ (saved' = << >> \/ Headed(saved'))
           /\ Fine' /\ loop = "chat" /\ saved' # << >> => Good(saved')
BY DEF LoopInv, LoopTypes, Heads, SavedIsGood

\* The screen and the stored session are left alone.
LEMMA InnerStep ==
    ASSUME LoopInv, NEW t \in Working,
           NEW h \in Seq(Messages), Headed(h), NEW job \in JobType, Phase(job),
           threads' = [threads EXCEPT ![jobs[t].on] = h], jobs' = [jobs EXCEPT ![t] = job],
           UNCHANGED <<loop, backend, screen, saved>>, ui' \in UiType, Fine' => Fine,
           job.pc # "idle", job.pc = "over" \/ job.on = jobs[t].on,
           Fine' /\ jobs[t].on # Engine =>
               IF job.pc = "over" THEN loop = "chat" => Good(h) ELSE Held(t, job, h)
    PROVE  LoopInv'
<1>1. /\ saved' \in Seq(Messages) /\ (saved' = << >> \/ Headed(saved'))
      /\ Fine' /\ loop = "chat" /\ saved' # << >> => Good(saved')
  BY SavedStays
<1>2. screen' \in 0..MaxPrompts
  BY DEF LoopInv, LoopTypes
<1> QED
  BY <1>1, <1>2, TaskStep

\* So is the conversation.
LEMMA QuietStep ==
    ASSUME LoopInv, NEW t \in Working, NEW job \in JobType, Phase(job),
           jobs' = [jobs EXCEPT ![t] = job],
           UNCHANGED <<loop, threads, backend, screen, ui, saved>>,
           job.pc \notin {"idle", "over"}, job.on = jobs[t].on,
           Fine /\ jobs[t].on # Engine => Held(t, job, Thread(t))
    PROVE  LoopInv'
<1> DEFINE h == Thread(t)
<1>1. h \in Seq(Messages) /\ Headed(h) /\ t \in Prompts
  BY TaskIs DEF Working
<1>2. threads' = [threads EXCEPT ![jobs[t].on] = h]
  BY <1>1, TaskIs DEF LoopInv, LoopTypes, Thread
<1>3. ui' \in UiType /\ (Fine' => Fine)
  BY DEF LoopInv, LoopTypes, Fine
<1>4. Fine' /\ jobs[t].on # Engine => Held(t, job, h)
  BY <1>3
<1> HIDE DEF h
<1> QED
  BY <1>1, <1>2, <1>3, <1>4, InnerStep

LEMMA OverIs ==
    ASSUME NEW job, job = [Idle EXCEPT !.pc = "over"]
    PROVE  job \in JobType /\ Phase(job) /\ job.pc = "over"
<1>1. << >> \in Seq(Messages) /\ Engine \in Backends
  BY BoundsAre
<1>2. /\ job = [Idle EXCEPT !.pc = "over"] /\ Idle.what = "prompt" /\ Idle.open = TRUE
      /\ Idle.on = Engine /\ Idle.round = 0 /\ Idle.asked = 0 /\ Idle.at = 1
      /\ Idle.silent = FALSE /\ Idle.before = << >>
  BY DEF Idle
<1>3. job \in JobType /\ job.pc = "over"
  BY <1>1 DEF Idle, JobType
<1> QED
  BY <1>3 DEF Phase

\* The job after a reply that makes `asked` calls.
ReplyJob(t, asked, silent) ==
    [jobs[t] EXCEPT !.pc = IF jobs[t].what = "wrapup" THEN "end" ELSE "round",
                    !.asked = asked, !.at = 1, !.silent = silent]

LEMMA ReplyPhase ==
    ASSUME LoopInv, NEW t \in Prompts, At(t, "request"), NEW silent \in BOOLEAN,
           NEW asked \in Nat, asked = 0 \/ MayCall(t)
    PROVE  /\ ReplyJob(t, asked, silent) \in JobType /\ Phase(ReplyJob(t, asked, silent))
           /\ ReplyJob(t, asked, silent).on = jobs[t].on
           /\ ReplyJob(t, asked, silent).round = jobs[t].round
           /\ ReplyJob(t, asked, silent).asked = asked
           /\ ReplyJob(t, asked, silent).pc \in {"end", "round"}
<1> DEFINE job == ReplyJob(t, asked, silent)
           pc == IF jobs[t].what = "wrapup" THEN "end" ELSE "round"
<1>1. jobs[t] \in JobType /\ Phase(jobs[t]) /\ LoopCap \in Nat \ {0}
  BY TaskIs, BoundsAre
<1>2. pc \in {"end", "round"} /\ (pc = "end" => jobs[t].what = "wrapup")
      /\ (pc = "round" => jobs[t].what # "wrapup")
  OBVIOUS
<1>3. job = [jobs[t] EXCEPT !.pc = pc, !.asked = asked, !.at = 1, !.silent = silent]
  BY DEF ReplyJob
<1> HIDE DEF pc, job
<1>4. job \in JobType
  BY <1>1, <1>2, <1>3 DEF JobType
<1>5. /\ job.pc = pc /\ job.on = jobs[t].on /\ job.round = jobs[t].round
      /\ job.asked = asked /\ job.what = jobs[t].what
  BY <1>1, <1>3 DEF JobType
<1>6. job.pc = "round" /\ job.asked > 0 => job.round < LoopCap
  BY <1>1, <1>2, <1>5 DEF JobType, Phase, MayCall, At
<1>7. job.pc = "end" => loop = "headless"
  BY <1>1, <1>2, <1>5 DEF Phase, At
<1>8. Phase(job)
  BY <1>2, <1>5, <1>6, <1>7 DEF Phase
<1> QED
  BY <1>2, <1>4, <1>5, <1>8 DEF job

LEMMA ReplyArrivesStep ==
    ASSUME LoopInv, NEW t \in Prompts, ReplyArrives(t)
    PROVE  LoopInv'
<1>1. PICK n \in 0..CallsPerReply, silent \in BOOLEAN :
        LET asked == IF MayCall(t) THEN n ELSE 0
            ids == [i \in 1..asked |-> <<t, jobs[t].round + 1, i>>]
        IN  /\ SetThread(t, Append(Thread(t),
                   Assistant(IF silent THEN "silent" ELSE "text", t, ids)))
            /\ jobs' = [jobs EXCEPT ![t].pc = IF jobs[t].what = "wrapup" THEN "end" ELSE "round",
                                    ![t].asked = asked, ![t].at = 1, ![t].silent = silent]
  BY DEF ReplyArrives
<1> DEFINE asked == IF MayCall(t) THEN n ELSE 0
           job == ReplyJob(t, asked, silent)
           ids == JobIds(t, job, jobs[t].round + 1)
           kind == IF silent THEN "silent" ELSE "text"
           h == Append(Thread(t), Assistant(kind, t, ids))
<1>2. At(t, "request") /\ UNCHANGED <<loop, backend, screen, ui, saved>>
  BY DEF ReplyArrives
<1>3. /\ Thread(t) \in Seq(Messages) /\ Headed(Thread(t)) /\ jobs[t] \in JobType
      /\ t \in Working
  BY <1>2, TaskIs DEF At
<1>4. /\ job \in JobType /\ Phase(job) /\ job.on = jobs[t].on /\ job.round = jobs[t].round
      /\ job.asked = asked /\ asked \in Nat /\ job.pc \in {"end", "round"}
  <2>1. silent \in BOOLEAN /\ asked \in Nat /\ (asked = 0 \/ MayCall(t))
    BY BoundsAre
  <2> HIDE DEF asked
  <2> QED
    BY <1>2, <2>1, ReplyPhase
<1>5. ids = [i \in 1..asked |-> <<t, jobs[t].round + 1, i>>]
  BY <1>4 DEF JobIds
<1>6. threads' = [threads EXCEPT ![jobs[t].on] = h]
  BY <1>1, <1>5 DEF SetThread
<1>7. jobs' = [jobs EXCEPT ![t] = job]
  BY <1>1, <1>3 DEF ReplyJob
<1>8. ids \in Seq(CallIds) /\ (asked = 0 => ids = << >>) /\ kind \in Kinds
  <2>1. jobs[t].round + 1 \in Nat
    BY <1>3 DEF JobType
  <2>2. ids \in Seq(CallIds) /\ Len(ids) = asked
    <3> HIDE DEF asked, job
    <3> QED
      BY <1>4, <2>1, JobIdsAre
  <2> HIDE DEF ids, asked, job
  <2> QED
    BY <2>2 DEF Kinds
<1>9. ids = JobIds(t, job, job.round + 1)
  BY <1>4
<1> HIDE DEF asked, job, ids, kind
<1>13. h = Append(Thread(t), Assistant(kind, t, ids))
  OBVIOUS
<1> HIDE DEF h
<1>10. /\ h \in Seq(Messages) /\ Headed(h)
       /\ Good(Thread(t)) => Awaits(h, ids)
       /\ Good(Thread(t)) /\ ids = << >> => Good(h)
  <2>1. Replied(Thread(t), ids, h)
    BY <1>3, <1>8, <1>13, ReplyAppended
  <2> QED
    BY <2>1 DEF Replied
<1>11. ASSUME Fine, jobs[t].on # Engine
       PROVE  Held(t, job, h)
  <2>1. Good(Thread(t))
    BY <1>2, <1>3, <1>11, HeldIs DEF Held, At
  <2> QED
    BY <1>4, <1>8, <1>9, <1>10, <2>1 DEF Held
<1>12. ui' \in UiType /\ (Fine' => Fine)
  BY <1>2 DEF LoopInv, LoopTypes, Fine
<1> QED
  BY <1>2, <1>3, <1>4, <1>6, <1>7, <1>10, <1>11, <1>12, InnerStep

LEMMA TakeRoundStep ==
    ASSUME LoopInv, NEW t \in Prompts, TakeRound(t)
    PROVE  LoopInv'
<1>1. /\ At(t, "round") /\ AnotherRound(t)
      /\ UNCHANGED <<loop, threads, backend, screen, ui, saved>>
  BY DEF TakeRound
<1>2. /\ Thread(t) \in Seq(Messages) /\ Headed(Thread(t)) /\ jobs[t] \in JobType
      /\ t \in Working
  BY <1>1, TaskIs DEF At
<1> DEFINE full == loop # "subagent" /\ OverBudget(Reported(jobs[t].on))
           job == [jobs[t] EXCEPT !.round = @ + 1, !.pc = IF full THEN "compact" ELSE "calls",
                                  !.before = IF full THEN Thread(t) ELSE << >>]
<1>3. jobs' = [jobs EXCEPT ![t] = job]
  BY <1>2 DEF TakeRound
<1> DEFINE pc == IF full THEN "compact" ELSE "calls"
           before == IF full THEN Thread(t) ELSE << >>
<1>7. /\ job = [jobs[t] EXCEPT !.round = @ + 1, !.pc = pc, !.before = before]
      /\ pc \in {"compact", "calls"} /\ before \in Seq(Messages)
      /\ pc = "compact" => before = Thread(t)
  BY <1>2
<1> HIDE DEF full, pc, before, job
<1>4. /\ job \in JobType /\ job.on = jobs[t].on /\ job.asked = jobs[t].asked
      /\ job.round = jobs[t].round + 1 /\ job.pc \in {"compact", "calls"}
      /\ job.pc = "compact" => job.before = Thread(t)
  <2>1. job \in JobType
    <3> DEFINE round == jobs[t].round + 1
    <3>1. round \in Nat
      BY <1>2 DEF JobType
    <3>2. job = [jobs[t] EXCEPT !.round = round, !.pc = pc, !.before = before]
      BY <1>7
    <3>3. pc \in {"idle", "request", "round", "compact", "calls", "ask", "run", "end", "over"}
      BY <1>7
    <3> HIDE DEF round
    <3> QED
      BY <1>2, <1>7, <3>1, <3>2, <3>3 DEF JobType
  <2>2. job.on = jobs[t].on /\ job.asked = jobs[t].asked
    BY <1>2, <1>7 DEF JobType
  <2>3. job.round = jobs[t].round + 1
    BY <1>2, <1>7 DEF JobType
  <2>4. job.pc = pc /\ job.before = before
    BY <1>2, <1>7 DEF JobType
  <2> QED
    BY <1>7, <2>1, <2>2, <2>3, <2>4
<1>5. Phase(job)
  BY <1>2, <1>4 DEF Phase
<1>6. ASSUME Fine, jobs[t].on # Engine
      PROVE  Held(t, job, Thread(t))
  <2>1. Awaits(Thread(t), JobIds(t, jobs[t], jobs[t].round + 1))
    BY <1>1, <1>2, <1>6, HeldIs DEF Held, At, AnotherRound
  <2>2. JobIds(t, job, job.round) = JobIds(t, jobs[t], jobs[t].round + 1)
    BY <1>4 DEF JobIds
  <2> QED
    BY <1>4, <2>1, <2>2 DEF Held
<1> QED
  BY <1>1, <1>2, <1>3, <1>4, <1>5, <1>6, QuietStep

\* A step between the calls of a round.
LEMMA CallStep ==
    ASSUME LoopInv, NEW t \in Prompts, jobs[t].pc \in {"compact", "calls", "ask", "run"},
           NEW job \in JobType, job.pc \in {"calls", "ask", "run"}, job.on = jobs[t].on,
           job.asked = jobs[t].asked, job.round = jobs[t].round,
           jobs' = [jobs EXCEPT ![t] = job],
           UNCHANGED <<loop, threads, backend, screen, ui, saved>>
    PROVE  LoopInv'
<1>1. t \in Working
  BY TaskIs
<1>2. Phase(job)
  BY DEF Phase
<1>3. JobIds(t, job, job.round) = JobIds(t, jobs[t], jobs[t].round)
  BY DEF JobIds
<1>4. ASSUME Fine, jobs[t].on # Engine
      PROVE  Held(t, job, Thread(t))
  BY <1>1, <1>3, <1>4, HeldIs DEF Held
<1> QED
  BY <1>1, <1>2, <1>4, QuietStep

LEMMA TakeCallStep ==
    ASSUME LoopInv, NEW t \in Prompts, TakeCall(t) \/ UserDecides(t) \/ ToolEnds(t)
    PROVE  LoopInv'
<1>1. /\ jobs[t].pc \in {"calls", "ask", "run"} /\ jobs \in [Prompts -> JobType]
      /\ UNCHANGED <<loop, threads, backend, screen, ui, saved>>
  BY DEF TakeCall, UserDecides, ToolEnds, At, LoopInv, LoopTypes
<1>2. jobs[t] \in JobType /\ jobs[t].at + 1 \in Nat
  BY <1>1 DEF JobType
<1> DEFINE at == jobs[t].at + 1
           Stays(job) == /\ job \in JobType /\ job.pc \in {"calls", "ask", "run"}
                         /\ job.on = jobs[t].on /\ job.asked = jobs[t].asked
                         /\ job.round = jobs[t].round
<1>3. at \in Nat
  BY <1>2
<1>4. PICK job \in { [jobs[t] EXCEPT !.at = at], [jobs[t] EXCEPT !.pc = "run"],
                     [jobs[t] EXCEPT !.pc = "ask"], [jobs[t] EXCEPT !.at = at, !.pc = "calls"] } :
        jobs' = [jobs EXCEPT ![t] = job]
  BY <1>1 DEF TakeCall, UserDecides, ToolEnds, Goes
<1> HIDE DEF at
<1>5. Stays(job)
  <2>1. Stays([jobs[t] EXCEPT !.at = at])
    BY <1>1, <1>2, <1>3 DEF JobType
  <2>2. Stays([jobs[t] EXCEPT !.pc = "run"])
    BY <1>1, <1>2, <1>3 DEF JobType
  <2>3. Stays([jobs[t] EXCEPT !.pc = "ask"])
    BY <1>1, <1>2, <1>3 DEF JobType
  <2>4. Stays([jobs[t] EXCEPT !.at = at, !.pc = "calls"])
    BY <1>1, <1>2, <1>3 DEF JobType
  <2> HIDE DEF Stays
  <2> QED
    BY <1>4, <2>1, <2>2, <2>3, <2>4
<1> QED
  BY <1>1, <1>4, <1>5, CallStep

LEMMA SummaryArrivesStep ==
    ASSUME LoopInv, NEW t \in Prompts, SummaryArrives(t)
    PROVE  LoopInv'
<1> DEFINE b == jobs[t].on
           h == Thread(t)
           before == jobs[t].before
           dropped(after) == ui.dropped \/ (b # Engine /\ Last(after) # Last(h))
<1>1. PICK after :
        /\ after = h \/ \E summarized \in BOOLEAN :
                           after = Compacted(b, before, summarized) /\ after # NoRebuild
        /\ threads' = [threads EXCEPT ![b] = after]
        /\ ui' = [ui EXCEPT !.dropped = dropped(after)]
  BY DEF SummaryArrives, SetThread
<1>2. /\ At(t, "compact") /\ jobs' = [jobs EXCEPT ![t].pc = "calls", ![t].before = << >>]
      /\ UNCHANGED <<loop, backend, screen, saved>>
  BY DEF SummaryArrives
<1>3. /\ h \in Seq(Messages) /\ Headed(h) /\ jobs[t] \in JobType /\ t \in Working
      /\ before \in Seq(Messages) /\ Headed(before)
  BY <1>2, TaskIs DEF At, JobType, Phase
<1>4. /\ after \in Seq(Messages) /\ Headed(after)
      /\ b # Engine /\ before = h /\ Last(after) = Last(h) =>
           \A ids : Awaits(h, ids) => Awaits(after, ids)
  <2>1. CASE after = h
    BY <1>3, <2>1
  <2>2. ASSUME NEW summarized \in BOOLEAN, after = Compacted(b, before, summarized),
               after # NoRebuild
        PROVE  /\ after \in Seq(Messages) /\ Headed(after)
               /\ b # Engine /\ before = h /\ Last(after) = Last(h) =>
                    \A ids : Awaits(h, ids) => Awaits(after, ids)
    <3> HIDE DEF b, before, h
    <3> QED
      BY <1>3, <2>2, CompactedIs
  <2> QED
    BY <1>1, <2>1, <2>2
<1> DEFINE job == [jobs[t] EXCEPT !.pc = "calls", !.before = << >>]
<1>5. jobs' = [jobs EXCEPT ![t] = job]
  BY <1>2, <1>3
<1>6. << >> \in Seq(Messages)
  OBVIOUS
<1>7. /\ job \in JobType /\ job.pc = "calls" /\ job.on = b /\ job.asked = jobs[t].asked
      /\ job.round = jobs[t].round
  BY <1>3, <1>6 DEF JobType
<1>8. JobIds(t, job, job.round) = JobIds(t, jobs[t], jobs[t].round)
  BY <1>7 DEF JobIds
<1> HIDE DEF job
<1>9. Phase(job)
  BY <1>7 DEF Phase
<1>10. ui' \in UiType /\ (Fine' => Fine /\ (b # Engine => Last(after) = Last(h)))
  <2>1. ui \in UiType /\ dropped(after) \in BOOLEAN
    BY DEF LoopInv, LoopTypes, UiType
  <2>2. /\ ui'.made = ui.made /\ ui'.commands = ui.commands /\ ui'.dropped = dropped(after)
        /\ ui'.overlapped = ui.overlapped
    BY <1>1, <2>1 DEF UiType
  <2>3. ui' \in UiType
    <3> HIDE DEF dropped
    <3> QED
      BY <1>1, <2>1 DEF UiType
  <2> QED
    BY <2>2, <2>3 DEF Fine
<1>11. ASSUME Fine', b # Engine
       PROVE  Held(t, job, after)
  <2>1. Awaits(h, JobIds(t, jobs[t], jobs[t].round)) /\ before = h
    BY <1>2, <1>3, <1>10, <1>11, HeldIs DEF Held, At
  <2> QED
    BY <1>4, <1>7, <1>8, <1>10, <1>11, <2>1 DEF Held
<1> HIDE DEF h, before, dropped
<1> QED
  BY <1>1, <1>2, <1>3, <1>4, <1>5, <1>7, <1>9, <1>10, <1>11, InnerStep

LEMMA AbandonedStep ==
    ASSUME LoopInv, NEW t \in Prompts, FindsClosed(t) \/ QuestionDropped(t)
    PROVE  LoopInv'
<1> DEFINE g == RecordCancelledToolResults(Thread(t), t, Asked(t))
           h == IF jobs[t].on = Engine THEN Thread(t) ELSE g
           job == [Idle EXCEPT !.pc = "over"]
<1>1. /\ jobs[t].pc \in {"calls", "ask"} /\ AbandonRound(t)
      /\ UNCHANGED <<loop, backend, screen, ui, saved>>
  BY DEF FindsClosed, QuestionDropped, At
<1>2. Thread(t) \in Seq(Messages) /\ Headed(Thread(t)) /\ t \in Working
  BY <1>1, TaskIs
<1>3. /\ g \in Seq(Messages) /\ Headed(g)
      /\ Fine /\ jobs[t].on # Engine => Good(g)
  BY <1>1, <1>2, RoundAnswered
<1>4. jobs' = [jobs EXCEPT ![t] = job]
  BY <1>1 DEF AbandonRound, Over
<1>5. threads' = [threads EXCEPT ![jobs[t].on] = h]
  <2>1. [threads EXCEPT ![jobs[t].on] = Thread(t)] = threads
    BY <1>2, TaskIs DEF LoopInv, LoopTypes, Thread
  <2> QED
    BY <1>1, <2>1 DEF AbandonRound, SetThread
<1>6. job \in JobType /\ Phase(job) /\ job.pc = "over"
  BY OverIs
<1>7. ui' \in UiType /\ (Fine' => Fine)
  BY <1>1 DEF LoopInv, LoopTypes, Fine
<1>8. /\ h \in Seq(Messages) /\ Headed(h)
      /\ Fine' /\ jobs[t].on # Engine => Good(h)
  BY <1>2, <1>3, <1>7
<1> HIDE DEF h, job, g
<1> QED
  BY <1>1, <1>2, <1>4, <1>5, <1>6, <1>7, <1>8, InnerStep

LEMMA SendResultsStep ==
    ASSUME LoopInv, NEW t \in Prompts, SendResults(t)
    PROVE  LoopInv'
<1> DEFINE h == AppendResults(Thread(t), t, Asked(t))
           job == [jobs[t] EXCEPT !.pc = "request", !.what = "results"]
<1>1. /\ At(t, "calls") /\ UNCHANGED <<loop, backend, screen, ui, saved>>
      /\ threads' = [threads EXCEPT ![jobs[t].on] = h]
  BY DEF SendResults, SetThread
<1>2. t \in Working /\ jobs[t] \in JobType
  BY <1>1, TaskIs DEF At
<1>3. /\ h \in Seq(Messages) /\ Headed(h)
      /\ Fine /\ jobs[t].on # Engine => Good(h)
  BY <1>1, <1>2, RoundAnswered DEF At
<1>4. jobs' = [jobs EXCEPT ![t] = job]
  BY <1>2 DEF SendResults
<1>5. /\ job \in JobType /\ job.pc = "request" /\ job.what = "results"
      /\ job.on = jobs[t].on
  BY <1>2 DEF JobType
<1> HIDE DEF h, job
<1>6. Phase(job)
  BY <1>5 DEF Phase
<1>7. ui' \in UiType /\ (Fine' => Fine)
  BY <1>1 DEF LoopInv, LoopTypes, Fine
<1>8. Fine' /\ jobs[t].on # Engine => Held(t, job, h)
  BY <1>3, <1>5, <1>7 DEF Held
<1> QED
  BY <1>1, <1>2, <1>3, <1>4, <1>5, <1>6, <1>7, <1>8, InnerStep

LEMMA AskForWrapUpStep ==
    ASSUME LoopInv, NEW t \in Prompts, AskForWrapUp(t)
    PROVE  LoopInv'
<1> DEFINE h == Append(Thread(t), Prompt(t))
           job == [jobs[t] EXCEPT !.pc = "request", !.what = "wrapup"]
<1>1. /\ At(t, "round") /\ ~AnotherRound(t) /\ loop = "headless"
      /\ UNCHANGED <<loop, backend, screen, ui, saved>>
      /\ threads' = [threads EXCEPT ![jobs[t].on] = h]
  BY DEF AskForWrapUp, SetThread
<1>2. /\ t \in Working /\ jobs[t] \in JobType /\ Phase(jobs[t])
      /\ Thread(t) \in Seq(Messages) /\ Headed(Thread(t)) /\ LoopCap \in Nat
  BY <1>1, TaskIs, BoundsAre DEF At
<1>3. h \in Seq(Messages) /\ Headed(h) /\ (Good(Thread(t)) => Good(h))
  BY <1>2, PromptAppended
<1>4. jobs' = [jobs EXCEPT ![t] = job]
  BY <1>2 DEF AskForWrapUp
<1>5. /\ job \in JobType /\ job.pc = "request" /\ job.what = "wrapup"
      /\ job.on = jobs[t].on
  BY <1>2 DEF JobType
<1>6. jobs[t].asked = 0
  BY <1>1, <1>2 DEF AnotherRound, Phase, At, JobType
<1> HIDE DEF h, job
<1>7. Phase(job)
  BY <1>1, <1>5 DEF Phase
<1>8. ui' \in UiType /\ (Fine' => Fine)
  BY <1>1 DEF LoopInv, LoopTypes, Fine
<1>9. ASSUME Fine', jobs[t].on # Engine
      PROVE  Held(t, job, h)
  <2>1. Good(Thread(t))
    BY <1>1, <1>2, <1>6, <1>8, <1>9, HeldIs DEF Held, At
  <2> QED
    BY <1>3, <1>5, <2>1 DEF Held
<1> QED
  BY <1>1, <1>2, <1>3, <1>4, <1>5, <1>7, <1>8, <1>9, InnerStep

\* The end of a task, which may save what its backend reports.
LEMMA OverStep ==
    ASSUME LoopInv, NEW t \in Working, Over(t), ScreenAfter(t), UNCHANGED saved \/ Saves(t),
           UNCHANGED <<loop, threads, backend, ui>>,
           Fine /\ loop = "chat" /\ jobs[t].on # Engine => Good(Thread(t))
    PROVE  LoopInv'
<1> DEFINE h == Thread(t)
           job == [Idle EXCEPT !.pc = "over"]
<1>1. h \in Seq(Messages) /\ Headed(h) /\ t \in Prompts
  BY TaskIs DEF Working
<1>2. threads' = [threads EXCEPT ![jobs[t].on] = h]
  BY <1>1, TaskIs DEF LoopInv, LoopTypes, Thread
<1>3. job \in JobType /\ Phase(job) /\ job.pc = "over" /\ jobs' = [jobs EXCEPT ![t] = job]
  BY OverIs DEF Over
<1>4. ui' \in UiType /\ (Fine' <=> Fine) /\ screen' \in 0..MaxPrompts
  BY BoundsAre DEF LoopInv, LoopTypes, Fine, ScreenAfter
<1>5. /\ saved' \in Seq(Messages) /\ (saved' = << >> \/ Headed(saved'))
      /\ Fine' /\ loop = "chat" /\ saved' # << >> => Good(saved')
  <2>1. CASE UNCHANGED saved
    BY <1>4, <2>1, SavedStays
  <2>2. CASE Saves(t)
    <3>1. CASE loop = "subagent"
      BY <1>4, <2>2, <3>1, SavedStays DEF Saves
    <3>2. CASE loop # "subagent"
      <4> DEFINE b == jobs[t].on
      <4>1. threads[b] = h /\ saved' = Reported(b)
        BY <2>2, <3>2 DEF Saves, Thread
      <4> HIDE DEF b, h
      <4>2. threads[b] \in Seq(Messages) /\ Headed(threads[b])
        BY <1>1, <4>1
      <4>3. /\ Reported(b) \in Seq(Messages) /\ Headed(Reported(b))
            /\ b = Engine \/ Good(threads[b]) => Good(Reported(b))
        BY <4>2, ReportedIs
      <4> QED
        BY <1>4, <4>1, <4>3 DEF b, h
    <3> QED
      BY <3>1, <3>2
  <2> QED
    BY <2>1, <2>2
<1>6. Fine' /\ jobs[t].on # Engine => (loop = "chat" => Good(h))
  BY <1>4
<1> HIDE DEF h, job
<1> QED
  BY <1>1, <1>2, <1>3, <1>4, <1>5, <1>6, TaskStep

LEMMA RequestFailsStep ==
    ASSUME LoopInv, NEW t \in Prompts, RequestFails(t)
    PROVE  LoopInv'
<1>1. /\ At(t, "request") /\ Over(t) /\ ScreenAfter(t) /\ (UNCHANGED saved \/ Saves(t))
      /\ UNCHANGED <<loop, threads, backend, ui>>
  BY DEF RequestFails
<1>2. t \in Working
  BY <1>1, TaskIs DEF At
<1>3. Fine /\ jobs[t].on # Engine => Good(Thread(t))
  BY <1>1, <1>2, HeldIs DEF Held, At
<1> QED
  BY <1>1, <1>2, <1>3, OverStep

LEMMA EndTaskStep ==
    ASSUME LoopInv, NEW t \in Prompts, EndTask(t)
    PROVE  LoopInv'
<1>1. /\ \/ At(t, "end")
         \/ At(t, "round") /\ ~AnotherRound(t)
      /\ Over(t) /\ ScreenAfter(t) /\ Saves(t)
      /\ UNCHANGED <<loop, threads, backend, ui>>
  BY DEF EndTask
<1>2. t \in Working /\ jobs[t] \in JobType /\ Phase(jobs[t]) /\ LoopCap \in Nat
  BY <1>1, TaskIs, BoundsAre DEF At
<1>3. ASSUME Fine, loop = "chat", jobs[t].on # Engine
      PROVE  Good(Thread(t))
  <2>1. At(t, "round") /\ ~AnotherRound(t)
    BY <1>1, <1>2, <1>3 DEF Phase, At
  <2>2. jobs[t].asked = 0
    BY <1>2, <2>1 DEF AnotherRound, Phase, At, JobType
  <2> QED
    BY <1>2, <1>3, <2>1, <2>2, HeldIs DEF Held, At
<1> QED
  BY <1>1, <1>2, <1>3, OverStep

-----------------------------------------------------------------------------
(* The user's steps *)

LEMMA SubmitStep ==
    ASSUME LoopInv, NEW t \in Prompts, Submit(t)
    PROVE  LoopInv'
<1> DEFINE h == Append(threads[backend], Prompt(t))
           job == [Idle EXCEPT !.pc = "request", !.on = backend]
<1>1. /\ At(t, "idle") /\ (loop # "chat" => t = 1)
      /\ jobs' = [jobs EXCEPT ![t] = job] /\ threads' = [threads EXCEPT ![backend] = h]
      /\ screen' = t /\ ui' = [ui EXCEPT !.overlapped = @ \/ Working # {}]
      /\ UNCHANGED <<loop, backend, saved>>
  BY DEF Submit
<1>2. /\ backend \in Backends /\ threads[backend] \in Seq(Messages) /\ Headed(threads[backend])
      /\ threads \in [Backends -> Seq(Messages)] /\ jobs \in [Prompts -> JobType]
  BY DEF LoopInv, LoopTypes, Heads
<1>3. h \in Seq(Messages) /\ Headed(h) /\ (Good(threads[backend]) => Good(h))
  <2> DEFINE k == threads[backend]
  <2>1. k \in Seq(Messages) /\ Headed(k) /\ h = Append(k, Prompt(t))
    BY <1>2
  <2> HIDE DEF k, h
  <2>2. h \in Seq(Messages) /\ Headed(h) /\ (Good(k) => Good(h))
    BY <2>1, PromptAppended
  <2> QED
    BY <2>2 DEF k
<1>4. /\ job \in JobType /\ job.pc = "request" /\ job.what = "prompt" /\ job.on = backend
      /\ job.round = 0
  <2>1. << >> \in Seq(Messages)
    OBVIOUS
  <2> QED
    BY <1>2, <2>1 DEF Idle, JobType
<1> HIDE DEF h, job
<1>5. Phase(job)
  BY <1>4 DEF Phase
<1>6. /\ \A s \in Prompts : jobs'[s] = IF s = t THEN job ELSE jobs[s]
      /\ \A b \in Backends : threads'[b] = IF b = backend THEN h ELSE threads[b]
  BY <1>1, <1>2
<1>7. ui' \in UiType /\ (Fine' => Fine /\ Working = {})
  <2>1. ui \in UiType
    BY DEF LoopInv, LoopTypes
  <2>2. /\ ui'.made = ui.made /\ ui'.commands = ui.commands /\ ui'.dropped = ui.dropped
        /\ ui'.overlapped = (ui.overlapped \/ Working # {})
    BY <1>1, <2>1 DEF UiType
  <2>3. ui' \in UiType
    BY <1>1, <2>1 DEF UiType
  <2> QED
    BY <2>1, <2>2, <2>3 DEF Fine, UiType
<1>8. LoopTypes'
  BY <1>1, <1>2, <1>3, <1>4, <1>7, BoundsAre DEF LoopInv, LoopTypes
<1>9. Heads'
  BY <1>1, <1>3, <1>6 DEF LoopInv, Heads
<1>10. Phases'
  <2>1. \A s \in Prompts : Phase(jobs'[s])
    BY <1>5, <1>6 DEF LoopInv, Phases
  <2>2. \A s \in Prompts : Phase(jobs[s])'
    BY <1>1, <2>1 DEF Phase
  <2>3. loop # "chat" => \A s \in Prompts : s = 1 \/ jobs'[s].pc = "idle"
    BY <1>1, <1>6 DEF LoopInv, Phases, At
  <2> QED
    BY <1>1, <2>2, <2>3 DEF Phases, At
<1>11. ASSUME Fine'
       PROVE  (Alone /\ Hands /\ Rests /\ SavedIsGood)'
  <2>1. Fine /\ Working = {} /\ Rests /\ SavedIsGood
    BY <1>7, <1>11 DEF LoopInv
  <2>2. Working' = {t}
    BY <1>4, <1>6, <2>1 DEF Working
  <2>3. loop = "chat" \/ jobs[1].pc = "idle"
    BY <1>1 DEF At
  <2>4. \A b \in Endpoints : Good(threads[b])
    BY <2>1, <2>3 DEF Rests, Resting, At
  <2>5. backend # Engine => Good(h)
    BY <1>2, <1>3, <2>4 DEF Backends
  <2>6. Hands'
    <3>1. ASSUME NEW s \in Working', jobs'[s].on # Engine
          PROVE  Held(s, jobs'[s], threads'[jobs'[s].on])
      BY <1>2, <1>4, <1>6, <2>2, <2>5, <3>1 DEF Held
    <3> QED
      BY <3>1 DEF Hands, Thread, Held, JobIds
  <2>7. Rests'
    <3>1. ASSUME NEW b \in Endpoints, \A s \in Working' : jobs'[s].on # b
          PROVE  Good(threads'[b])
      BY <1>4, <1>6, <2>2, <2>4, <3>1, BoundsAre
    <3> QED
      BY <3>1 DEF Rests, Resting
  <2> QED
    BY <1>1, <2>1, <2>2, <2>6, <2>7 DEF Alone, SavedIsGood
<1> QED
  BY <1>8, <1>9, <1>10, <1>11 DEF LoopInv

LEMMA PressCancelStep ==
    ASSUME LoopInv, PressCancel
    PROVE  LoopInv'
<1>1. /\ screen # 0 /\ jobs' = [jobs EXCEPT ![screen].open = FALSE] /\ screen' = 0
      /\ UNCHANGED <<loop, threads, backend, ui, saved>>
  BY DEF PressCancel
<1>2. screen \in Prompts /\ jobs \in [Prompts -> JobType]
  BY <1>1, BoundsAre DEF LoopInv, LoopTypes, Prompts
<1>3. /\ jobs' \in [Prompts -> JobType]
      /\ \A s \in Prompts :
           /\ jobs'[s].pc = jobs[s].pc /\ jobs'[s].on = jobs[s].on /\ jobs'[s].round = jobs[s].round
           /\ jobs'[s].asked = jobs[s].asked /\ jobs'[s].before = jobs[s].before
           /\ jobs'[s].what = jobs[s].what
  <2>1. jobs[screen] \in JobType
    BY <1>2
  <2>2. [jobs[screen] EXCEPT !.open = FALSE] \in JobType
    BY <2>1 DEF JobType
  <2>3. jobs' = [jobs EXCEPT ![screen] = [jobs[screen] EXCEPT !.open = FALSE]]
    BY <1>1, <1>2
  <2>4. jobs' \in [Prompts -> JobType]
    BY <1>2, <2>2, <2>3
  <2>5. ASSUME NEW s \in Prompts
        PROVE  /\ jobs'[s].pc = jobs[s].pc /\ jobs'[s].on = jobs[s].on
               /\ jobs'[s].round = jobs[s].round /\ jobs'[s].asked = jobs[s].asked
               /\ jobs'[s].before = jobs[s].before /\ jobs'[s].what = jobs[s].what
    <3>1. CASE s = screen
      <4>1. jobs'[s] = [jobs[s] EXCEPT !.open = FALSE] /\ jobs[s] \in JobType
        BY <1>2, <2>1, <2>3, <3>1
      <4> QED
        BY <4>1 DEF JobType
    <3>2. CASE s # screen
      <4>1. jobs'[s] = jobs[s]
        BY <1>2, <2>3, <3>2
      <4> QED
        BY <4>1
    <3> QED
      BY <3>1, <3>2
  <2> QED
    BY <2>4, <2>5
<1>4. LoopTypes' /\ Heads'
  BY <1>1, <1>3, BoundsAre DEF LoopInv, LoopTypes, Heads
<1>5. Phases'
  <2>1. \A s \in Prompts : Phase(jobs[s])
    BY DEF LoopInv, Phases
  <2>2. \A s \in Prompts : Phase(jobs[s])'
    BY <1>1, <1>3, <2>1 DEF Phase
  <2>3. loop # "chat" => \A s \in Prompts : s = 1 \/ jobs'[s].pc = "idle"
    BY <1>3 DEF LoopInv, Phases, At
  <2> QED
    BY <1>1, <2>2, <2>3 DEF Phases, At
<1>6. Working' = Working
  BY <1>3 DEF Working
<1>7. ASSUME Fine'
      PROVE  (Alone /\ Hands /\ Rests /\ SavedIsGood)'
  <2>1. Alone /\ Hands /\ Rests /\ SavedIsGood
    BY <1>1, <1>7 DEF LoopInv, Fine
  <2>2. ASSUME NEW s \in Working, jobs'[s].on # Engine
        PROVE  Held(s, jobs'[s], threads[jobs'[s].on])
    <3>1. s \in Prompts
      BY DEF Working
    <3>2. Held(s, jobs[s], threads[jobs[s].on])
      BY <1>3, <2>1, <2>2, <3>1 DEF Hands, Thread
    <3>3. \A round : JobIds(s, jobs'[s], round) = JobIds(s, jobs[s], round)
      BY <1>3, <3>1 DEF JobIds
    <3> QED
      BY <1>3, <3>1, <3>2, <3>3 DEF Held
  <2>3. Hands'
    BY <1>1, <1>6, <2>2 DEF Hands, Thread, Held, JobIds
  <2>4. Rests'
    <3>1. ASSUME NEW b \in Endpoints, Resting(b)'
          PROVE  Resting(b)
      <4>1. \A s \in Working : jobs[s].on # b
        BY <1>3, <1>6, <3>1 DEF Resting, Working
      <4>2. loop = "chat" \/ jobs[1].pc = "idle"
        BY <1>1, <1>3, <3>1, BoundsAre DEF Resting, At
      <4> QED
        BY <4>1, <4>2 DEF Resting, At
    <3> QED
      BY <1>1, <2>1, <3>1 DEF Rests
  <2> QED
    BY <1>1, <1>6, <2>1, <2>3, <2>4 DEF Alone, SavedIsGood
<1> QED
  BY <1>4, <1>5, <1>7 DEF LoopInv

\* A command, given while no task works or else remembered as an overlap.
LEMMA CommandStep ==
    ASSUME LoopInv, loop = "chat", UNCHANGED <<loop, jobs, screen>>, backend' \in Backends,
           ui' \in UiType, Fine' => Fine /\ Working = {},
           threads' \in [Backends -> Seq(Messages)], \A b \in Backends : Headed(threads'[b]),
           saved' \in Seq(Messages), saved' = << >> \/ Headed(saved'),
           Fine' => \A b \in Endpoints : Good(threads'[b]),
           Fine' /\ saved' # << >> => Good(saved')
    PROVE  LoopInv'
<1>1. LoopTypes' /\ Heads'
  BY DEF LoopInv, LoopTypes, Heads
<1>2. Phases'
  <2>1. \A s \in Prompts : Phase(jobs[s])
    BY DEF LoopInv, Phases
  <2>2. \A s \in Prompts : Phase(jobs[s])'
    BY <2>1 DEF Phase
  <2> QED
    BY <2>2 DEF Phases
<1>3. ASSUME Fine'
      PROVE  (Alone /\ Hands /\ Rests /\ SavedIsGood)'
  <2>1. Working' = {}
    BY <1>3 DEF Working
  <2> QED
    BY <1>3, <2>1 DEF Alone, Hands, Rests, SavedIsGood
<1> QED
  BY <1>1, <1>2, <1>3 DEF LoopInv

LEMMA CommandIs ==
    ASSUME LoopInv, Command,
           NEW changed \in {ui, [ui EXCEPT !.made = @ + 1], [ui EXCEPT !.loading = TRUE]},
           ui' = Commanded(changed)
    PROVE  loop = "chat" /\ ui' \in UiType /\ (Fine' => Fine /\ Working = {})
<1>1. loop = "chat" /\ ui.commands < MaxCommands
  BY DEF Command
<1>2. ui \in UiType /\ MaxCommands \in Nat
  BY BoundsAre DEF LoopInv, LoopTypes
<1> DEFINE overlapped == ui.overlapped \/ Working # {}
<1>3. /\ changed \in [ made : Nat, commands : Nat, loading : BOOLEAN, loaded : BOOLEAN,
                       overlapped : BOOLEAN, dropped : BOOLEAN ]
      /\ changed.commands = ui.commands /\ changed.made <= ui.made + 1
      /\ changed.overlapped = ui.overlapped /\ changed.dropped = ui.dropped
  <2> DEFINE made == ui.made + 1
  <2>1. ui.made \in Nat /\ made \in Nat /\ ui.made <= made
    BY <1>2 DEF UiType
  <2>2. CASE changed = ui
    BY <1>2, <2>1, <2>2 DEF UiType
  <2>3. CASE changed = [ui EXCEPT !.made = made]
    <3> HIDE DEF made
    <3>1. /\ changed \in [ made : Nat, commands : Nat, loading : BOOLEAN, loaded : BOOLEAN,
                            overlapped : BOOLEAN, dropped : BOOLEAN ]
          /\ changed.commands = ui.commands /\ changed.made = made
          /\ changed.overlapped = ui.overlapped /\ changed.dropped = ui.dropped
      BY <1>2, <2>1, <2>3 DEF UiType
    <3> QED
      BY <3>1, <2>1 DEF made
  <2>4. CASE changed = [ui EXCEPT !.loading = TRUE]
    BY <1>2, <2>1, <2>4 DEF UiType
  <2> QED
    BY <2>2, <2>3, <2>4
<1>4. ui' = [changed EXCEPT !.commands = @ + 1, !.overlapped = overlapped]
  BY <1>3 DEF Commanded
<1>5. overlapped \in BOOLEAN
  BY <1>2 DEF UiType
<1> HIDE DEF overlapped
<1>6. /\ ui' \in [ made : Nat, commands : Nat, loading : BOOLEAN, loaded : BOOLEAN,
                   overlapped : BOOLEAN, dropped : BOOLEAN ]
      /\ ui'.commands = ui.commands + 1 /\ ui'.made <= ui.made + 1
      /\ ui'.overlapped = overlapped /\ ui'.dropped = ui.dropped
  <2> DEFINE commands == ui.commands + 1
  <2>1. commands \in Nat
    BY <1>2 DEF UiType
  <2>2. ui' = [changed EXCEPT !.commands = commands, !.overlapped = overlapped]
    BY <1>3, <1>4
  <2>3. commands = ui.commands + 1
    OBVIOUS
  <2> HIDE DEF commands
  <2>4. /\ ui' \in [ made : Nat, commands : Nat, loading : BOOLEAN, loaded : BOOLEAN,
                      overlapped : BOOLEAN, dropped : BOOLEAN ]
        /\ ui'.commands = commands /\ ui'.made = changed.made
        /\ ui'.overlapped = overlapped /\ ui'.dropped = ui.dropped
    BY <1>3, <1>5, <2>1, <2>2
  <2> QED
    BY <1>3, <2>3, <2>4
<1>7. ui' \in UiType
  BY <1>1, <1>2, <1>6 DEF UiType
<1>8. Fine' => Fine /\ Working = {}
  BY <1>2, <1>6 DEF Fine, overlapped, UiType
<1> QED
  BY <1>1, <1>7, <1>8

\* The conversations while nobody works on one.
LEMMA StandStill ==
    ASSUME LoopInv
    PROVE  /\ threads \in [Backends -> Seq(Messages)] /\ saved \in Seq(Messages)
           /\ backend \in Backends /\ \A b \in Backends : Headed(threads[b])
           /\ saved = << >> \/ Headed(saved)
           /\ loop = "chat" /\ Fine /\ Working = {} =>
                /\ \A b \in Endpoints : Good(threads[b])
                /\ saved # << >> => Good(saved)
BY DEF LoopInv, LoopTypes, Heads, Rests, Resting, SavedIsGood

LEMMA FreshIs == Fresh \in Seq(Messages) /\ Headed(Fresh) /\ Good(Fresh) /\ Mendable(Fresh)
<1> DEFINE m == System("system")
<1>1. m \in Messages /\ IsSystem(m) /\ Fresh = <<m>>
  BY BoundsAre, MessagesAre DEF Fresh
<1> HIDE DEF m
<1> QED
  BY <1>1, AloneIs DEF Messages

LEMMA ClearChatStep ==
    ASSUME LoopInv, ClearChat
    PROVE  LoopInv'
<1>1. /\ Command /\ threads' = [threads EXCEPT ![Engine] = Fresh] /\ saved' = << >>
      /\ ui' = Commanded(ui) /\ UNCHANGED <<loop, backend, jobs, screen>>
  BY DEF ClearChat
<1>2. loop = "chat" /\ ui' \in UiType /\ (Fine' => Fine /\ Working = {})
  BY <1>1, CommandIs
<1>3. /\ threads' \in [Backends -> Seq(Messages)] /\ \A b \in Backends : Headed(threads'[b])
      /\ \A b \in Endpoints : threads'[b] = threads[b]
  BY <1>1, StandStill, FreshIs, BoundsAre
<1>4. Fine' => \A b \in Endpoints : Good(threads'[b])
  BY <1>2, <1>3, StandStill
<1>5. saved' \in Seq(Messages)
  BY <1>1
<1> QED
  BY <1>1, <1>2, <1>3, <1>4, <1>5, StandStill, CommandStep

\* The conversation of the chat screen's backend is replaced, and saved.
LEMMA ReplacedIs ==
    ASSUME LoopInv, NEW h \in Seq(Messages), Headed(h),
           threads' = [threads EXCEPT ![backend] = h], Command, ui' = Commanded(ui),
           UNCHANGED <<loop, backend, jobs, screen>>, saved' = h, Fine' => Good(h)
    PROVE  LoopInv'
<1>1. loop = "chat" /\ ui' \in UiType /\ (Fine' => Fine /\ Working = {})
  BY CommandIs
<1>2. /\ threads' \in [Backends -> Seq(Messages)]
      /\ \A b \in Backends : threads'[b] = IF b = backend THEN h ELSE threads[b]
  BY StandStill
<1>3. \A b \in Backends : Headed(threads'[b])
  BY <1>2, StandStill
<1>4. Fine' => \A b \in Endpoints : Good(threads'[b])
  BY <1>1, <1>2, StandStill, BoundsAre
<1>5. saved' \in Seq(Messages) /\ (saved' = << >> \/ Headed(saved'))
  BY StandStill
<1>6. Fine' /\ saved' # << >> => Good(saved')
  BY <1>1, StandStill
<1> QED
  BY <1>1, <1>2, <1>3, <1>4, <1>5, <1>6, StandStill, CommandStep

LEMMA CompactChatStep ==
    ASSUME LoopInv, CompactChat
    PROVE  LoopInv'
<1>1. PICK summarized \in BOOLEAN :
        LET rebuilt == Compacted(backend, threads[backend], summarized)
        IN  /\ rebuilt # NoRebuild
            /\ threads' = [threads EXCEPT ![backend] = rebuilt]
            /\ saved' = rebuilt
  BY DEF CompactChat
<1> DEFINE h == threads[backend]
           g == Compacted(backend, h, summarized)
<1>2. /\ Command /\ ui' = Commanded(ui) /\ UNCHANGED <<loop, backend, jobs, screen>>
      /\ g # NoRebuild /\ threads' = [threads EXCEPT ![backend] = g] /\ saved' = g
  BY <1>1 DEF CompactChat
<1>3. h \in Seq(Messages) /\ Headed(h)
  BY StandStill
<1>4. loop = "chat" /\ (Fine' => Fine /\ Working = {})
  BY <1>2, CommandIs
<1>5. Fine' => backend = Engine \/ Good(h)
  BY <1>4, StandStill DEF Backends
<1> HIDE DEF h
<1>6. /\ g \in Seq(Messages) /\ Headed(g)
      /\ backend = Engine \/ Good(h) => Good(g)
  BY <1>2, <1>3, CompactedIs
<1> HIDE DEF g
<1> QED
  BY <1>2, <1>5, <1>6, ReplacedIs

LEMMA ResumeChatStep ==
    ASSUME LoopInv, ResumeChat
    PROVE  LoopInv'
<1> DEFINE g == Restored(backend, saved)
<1>1. /\ Command /\ ui' = Commanded(ui) /\ UNCHANGED <<loop, backend, jobs, screen, saved>>
      /\ saved # << >> /\ threads' = [threads EXCEPT ![backend] = g]
  BY DEF ResumeChat
<1>2. loop = "chat" /\ ui' \in UiType /\ (Fine' => Fine /\ Working = {})
  BY <1>1, CommandIs
<1>3. /\ g \in Seq(Messages) /\ Headed(g)
      /\ backend # Engine => g = saved
  BY <1>1, StandStill, RestoredIs
<1> HIDE DEF g
<1>4. /\ threads' \in [Backends -> Seq(Messages)]
      /\ \A b \in Backends : threads'[b] = IF b = backend THEN g ELSE threads[b]
  BY <1>1, <1>3, StandStill
<1>5. \A b \in Backends : Headed(threads'[b])
  BY <1>3, <1>4, StandStill
<1>6. Fine' => \A b \in Endpoints : Good(threads'[b])
  BY <1>1, <1>2, <1>3, <1>4, StandStill, BoundsAre
<1>7. Fine' /\ saved' # << >> => Good(saved')
  BY <1>1, <1>2, StandStill
<1> QED
  BY <1>1, <1>2, <1>4, <1>5, <1>6, <1>7, StandStill, CommandStep

LEMMA PickTierStep ==
    ASSUME LoopInv, PickTier
    PROVE  LoopInv'
<1>1. /\ Command /\ ui' = Commanded([ui EXCEPT !.made = @ + 1]) /\ backend' = ui.made + 1
      /\ UNCHANGED <<loop, threads, jobs, screen, saved>>
  BY DEF PickTier
<1>2. loop = "chat" /\ ui' \in UiType /\ (Fine' => Fine /\ Working = {})
  BY <1>1, CommandIs
<1>3. backend' \in Backends
  BY <1>1, BoundsAre DEF Command, LoopInv, LoopTypes, UiType, Backends, Endpoints
<1> QED
  BY <1>1, <1>2, <1>3, StandStill, CommandStep

LEMMA LoadOnDeviceStep ==
    ASSUME LoopInv, LoadOnDevice
    PROVE  LoopInv'
<1>1. /\ Command /\ ui' = Commanded([ui EXCEPT !.loading = TRUE]) /\ backend' = Engine
      /\ threads' = threads \/ threads' = [threads EXCEPT ![Engine] = Fresh]
      /\ UNCHANGED <<loop, jobs, screen, saved>>
  BY DEF LoadOnDevice
<1>2. loop = "chat" /\ ui' \in UiType /\ (Fine' => Fine /\ Working = {})
  BY <1>1, CommandIs
<1>3. /\ threads' \in [Backends -> Seq(Messages)] /\ \A b \in Backends : Headed(threads'[b])
      /\ \A b \in Endpoints : threads'[b] = threads[b]
  BY <1>1, StandStill, FreshIs, BoundsAre
<1>4. backend' \in Backends /\ (Fine' => \A b \in Endpoints : Good(threads'[b]))
  BY <1>1, <1>2, <1>3, StandStill, BoundsAre
<1> QED
  BY <1>1, <1>2, <1>3, <1>4, StandStill, CommandStep

\* The loader may report while a task works: on an endpoint.
LEMMA LoadReportedStep ==
    ASSUME LoopInv, LoadReported
    PROVE  LoopInv'
<1>1. /\ threads' = threads \/ threads' = [threads EXCEPT ![Engine] = Fresh]
      /\ UNCHANGED <<loop, backend, jobs, screen, saved>>
      /\ \E loaded \in BOOLEAN : ui' = [ui EXCEPT !.loading = FALSE, !.loaded = loaded]
  BY DEF LoadReported
<1>2. ui' \in UiType /\ (Fine' <=> Fine)
  <2>1. PICK loaded \in BOOLEAN : ui' = [ui EXCEPT !.loading = FALSE, !.loaded = loaded]
    BY <1>1
  <2>2. ui \in UiType
    BY DEF LoopInv, LoopTypes
  <2> QED
    BY <2>1, <2>2 DEF UiType, Fine
<1>3. /\ threads' \in [Backends -> Seq(Messages)] /\ \A b \in Backends : Headed(threads'[b])
      /\ \A b \in Endpoints : threads'[b] = threads[b]
  BY <1>1, StandStill, FreshIs, BoundsAre
<1>4. LoopTypes' /\ Heads'
  BY <1>1, <1>2, <1>3 DEF LoopInv, LoopTypes, Heads
<1>5. Phases'
  <2>1. \A s \in Prompts : Phase(jobs[s])
    BY DEF LoopInv, Phases
  <2>2. \A s \in Prompts : Phase(jobs[s])'
    BY <1>1, <2>1 DEF Phase
  <2> QED
    BY <1>1, <2>2 DEF LoopInv, Phases, At
<1>6. ASSUME Fine'
      PROVE  (Alone /\ Hands /\ Rests /\ SavedIsGood)'
  <2>1. Alone /\ Hands /\ Rests /\ SavedIsGood /\ Working' = Working
    BY <1>1, <1>2, <1>6 DEF LoopInv, Working
  <2>2. ASSUME NEW s \in Working, jobs[s].on # Engine
        PROVE  Held(s, jobs[s], threads'[jobs[s].on])
    <3>1. jobs[s].on \in Endpoints /\ Held(s, jobs[s], threads[jobs[s].on])
      BY <2>1, <2>2, TaskIs DEF Working, Backends, Hands, Thread
    <3> QED
      BY <1>3, <3>1
  <2>3. Hands'
    BY <1>1, <2>1, <2>2 DEF Hands, Thread, Held, JobIds
  <2>4. Rests'
    BY <1>1, <1>3, <2>1 DEF Rests, Resting, At
  <2> QED
    BY <1>1, <2>1, <2>3, <2>4 DEF Alone, SavedIsGood
<1> QED
  BY <1>4, <1>5, <1>6 DEF LoopInv

-----------------------------------------------------------------------------
(* The theorems *)

\* The run that resumes a transcript with an open call has a good conversation.
LEMMA ResumedIs == Resumed \in Seq(Messages) /\ Headed(Resumed) /\ Good(Resumed)
<1> DEFINE turns == 0..MaxPrompts
           sys == System("system")
           prompt == Prompt(0)
           ids == <<<<0, 1, 1>>>>
           reply == Assistant("silent", 0, ids)
           asked == Append(Fresh, prompt)
           h == Interrupted
           f == <<h[1]>> \o CarryoverHistory(h)
<1>1. /\ sys \in Messages /\ IsSystem(sys) /\ Fresh = <<sys>>
      /\ prompt \in Messages /\ ~IsTool(prompt) /\ ~IsSystem(prompt) /\ ~IsAssistant(prompt)
      /\ reply \in Messages /\ ~IsTool(reply) /\ ~IsSystem(reply) /\ reply.calls = ids
  <2>1. ids \in Seq(CallIds) /\ "silent" \in Kinds
    BY DEF CallIds, Kinds
  <2> HIDE DEF ids
  <2>2. prompt \in Messages /\ ~IsTool(prompt) /\ ~IsSystem(prompt)
    BY BoundsAre, MessagesAre
  <2>3. ~IsAssistant(prompt)
    BY DEF Prompt, Message, IsAssistant
  <2>4. reply \in Messages /\ ~IsTool(reply) /\ ~IsSystem(reply) /\ reply.calls = ids
    BY <2>1, BoundsAre, MessagesAre
  <2>5. sys \in Messages /\ IsSystem(sys) /\ Fresh = <<sys>>
    BY BoundsAre, MessagesAre DEF Fresh
  <2> QED
    BY <2>2, <2>3, <2>4, <2>5
<1>2. h = Append(asked, reply)
  <2>1. Fresh = <<sys>>
    BY <1>1
  <2> HIDE DEF sys, prompt, reply
  <2> QED
    BY <2>1 DEF Interrupted, prompt, reply, ids
<1>3. 0 \in turns /\ Messages = MessageType(turns)
  BY BoundsAre DEF Messages
<1> HIDE DEF turns, sys, prompt, reply, h
<1>4. /\ asked \in Seq(Messages) /\ Len(asked) = 2 /\ asked[1] = sys /\ asked[2] = prompt
  <2>1. Fresh \in Seq(Messages) /\ Len(Fresh) = 1 /\ Fresh[1] = sys
    BY <1>1
  <2> QED
    BY <1>1, <2>1
<1>5. Headed(asked) /\ Mendable(asked)
  <2>1. MakesNewCalls(Fresh, prompt)
    BY <1>1 DEF MakesNewCalls
  <2> QED
    BY <1>1, <2>1, FreshIs, AppendKeeps, AppendMends
<1>6. MakesNewCalls(asked, reply)
  <2>1. \A i \in 1..Len(asked) : ~IsAssistant(asked[i]) /\ ~IsTool(asked[i])
    BY <1>1, <1>4, RolesDiffer
  <2> QED
    BY <2>1 DEF MakesNewCalls, Unknown, Calls
<1> HIDE DEF asked
<1>7. h \in Seq(Messages) /\ h[1] = sys
  BY <1>1, <1>2, <1>4
<1>8. Headed(h) /\ Mendable(h)
  BY <1>1, <1>2, <1>4, <1>5, <1>6, AppendKeeps, AppendMends
<1>9. /\ f \in Seq(MessageType(turns))
      /\ Headed(f) /\ Good(f)
  <2> HIDE DEF f
  <2>1. f = <<h[1]>> \o CarryoverHistory(h)
    BY DEF f
  <2>2. f \in Seq(MessageType(turns)) /\ \E o : Carries(f, h, o)
    BY <1>3, <1>7, <1>8, <2>1, CarriedIs
  <2>3. PICK o : Carries(f, h, o)
    BY <2>2
  <2> QED
    BY <1>3, <1>7, <1>8, <2>2, <2>3, CarryMends
<1>10. Resumed = f
  <2> DEFINE c == CarryoverHistory(h)
  <2>1. c \in Seq(MessageType(turns))
    BY <1>3, <1>7, CarryIsTyped
  <2>2. Resumed = AdoptCarryover(<<sys>>, c)
    BY <1>1 DEF Resumed, h
  <2> HIDE DEF c
  <2>3. AdoptCarryover(<<sys>>, c) = <<sys>> \o c
    BY <1>1, <1>3, <2>1, AdoptionIs
  <2> QED
    BY <1>7, <2>2, <2>3 DEF c
<1> QED
  BY <1>3, <1>9, <1>10

LEMMA LoopInitLemma == LoopInit => LoopInv
<1> SUFFICES ASSUME LoopInit PROVE LoopInv
  OBVIOUS
<1>1. PICK start \in {Fresh, Resumed} : threads = [b \in Backends |-> start]
  BY DEF LoopInit, Backends
<1>2. start \in Seq(Messages) /\ Headed(start) /\ Good(start)
  BY FreshIs, ResumedIs
<1>3. /\ loop \in LoopKinds /\ backend = 1 /\ jobs = [t \in Prompts |-> Idle] /\ screen = 0
      /\ ui = NoUi /\ saved = << >>
  BY DEF LoopInit
<1>4. Idle \in JobType /\ Idle.pc = "idle" /\ Phase(Idle)
  <2>1. << >> \in Seq(Messages)
    OBVIOUS
  <2> QED
    BY <2>1, BoundsAre DEF Idle, JobType, Phase
<1>5. ui \in UiType
  BY <1>3, BoundsAre DEF NoUi, UiType
<1>6. 1 \in Backends
  BY BoundsAre DEF Backends, Endpoints
<1>7. << >> \in Seq(Messages)
  OBVIOUS
<1>8. LoopTypes
  BY <1>1, <1>2, <1>3, <1>4, <1>5, <1>6, <1>7, BoundsAre DEF LoopTypes
<1>9. Heads
  BY <1>1, <1>2, <1>3 DEF Heads
<1>10. Phases
  BY <1>3, <1>4 DEF Phases, At
<1>11. Working = {}
  BY <1>3, <1>4 DEF Working
<1>12. Alone /\ Hands /\ Rests /\ SavedIsGood
  BY <1>1, <1>2, <1>3, <1>11, BoundsAre DEF Alone, Hands, Rests, SavedIsGood
<1> QED
  BY <1>8, <1>9, <1>10, <1>12 DEF LoopInv

LEMMA LoopStutters ==
    ASSUME LoopInv, UNCHANGED loopVars
    PROVE  LoopInv'
BY DEF loopVars, LoopInv, LoopTypes, Heads, Phases, Phase, Held, JobIds, Fine, Alone, Working,
   Hands, Thread, Resting, Rests, SavedIsGood, At

LEMMA LoopNextLemma == LoopInv /\ [LoopNext]_loopVars => LoopInv'
<1> SUFFICES ASSUME LoopInv, [LoopNext]_loopVars PROVE LoopInv'
  OBVIOUS
<1>1. ASSUME NEW t \in Prompts, LoopStep(t)
      PROVE  LoopInv'
  BY <1>1, SubmitStep, ReplyArrivesStep, RequestFailsStep, TakeRoundStep, SummaryArrivesStep,
     AbandonedStep, TakeCallStep, SendResultsStep, AskForWrapUpStep, EndTaskStep DEF LoopStep
<1>2. CASE PressCancel
  BY <1>2, PressCancelStep
<1>3. CASE ClearChat
  BY <1>3, ClearChatStep
<1>4. CASE CompactChat
  BY <1>4, CompactChatStep
<1>5. CASE ResumeChat
  BY <1>5, ResumeChatStep
<1>6. CASE PickTier
  BY <1>6, PickTierStep
<1>7. CASE LoadOnDevice
  BY <1>7, LoadOnDeviceStep
<1>8. CASE LoadReported
  BY <1>8, LoadReportedStep
<1>9. CASE UNCHANGED loopVars
  BY <1>9, LoopStutters
<1> QED
  BY <1>1, <1>2, <1>3, <1>4, <1>5, <1>6, <1>7, <1>8, <1>9 DEF LoopNext

\* While nobody went on next to a cancelled task and no reply was dropped, one
\* task works at a time, and its conversation is where the task is: answered
\* but for the calls of the newest reply, which are those about to run.
THEOREM LoopInvariant == LoopSpec => []LoopInv
<1>1. LoopInit => LoopInv
  BY LoopInitLemma
<1>2. LoopInv /\ [LoopNext]_loopVars => LoopInv'
  BY LoopNextLemma
<1> QED
  BY <1>1, <1>2, PTL DEF LoopSpec

\* A request goes out on a conversation in which every call is answered once,
\* right behind the reply that makes it: LoopRequestsAnswerEveryCall.
THEOREM LoopRequestsAreAnswered == LoopSpec => LoopRequestsAnswerEveryCall
<1>1. ASSUME LoopInv', NEW t \in Prompts, Sends(t), Fine'
      PROVE  Paired(threads'[jobs'[t].on])
  <2> DEFINE h == threads'[jobs'[t].on]
             turns == 0..MaxPrompts
  <2>1. jobs'[t].pc = "request" /\ jobs'[t].on # Engine
    BY <1>1 DEF Sends
  <2>2. t \in Working'
    BY <2>1 DEF Working
  <2>3. Held(t, jobs[t], Thread(t))'
    BY <1>1, <2>1, <2>2 DEF LoopInv, Hands
  <2>4. Good(h)
    BY <2>1, <2>3 DEF Held, Thread
  <2>5. h \in Seq(Messages) /\ Messages = MessageType(turns)
    BY <1>1, <2>2 DEF LoopInv, LoopTypes, JobType, Messages, Working
  <2> HIDE DEF h, turns
  <2>6. Paired(h)
    BY <2>4, <2>5, PairedIs DEF Good
  <2> QED
    BY <2>6 DEF h
<1>2. LoopInv' => \A t \in Prompts : Sends(t) /\ Fine' => Paired(threads'[jobs'[t].on])
  BY <1>1
<1>3. LoopInv' => \A t \in Prompts : Sends(t) /\ ~ui'.overlapped /\ ~ui'.dropped
                                       => Paired(threads'[jobs'[t].on])
  BY <1>2 DEF Fine
<1> QED
  BY <1>3, LoopInvariant, PTL DEF LoopRequestsAnswerEveryCall
=============================================================================
