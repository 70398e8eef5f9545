--------------------------- MODULE SessionThreads ---------------------------
(***************************************************************************)
(* What the ACP server promises about the threads a client has open,       *)
(* without the machinery behind it: every session has a conversation of    *)
(* its own, and only what is done on that session changes it.  There is no *)
(* live session here, no backend and no parked copy.                       *)
(*                                                                         *)
(* The promise is spread over the comments of crates/cli/src/main.rs:      *)
(* "installing another session can't lose or leak it" (2521-2522), "nobody *)
(* else's" (2543-2544), "the next session to open cannot inherit them"     *)
(* (3110-3112).  SessionWorkspace is shown to keep it.                     *)
(*                                                                         *)
(* A conversation is the sequence of the turns it holds: a turn is there   *)
(* from the moment its prompt is in the history.  One turn runs on a       *)
(* session at a time, and nothing else is done on it meanwhile.            *)
(***************************************************************************)
EXTENDS Naturals, Sequences

CONSTANTS
    Sessions,   \* session ids
    Turns,      \* prompts, each one sent once
    NoTurn,     \* no turn is running
    Closed,     \* the thread of a session the process does not hold
    NoCopy      \* the saved copy of a session that was never saved

VARIABLES
    thread,     \* session -> its conversation, or Closed
    running,    \* session -> the turn that runs on it, or NoTurn
    saved       \* session -> the conversation on disk, or NoCopy

vars == <<thread, running, saved>>

Open(s) == thread[s] # Closed
Quiet(s) == running[s] = NoTurn

Init ==
    /\ thread = [s \in Sessions |-> Closed]
    /\ running = [s \in Sessions |-> NoTurn]
    /\ saved = [s \in Sessions |-> NoCopy]

New(s) ==
    /\ ~Open(s)
    /\ saved[s] = NoCopy
    /\ thread' = [thread EXCEPT ![s] = << >>]
    /\ UNCHANGED <<running, saved>>

\* The saved copy is the thread; failing that, the one in memory.
Load(s) ==
    /\ Quiet(s)
    /\ saved[s] # NoCopy
    /\ thread' = [thread EXCEPT ![s] = saved[s]]
    /\ UNCHANGED <<running, saved>>

\* The open copy is the source; failing that, the saved one, or nothing.
ForkSource(s) == IF Open(s) THEN thread[s]
                 ELSE IF saved[s] # NoCopy THEN saved[s] ELSE << >>
Fork(s, n) ==
    /\ Quiet(s)
    /\ ~Open(n)
    /\ saved[n] = NoCopy
    /\ thread' = [thread EXCEPT ![n] = ForkSource(s)]
    /\ UNCHANGED <<running, saved>>

\* A delete closes first.
Close(s) ==
    /\ Quiet(s)
    /\ thread' = [thread EXCEPT ![s] = Closed]
    /\ \E copy \in {saved[s], NoCopy} : saved' = [saved EXCEPT ![s] = copy]
    /\ UNCHANGED running

\* A prompt reaches the model: its turn is new, and is the session's.
Ask(s, t) ==
    /\ Open(s)
    /\ Quiet(s)
    /\ \A o \in Sessions : Open(o) => \A i \in 1..Len(thread[o]) : thread[o][i] # t
    /\ thread' = [thread EXCEPT ![s] = Append(@, t)]
    /\ running' = [running EXCEPT ![s] = t]
    /\ UNCHANGED saved

Ended(s) == running' = [running EXCEPT ![s] = NoTurn]

\* A turn ends, with an answer or without, and is saved or not.
End(s) ==
    /\ ~Quiet(s)
    /\ Ended(s)
    /\ \E copy \in {saved[s], thread[s]} : saved' = [saved EXCEPT ![s] = copy]
    /\ UNCHANGED thread

\* A cancelled or refused prompt is taken back: it, and nothing before it.
TakeBack(s) ==
    /\ ~Quiet(s)
    /\ thread[s] # << >>
    /\ thread[s][Len(thread[s])] = running[s]
    /\ Ended(s)
    /\ thread' = [thread EXCEPT ![s] = SubSeq(@, 1, Len(@) - 1)]
    /\ \E copy \in {saved[s], thread'[s]} : saved' = [saved EXCEPT ![s] = copy]

\* /clear
Clear(s) ==
    /\ Open(s)
    /\ Quiet(s)
    /\ thread' = [thread EXCEPT ![s] = << >>]
    /\ saved' = [saved EXCEPT ![s] = NoCopy]
    /\ UNCHANGED running

\* The process is started again: what is on disk is all there is.
Restart ==
    /\ thread' = [s \in Sessions |-> Closed]
    /\ running' = [s \in Sessions |-> NoTurn]
    /\ UNCHANGED saved

Next ==
    \/ Restart
    \/ \E s \in Sessions :
        \/ New(s) \/ Load(s) \/ Close(s) \/ End(s) \/ TakeBack(s) \/ Clear(s)
        \/ \E n \in Sessions : Fork(s, n)
        \/ \E t \in Turns : Ask(s, t)

Spec == Init /\ [][Next]_vars
=============================================================================
