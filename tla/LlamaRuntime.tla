--------------------------- MODULE LlamaRuntime ---------------------------
(***************************************************************************)
(* The single llama.cpp instance of the backend and the two-class gate in  *)
(* front of it: backend/app/llm/runtime.py, classes _PriorityGate and      *)
(* LlamaRuntime.                                                           *)
(*                                                                         *)
(* One element of Calls is one call of LlamaRuntime.generate, made once.   *)
(* The event loop runs one callback at a time, so code between two awaits  *)
(* is one action.  The interleaved parties are the calls, whoever cancels  *)
(* them (AgentRunner, wait_for), the per-call timer, the inference threads *)
(* and the done callbacks of abandoned threads.                            *)
(*                                                                         *)
(* Cancellation and timeouts are those of Python 3.12 (the version CI      *)
(* runs): a request is only noted while the task cannot run, and delivered *)
(* when the task next runs.                                                *)
(***************************************************************************)
EXTENDS Lists

CONSTANTS
    Calls,              \* the generate() calls that are ever made
    Background,         \* those made with background=True
    GenerationTimeout   \* whether generation_timeout_seconds > 0

ASSUME CallsAssumption ==
    /\ Background \subseteq Calls
    /\ GenerationTimeout \in BOOLEAN

VARIABLES
    (* --- _PriorityGate --- *)
    locked,      \* _locked
    foreground,  \* _foreground: the calls whose futures are queued
    background,  \* _background
    fut,         \* the future each call awaits inside acquire()
    (* --- LlamaRuntime --- *)
    loaded,      \* _llama is not None
    healthyFlag, \* _healthy
    (* --- the calls --- *)
    pc,          \* where each call is, or how it ended
    interrupt,   \* a timer or cancel() noted and not yet delivered to the call
    work,        \* the state of each call's inference thread
    callback,    \* _release_after_abandoned registered and not yet run
    (* --- history --- *)
    behind,      \* background inferences a waiting foreground call sat through
    lastExit     \* how the last thread that left llama.cpp left it

gateVars == <<locked, foreground, background, fut>>
callVars == <<pc, interrupt, work, callback>>
history  == <<behind, lastExit>>
vars     == <<gateVars, loaded, healthyFlag, callVars, history>>

Foreground == Calls \ Background

\* How a call can end: GenerationResult, CancelledError, GenerationTimeoutError,
\* the exception llama.cpp raised, "called before load()", the ValueError of
\* deque.remove, and the AttributeError of a model that was closed meanwhile.
Outcomes == {"ok", "cancelled", "timeout", "crashed", "not_loaded",
             "value_error", "model_gone"}

----------------------------------------------------------------------------
Init ==
    /\ locked = FALSE
    /\ foreground = << >>
    /\ background = << >>
    /\ fut = [c \in Calls |-> "none"]
    /\ loaded = TRUE
    /\ healthyFlag = TRUE
    /\ pc = [c \in Calls |-> "new"]
    /\ interrupt = [c \in Calls |-> "none"]
    /\ work = [c \in Calls |-> "none"]
    /\ callback = [c \in Calls |-> FALSE]
    /\ behind = [c \in Calls |-> 0]
    /\ lastExit = "none"

----------------------------------------------------------------------------
(* The gate *)

\* q[i] is the first future of q that is not done.
FirstLive(q, i) ==
    /\ fut[q[i]] = "pending"
    /\ \A j \in 1 .. (i - 1) : fut[q[j]] # "pending"

NoneLive(q) == \A i \in DOMAIN q : fut[q[i]] # "pending"

\* Entries of q after position i: what is left once popleft() reached q[i].
After(q, i) == SubSeq(q, i + 1, Len(q))

Grant(c) == fut' = [fut EXCEPT ![c] = "granted"]

\* release() when a foreground future is still pending: done futures ahead of
\* it are popped and dropped, and the gate changes hands without unlocking.
ReleaseToForeground ==
    \E i \in DOMAIN foreground :
        /\ FirstLive(foreground, i)
        /\ Grant(foreground[i])
        /\ foreground' = After(foreground, i)
        /\ UNCHANGED <<locked, background>>

\* Variant with a fault: background calls are not held back for foreground ones.
ReleaseToAnyBackground ==
    /\ \E i \in DOMAIN background :
        /\ FirstLive(background, i)
        /\ Grant(background[i])
        /\ background' = After(background, i)
    /\ UNCHANGED <<locked, foreground>>

ReleaseToBackground ==
    /\ NoneLive(foreground)
    /\ foreground' = << >>
    /\ \E i \in DOMAIN background :
        /\ FirstLive(background, i)
        /\ Grant(background[i])
        /\ background' = After(background, i)
    /\ UNCHANGED locked

ReleaseUnlocks ==
    /\ NoneLive(foreground)
    /\ NoneLive(background)
    /\ foreground' = << >>
    /\ background' = << >>
    /\ locked' = FALSE
    /\ UNCHANGED fut

Release == ReleaseToForeground \/ ReleaseToBackground \/ ReleaseUnlocks

\* Variant with a fault: the generation in flight is not counted.
DepthWithoutHolder == Len(foreground) + Len(background)

QueueDepth == (IF locked THEN 1 ELSE 0) + Len(foreground) + Len(background)

Healthy == loaded /\ healthyFlag

----------------------------------------------------------------------------
(* generate() *)

\* Foreground calls still waiting for their turn.
Waiting(c) == pc[c] = "waiting" /\ fut[c] = "pending"

\* The thread enters llama.cpp: ensure_future(to_thread(...)).
StartInference(c) ==
    /\ pc' = [pc EXCEPT ![c] = "running"]
    /\ work' = [work EXCEPT ![c] = "running"]
    /\ behind' = [d \in Calls |->
                    IF c \in Background /\ d \in Foreground /\ Waiting(d)
                    THEN behind[d] + 1 ELSE behind[d]]

\* generate() before load() or after close().
CallUnloaded(c) ==
    /\ pc[c] = "new"
    /\ ~loaded
    /\ pc' = [pc EXCEPT ![c] = "not_loaded"]
    /\ UNCHANGED <<gateVars, loaded, healthyFlag, interrupt, work, callback,
                   history>>

\* generate() when the gate is free: acquire() does not suspend, so the thread
\* is started in the same step.
CallFree(c) ==
    /\ pc[c] = "new"
    /\ loaded
    /\ ~locked
    /\ locked' = TRUE
    /\ StartInference(c)
    /\ UNCHANGED <<foreground, background, fut, loaded, healthyFlag,
                   interrupt, callback, lastExit>>

\* generate() when the gate is taken: a future is appended and awaited.
CallQueued(c) ==
    /\ pc[c] = "new"
    /\ loaded
    /\ locked
    /\ pc' = [pc EXCEPT ![c] = "waiting"]
    /\ fut' = [fut EXCEPT ![c] = "pending"]
    /\ IF c \in Background
       THEN background' = Append(background, c) /\ UNCHANGED foreground
       ELSE foreground' = Append(foreground, c) /\ UNCHANGED background
    /\ behind' = [behind EXCEPT ![c] =
                    IF \E b \in Background : work[b] = "running"
                    THEN 1 ELSE 0]
    /\ UNCHANGED <<locked, loaded, healthyFlag, interrupt, work, callback,
                   lastExit>>

\* The caller's task is cancelled.  While it awaits a pending future that
\* future is cancelled at once; otherwise the request waits for delivery.
Cancel(c) ==
    /\ pc[c] \in {"waiting", "running"}
    /\ interrupt[c] # "cancel"
    /\ interrupt' = [interrupt EXCEPT ![c] = "cancel"]
    /\ fut' = IF fut[c] = "pending" THEN [fut EXCEPT ![c] = "cancelled"]
                                     ELSE fut
    /\ UNCHANGED <<locked, foreground, background, loaded, healthyFlag, pc,
                   work, callback, history>>

\* The per-call timer of wait_for fires; it covers the inference only.
Timer(c) ==
    /\ GenerationTimeout
    /\ pc[c] = "running"
    /\ interrupt[c] = "none"
    /\ interrupt' = [interrupt EXCEPT ![c] = "timer"]
    /\ UNCHANGED <<gateVars, loaded, healthyFlag, pc, work, callback, history>>

\* acquire() returns and the inference starts.
WakeGranted(c) ==
    /\ pc[c] = "waiting"
    /\ fut[c] = "granted"
    /\ interrupt[c] = "none"
    /\ loaded
    /\ fut' = [fut EXCEPT ![c] = "none"]
    /\ StartInference(c)
    /\ UNCHANGED <<locked, foreground, background, loaded, healthyFlag,
                   interrupt, callback, lastExit>>

\* acquire() returns after close(): reading create_chat_completion of None
\* raises before the try block, and nothing releases the gate.
WakeModelGone(c) ==
    /\ pc[c] = "waiting"
    /\ fut[c] = "granted"
    /\ interrupt[c] = "none"
    /\ ~loaded
    /\ fut' = [fut EXCEPT ![c] = "none"]
    /\ pc' = [pc EXCEPT ![c] = "model_gone"]
    /\ UNCHANGED <<locked, foreground, background, loaded, healthyFlag,
                   interrupt, work, callback, history>>

\* Variant with a fault: a call cancelled after the hand-off keeps the gate.
WakeDropsGate(c) ==
    /\ pc[c] = "waiting"
    /\ fut[c] = "granted"
    /\ interrupt[c] = "cancel"
    /\ pc' = [pc EXCEPT ![c] = "cancelled"]
    /\ UNCHANGED <<gateVars, loaded, healthyFlag, interrupt, work, callback,
                   history>>

\* Cancelled after the hand-off: the gate is passed on.
WakeHandOff(c) ==
    /\ pc[c] = "waiting"
    /\ fut[c] = "granted"
    /\ interrupt[c] = "cancel"
    /\ Release
    /\ pc' = [pc EXCEPT ![c] = "cancelled"]
    /\ UNCHANGED <<loaded, healthyFlag, interrupt, work, callback, history>>

Queued(c, q) == \E i \in DOMAIN q : q[i] = c

Without(q, i) == SubSeq(q, 1, i - 1) \o After(q, i)

\* Variant with a fault: the cancelled future stays in its queue.
WakeLeavesEntry(c) ==
    /\ pc[c] = "waiting"
    /\ fut[c] = "cancelled"
    /\ pc' = [pc EXCEPT ![c] = "cancelled"]
    /\ UNCHANGED <<gateVars, loaded, healthyFlag, interrupt, work, callback,
                   history>>

\* Cancelled while still queued: the future takes itself out of its queue.
WakeCancelled(c) ==
    /\ pc[c] = "waiting"
    /\ fut[c] = "cancelled"
    /\ \/ \E i \in DOMAIN foreground :
            /\ foreground[i] = c
            /\ foreground' = Without(foreground, i)
            /\ UNCHANGED background
       \/ \E i \in DOMAIN background :
            /\ background[i] = c
            /\ background' = Without(background, i)
            /\ UNCHANGED foreground
    /\ pc' = [pc EXCEPT ![c] = "cancelled"]
    /\ UNCHANGED <<locked, fut, loaded, healthyFlag, interrupt, work, callback,
                   history>>

\* Cancelled while queued, but a release() popped the done future before the
\* call woke: queue.remove(fut) raises ValueError in place of CancelledError.
WakeNotInQueue(c) ==
    /\ pc[c] = "waiting"
    /\ fut[c] = "cancelled"
    /\ ~Queued(c, foreground) /\ ~Queued(c, background)
    /\ pc' = [pc EXCEPT ![c] = "value_error"]
    /\ UNCHANGED <<gateVars, loaded, healthyFlag, interrupt, work, callback,
                   history>>

\* The thread leaves llama.cpp with a completion or an exception.
ThreadExits(c) ==
    /\ work[c] = "running"
    /\ \E how \in {"ok", "crashed"} :
        /\ work' = [work EXCEPT ![c] = how]
        /\ lastExit' = how
    /\ UNCHANGED <<gateVars, loaded, healthyFlag, pc, interrupt, callback,
                   behind>>

\* The caller sees its completion: the gate is released and health restored.
Completed(c) ==
    /\ pc[c] = "running"
    /\ interrupt[c] = "none"
    /\ work[c] = "ok"
    /\ Release
    /\ healthyFlag' = TRUE
    /\ pc' = [pc EXCEPT ![c] = "ok"]
    /\ UNCHANGED <<loaded, interrupt, work, callback, history>>

\* The caller sees llama.cpp's exception: released and marked unhealthy.
Crashed(c) ==
    /\ pc[c] = "running"
    /\ interrupt[c] = "none"
    /\ work[c] = "crashed"
    /\ Release
    /\ healthyFlag' = FALSE
    /\ pc' = [pc EXCEPT ![c] = "crashed"]
    /\ UNCHANGED <<loaded, interrupt, work, callback, history>>

\* Variant with a fault: the gate is released at once, with the thread inside.
AbandonReleases(c) ==
    /\ pc[c] = "running"
    /\ interrupt[c] # "none"
    /\ Release
    /\ pc' = [pc EXCEPT ![c] =
                IF interrupt[c] = "timer" THEN "timeout" ELSE "cancelled"]
    /\ UNCHANGED <<loaded, healthyFlag, interrupt, work, callback, history>>

\* Variant with a fault: the timer's own exception reaches the caller.
AbandonUntranslated(c) ==
    /\ pc[c] = "running"
    /\ interrupt[c] # "none"
    /\ callback' = [callback EXCEPT ![c] = TRUE]
    /\ pc' = [pc EXCEPT ![c] = interrupt[c]]
    /\ UNCHANGED <<gateVars, loaded, healthyFlag, interrupt, work, history>>

\* The timer or the cancellation is delivered: the caller leaves, the thread
\* keeps the gate and a done callback is left to release it.
Abandon(c) ==
    /\ pc[c] = "running"
    /\ interrupt[c] # "none"
    /\ callback' = [callback EXCEPT ![c] = TRUE]
    /\ pc' = [pc EXCEPT ![c] =
                IF interrupt[c] = "timer" THEN "timeout" ELSE "cancelled"]
    /\ UNCHANGED <<gateVars, loaded, healthyFlag, interrupt, work, history>>

\* Variant with a fault: nobody looks at how the abandoned thread ended.
ReleaseUninspected(c) ==
    /\ callback[c]
    /\ work[c] \in {"ok", "crashed"}
    /\ callback' = [callback EXCEPT ![c] = FALSE]
    /\ Release
    /\ UNCHANGED <<loaded, healthyFlag, pc, interrupt, work, history>>

\* _release_after_abandoned runs once the abandoned thread is done.
ReleaseAfterAbandoned(c) ==
    /\ callback[c]
    /\ work[c] \in {"ok", "crashed"}
    /\ callback' = [callback EXCEPT ![c] = FALSE]
    /\ Release
    /\ healthyFlag' = IF work[c] = "crashed" THEN FALSE ELSE healthyFlag
    /\ UNCHANGED <<loaded, pc, interrupt, work, history>>

\* close() at shutdown takes no notice of the gate.
Close ==
    /\ loaded
    /\ loaded' = FALSE
    /\ UNCHANGED <<gateVars, healthyFlag, callVars, history>>

\* The steps the event loop owes a call, and the thread's own end.
Progress(c) ==
    \/ WakeGranted(c) \/ WakeModelGone(c) \/ WakeHandOff(c)
    \/ WakeCancelled(c) \/ WakeNotInQueue(c)
    \/ Completed(c) \/ Crashed(c) \/ Abandon(c) \/ ReleaseAfterAbandoned(c)

Done == \A c \in Calls : pc[c] \in Outcomes /\ ~callback[c]

Terminated == Done /\ UNCHANGED vars

Next ==
    \/ \E c \in Calls :
        \/ CallUnloaded(c) \/ CallFree(c) \/ CallQueued(c)
        \/ Cancel(c) \/ Timer(c)
        \/ Progress(c) \/ ThreadExits(c)
    \/ Close
    \/ Terminated

Spec == Init /\ [][Next]_vars

(* The event loop runs every callback that is ready, and a completion ends *)
(* (max_tokens bounds it).  Nobody owes a call, a cancellation or close(). *)
Fairness == \A c \in Calls : WF_vars(Progress(c)) /\ WF_vars(ThreadExits(c))

FairSpec == Spec /\ Fairness

----------------------------------------------------------------------------
(* Properties *)

TypeOK ==
    /\ locked \in BOOLEAN
    /\ foreground \in Seq(Calls)
    /\ background \in Seq(Calls)
    /\ fut \in [Calls -> {"none", "pending", "granted", "cancelled"}]
    /\ loaded \in BOOLEAN
    /\ healthyFlag \in BOOLEAN
    /\ pc \in [Calls -> {"new", "waiting", "running"} \union Outcomes]
    /\ interrupt \in [Calls -> {"none", "timer", "cancel"}]
    /\ work \in [Calls -> {"none", "running", "ok", "crashed"}]
    /\ callback \in [Calls -> BOOLEAN]
    /\ behind \in [Calls -> Nat]
    /\ lastExit \in {"none", "ok", "crashed"}

\* The call has the gate: handed to it, in use by it, kept for its abandoned
\* thread, or lost with it when the model was closed under its feet.
Owns(c) ==
    \/ pc[c] = "waiting" /\ fut[c] = "granted"
    \/ pc[c] = "running"
    \/ callback[c]
    \/ pc[c] = "model_gone"

(* llama.cpp is never entered by two threads at once, abandoned threads of *)
(* cancelled and timed out calls included (module docstring of runtime.py, *)
(* GenerationTimeoutError).                                                *)
OneInference ==
    \A c, d \in Calls : work[c] = "running" /\ work[d] = "running" => c = d

(* The gate is neither lost nor shared: it is locked exactly while some    *)
(* call owns it, one call at a time, and an inference thread always has    *)
(* it - whatever was cancelled between hand-off and wake-up.               *)
GateOwned ==
    /\ locked <=> \E c \in Calls : Owns(c)
    /\ \A c, d \in Calls : Owns(c) /\ Owns(d) => c = d
    /\ \A c \in Calls : work[c] = "running" => Owns(c)

\* q holds calls of one class that still wait, each once.
QueueOK(q, class) ==
    /\ \A i \in DOMAIN q :
         /\ q[i] \in class
         /\ pc[q[i]] = "waiting"
         /\ fut[q[i]] \in {"pending", "cancelled"}
    /\ \A i, j \in DOMAIN q : q[i] = q[j] => i = j

\* The queue a call belongs in.
Line(c) == IF c \in Background THEN background ELSE foreground

(* No waiter can be forgotten: a future still pending is queued, in the    *)
(* queue of its class, with the gate held by someone who will release it;  *)
(* and no queue keeps an entry of a call that moved on.  The busy guard of *)
(* the pipeline counts these entries.                                      *)
QueueMatchesWaiters ==
    /\ \A c \in Calls : Waiting(c) =>
         /\ locked
         /\ Queued(c, Line(c))
    /\ QueueOK(foreground, Foreground)
    /\ QueueOK(background, Background)

(* A foreground caller waits behind at most one background generation:     *)
(* the one in flight, or handed the gate, when it arrived (runtime.py:     *)
(* "never behind a backlog of agent work").                                *)
BehindAtMostOne == \A c \in Foreground : behind[c] <= 1

(* A llama.cpp crash is never missed or masked, even when the caller had   *)
(* already gone: once the finished threads have been seen by the event     *)
(* loop, a runtime whose last thread crashed is unhealthy.                 *)
CrashReported ==
    (/\ lastExit = "crashed"
     /\ \A c \in Calls : work[c] # "none" =>
          pc[c] \in Outcomes /\ ~callback[c])
    => ~Healthy

(* As long as the model is not closed, every call that queues is served or *)
(* leaves: no wake-up is lost to a cancellation, a timeout or a crash of   *)
(* the call ahead.                                                         *)
EveryWaiterLeaves ==
    \A c \in Calls : pc[c] = "waiting" ~> (pc[c] # "waiting" \/ ~loaded)

Live == {c \in Calls : fut[c] = "pending"}

Cancelled == {c \in Calls : fut[c] = "cancelled"}

Holder == {c \in Calls : Owns(c)}
ForegroundLine == Filter(foreground, Live)
BackgroundLine == Filter(background, Live)

Turn == INSTANCE ModelTurn WITH
    holder <- Holder,
    foregroundLine <- ForegroundLine,
    backgroundLine <- BackgroundLine

(* The gate with its futures, lazily dropped entries and hand-offs keeps   *)
(* the promise of ModelTurn.                                               *)
ImplementsModelTurn == Turn!Spec

(* The number the pipeline's busy guard reads never hides a caller, and    *)
(* exceeds the ones that use or await the model only by cancelled callers  *)
(* who have not woken up yet.                                              *)
DepthIsHonest ==
    QueueDepth = Turn!Depth + Len(Filter(foreground, Cancelled))
                            + Len(Filter(background, Cancelled))

(* Cancelling a queued call ends it with CancelledError, the way           *)
(* asyncio.Lock does ("Same hand-off discipline as asyncio.Lock").         *)
CancelStaysClean == \A c \in Calls : pc[c] # "value_error"

----------------------------------------------------------------------------
(* The inductive invariant behind the safety properties *)

\* What a call's position says of its future, its thread and its callback.
CallShape ==
    \A c \in Calls :
        /\ pc[c] \in {"new", "waiting", "model_gone"} => work[c] = "none"
        /\ callback[c] => pc[c] \in {"timeout", "cancelled"}
        /\ fut[c] = "pending" => pc[c] = "waiting"

\* A foreground caller that already sat through a background generation sits
\* through no other: no background call holds a turn it has yet to start.
BehindBound ==
    \A c \in Foreground :
        /\ behind[c] <= 1
        /\ Waiting(c) /\ behind[c] = 1 =>
             \A b \in Background : ~(pc[b] = "waiting" /\ fut[b] = "granted")

\* A crash is on the flag, or still carried by the owner of the gate.
CrashCarried ==
    /\ \A c \in Calls : Owns(c) /\ work[c] \in {"ok", "crashed"} =>
         lastExit = work[c]
    /\ lastExit = "crashed" =>
         \/ ~healthyFlag
         \/ \E c \in Calls : Owns(c) /\ work[c] = "crashed"

IInv ==
    /\ TypeOK
    /\ CallShape
    /\ GateOwned
    /\ QueueMatchesWaiters
    /\ BehindBound
    /\ CrashCarried
=============================================================================
