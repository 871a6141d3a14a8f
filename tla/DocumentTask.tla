---------------------------- MODULE DocumentTask ----------------------------
(***************************************************************************)
(* The durable task of a document job (worker/document-task.ts) and the    *)
(* loops of its agents (advanceTranslationTeam): checkpoints, budgets,     *)
(* bounded retries, atomic publication and the abort handler.              *)
(***************************************************************************)
EXTENDS JobState

AbortDropKey(v) ==
    /\ signal[v] = "aborted" /\ Live(v)
    /\ signal' = [signal EXCEPT ![v] = "handling"]
    /\ credential' = FALSE
    /\ UNCHANGED <<durable, phase, api, cleanup, cancelReq, spent>>

\* Mutant: the workspace kept for continuation survives.
ForgetNothing(v) == UNCHANGED saved

Forget(v) == saved' = [saved EXCEPT ![v] = None]

AbortCommit(v) ==
    /\ signal[v] = "handling" /\ Live(v)
    /\ doc' = [doc EXCEPT ![v].cancelled = TRUE, ![v].status = "cancelled",
                          ![v].previews = {}]
    /\ Forget(v)
    /\ task' = [task EXCEPT ![v].state = "terminal"]
    /\ UNCHANGED <<phase, api, credential, signal, cleanup, cancelReq, spent>>

-----------------------------------------------------------------------------
(* The durable task, phase by phase. *)

\* Phase `restore`: the saved workspace becomes the new task's checkpoint.
Restore(v) ==
    /\ task[v].state = "ready" /\ task[v].phase = "restore"
    /\ signal[v] = "clear"
    /\ saved[v] # None
    /\ task' = [task EXCEPT ![v].phase = "run", ![v].work = Resumed(saved[v]),
                            ![v].failures = 0]
    /\ UNCHANGED <<doc, saved, phase, api, credential, signal, cleanup, cancelReq, spent>>

\* Phase `run` starts from the checkpoint.
BeginRun(v) ==
    /\ task[v].state = "ready" /\ task[v].phase = "run"
    /\ signal[v] = "clear"
    /\ frame[v].pc = "off"
    /\ ~doc[v].cancelled
    /\ task' = [task EXCEPT ![v].state = "running"]
    /\ frame' = [frame EXCEPT ![v] =
                  [pc |-> "begin", failures |-> task[v].failures, permanent |-> FALSE,
                   live |-> task[v].work, latest |-> task[v].work]]
    /\ UNCHANGED <<doc, saved, agent, saves, api, credential, signal, cleanup, cancelReq, spent>>

\* A finished workspace is published in one commit, and the key is dropped
\* once that commit is known.
Publish(v) ==
    /\ frame[v].pc = "begin" /\ Live(v)
    /\ frame[v].latest.stage = "publish"
    /\ doc' = [doc EXCEPT ![v].status = "succeeded", ![v].published = TRUE,
                          ![v].previews = {}]
    /\ Forget(v)
    /\ task' = [task EXCEPT ![v].state = "terminal"]
    /\ frame' = [frame EXCEPT ![v] = NoFrame]
    /\ cleanup' = cleanup \cup {v}
    /\ UNCHANGED <<agent, saves, api, credential, signal, cancelReq, spent>>

\* Without a key the task sleeps for a second and looks again.
AwaitCredentials(v) ==
    /\ frame[v].pc = "begin" /\ Live(v)
    /\ frame[v].latest.stage = "editing"
    /\ ~HasKey
    /\ task' = [task EXCEPT ![v].state = "sleeping"]
    /\ frame' = [frame EXCEPT ![v] = NoFrame]
    /\ UNCHANGED <<doc, saved, agent, saves, api, credential, signal, cleanup, cancelReq, spent>>

\* Every running child is backing off after a failure: sleep until the first
\* of them is due.
Backoff(v) ==
    LET w == frame[v].latest IN
    /\ frame[v].pc = "begin" /\ Live(v)
    /\ HasKey
    /\ RunningChildren(w) # {}
    /\ \A c \in RunningChildren(w) : w.bad[c] \in 1 .. Retries
    /\ task' = [task EXCEPT ![v].state = "sleeping"]
    /\ frame' = [frame EXCEPT ![v] = NoFrame]
    /\ doc' = [doc EXCEPT ![v].status = "running"]
    /\ UNCHANGED <<saved, agent, saves, api, credential, signal, cleanup, cancelReq, spent>>

Wake(v) ==
    /\ task[v].state = "sleeping"
    /\ task' = [task EXCEPT ![v].state = "ready"]
    /\ UNCHANGED <<doc, saved, phase, api, credential, signal, cleanup, cancelReq, spent>>

\* `advance` runs one loop per running child, or the main agent alone.  The
\* watchdog is checked before the main agent's next request.
Advance(v) ==
    LET w == frame[v].latest
        workers == IF RunningChildren(w) # {} THEN RunningChildren(w) ELSE {Main}
        stuck == workers = {Main} /\ w.stalled >= StallLimit
    IN
    /\ frame[v].pc = "begin" /\ Live(v)
    /\ w.stage = "editing"
    /\ HasKey
    /\ doc' = [doc EXCEPT ![v].status = "running"]
    /\ frame' = [frame EXCEPT ![v].pc = CASE stuck -> "error"
                                          [] workers = {Main} -> "main"
                                          [] OTHER -> "children",
                              ![v].permanent = stuck]
    /\ agent' = [agent EXCEPT ![v] =
                  [a \in Agents |-> IF a \in workers /\ ~stuck THEN "idle" ELSE "off"]]
    /\ UNCHANGED <<saved, task, saves, api, credential, signal, cleanup, cancelReq, spent>>

-----------------------------------------------------------------------------
(* One model call, and what the agent's loop does with its outcome.        *)

\* Some budget bounds the requests of the task.
Limited(v) == task[v].budget > 0 \/ task[v].tokenBudget > 0

TokensUsed(v) == doc[v].tokens - doc[v].tokenStart
\* Mutant: the token check is left out.
AffordableRequests(v) == ~Exhausted(v, task[v].budget)

Affordable(v) ==
    /\ ~Exhausted(v, task[v].budget)
    /\ task[v].tokenBudget > 0 => TokensUsed(v) < task[v].tokenBudget

\* A child's loop ends when its section is submitted or any child has failed.
Wanted(v, a) ==
    \/ a = Main
    \/ a \in RunningChildren(frame[v].live) /\ ~FailedChild(frame[v].live)

\* Mutant: a later snapshot is written before an earlier one.
ChainFirst(queue, save) == <<save>> \o queue

Chain(queue, save) == Append(queue, save)

\* The result of a turn is put into the live workspace.  A child's turn is
\* snapshotted and queued for saving, an error included; an error of the main
\* agent goes to the task boundary.
Enqueue(v, a, w) ==
    /\ frame' = [frame EXCEPT ![v].live = w,
                              ![v].pc = IF a = Main THEN "finish" ELSE @]
    /\ saves' = [saves EXCEPT ![v] = Chain(@, [agent |-> a, work |-> w])]
    /\ agent' = [agent EXCEPT ![v][a] = "saving"]

TurnFails(v, a, permanent) ==
    IF a = Main
    THEN /\ frame' = [frame EXCEPT ![v].pc = "error", ![v].permanent = permanent]
         /\ agent' = [agent EXCEPT ![v][a] = "off"]
         /\ UNCHANGED saves
    ELSE Enqueue(v, a, ChildError(frame[v].live, a, permanent))

\* reserve: the budgets are checked and the attempt counted in one commit,
\* before the request is sent.
Reserve(v, a) ==
    /\ agent[v][a] = "idle" /\ Live(v) /\ signal[v] = "clear"
    /\ Wanted(v, a)
    /\ HasKey /\ Affordable(v)
    /\ doc' = [doc EXCEPT ![v].attempts = @ + 1]
    /\ agent' = [agent EXCEPT ![v][a] = "calling"]
    /\ UNCHANGED <<saved, task, frame, saves, api, credential, signal, cleanup, cancelReq, spent>>

\* No key, or a budget used up: a permanent error, and no request.
Refuse(v, a) ==
    /\ agent[v][a] = "idle" /\ Live(v) /\ signal[v] = "clear"
    /\ Wanted(v, a)
    /\ ~HasKey \/ ~Affordable(v)
    /\ TurnFails(v, a, TRUE)
    /\ UNCHANGED <<durable, api, credential, signal, cleanup, cancelReq, spent>>

Charge(v, cost) == doc' = [doc EXCEPT ![v].tokens = @ + cost]

\* A job without any limit may go on for ever; its circles are bounded here.
Circling(v) == Limited(v) \/ doc[v].attempts <= MaxCircles

\* Whatever the answer is, its tokens are recorded first.
Answer(v, a, cost, gain) ==
    /\ agent[v][a] = "calling" /\ Live(v) /\ signal[v] = "clear"
    /\ gain = 1 \/ (a # Main /\ Circling(v))
    /\ Charge(v, cost)
    /\ Enqueue(v, a, IF a = Main THEN MainTurn(frame[v].live)
                                 ELSE ChildTurn(frame[v].live, a, gain))
    /\ UNCHANGED <<saved, task, api, credential, signal, cleanup, cancelReq, spent>>

\* A turn of the main agent that gets nowhere feeds the watchdog.
Stall(v, cost) ==
    /\ agent[v][Main] = "calling" /\ Live(v) /\ signal[v] = "clear"
    /\ frame[v].live.stalled < StallLimit
    /\ Charge(v, cost)
    /\ Enqueue(v, Main, [frame[v].live EXCEPT !.stalled = @ + 1])
    /\ UNCHANGED <<saved, task, api, credential, signal, cleanup, cancelReq, spent>>

Fail(v, a, cost, permanent) ==
    /\ agent[v][a] = "calling" /\ Live(v) /\ signal[v] = "clear"
    /\ Charge(v, cost)
    /\ TurnFails(v, a, permanent)
    /\ UNCHANGED <<saved, task, api, credential, signal, cleanup, cancelReq, spent>>

LoopEnds(v, a) ==
    /\ agent[v][a] = "idle" /\ signal[v] = "clear"
    /\ ~Wanted(v, a)
    /\ agent' = [agent EXCEPT ![v][a] = "off"]
    /\ UNCHANGED <<durable, frame, saves, api, credential, signal, cleanup, cancelReq, spent>>

\* All loops have ended: a failed child fails the task, else the phase's
\* final save is queued.
Join(v) ==
    /\ frame[v].pc = "children" /\ signal[v] = "clear"
    /\ agent[v] = NoAgents
    /\ IF FailedChild(frame[v].live)
       THEN /\ frame' = [frame EXCEPT ![v].pc = "error", ![v].permanent = TRUE]
            /\ UNCHANGED saves
       ELSE /\ frame' = [frame EXCEPT ![v].pc = "finish"]
            /\ saves' = [saves EXCEPT ![v] =
                          Chain(@, [agent |-> Main, work |-> frame[v].live])]
    /\ UNCHANGED <<durable, agent, api, credential, signal, cleanup, cancelReq, spent>>

\* Mutant: the preview is computed from the live workspace.
PreviewLive(v, save) == Submitted(frame[v].live)

Preview(v, save) == Submitted(save.work)

\* save: checkpoint writes are chained in the order they were asked for and
\* write the snapshot taken then.  The preview is derived from that snapshot.
SaveCommit(v) ==
    LET save == Head(saves[v]) IN
    /\ saves[v] # << >> /\ Live(v) /\ signal[v] = "clear"
    /\ ~doc[v].cancelled
    /\ doc' = [doc EXCEPT ![v].previews = Preview(v, save)]
    /\ saves' = [saves EXCEPT ![v] = Tail(@)]
    /\ IF frame[v].pc = "finish"
       THEN /\ task' = [task EXCEPT ![v].work = save.work, ![v].failures = 0,
                                    ![v].state = "ready"]
            /\ frame' = [frame EXCEPT ![v] = NoFrame]
            /\ agent' = [agent EXCEPT ![v] = NoAgents]
       ELSE /\ task' = [task EXCEPT ![v].work = save.work, ![v].failures = 0]
            /\ frame' = [frame EXCEPT ![v].latest = save.work]
            /\ agent' = [agent EXCEPT ![v][save.agent] = "idle"]
    /\ UNCHANGED <<saved, api, credential, signal, cleanup, cancelReq, spent>>

-----------------------------------------------------------------------------
(* The task boundary. *)

\* A cancelled phase returns without writing anything.  Calls in flight end
\* first, and their tokens are still recorded.
Interrupted(v, a, cost) ==
    /\ signal[v] # "clear"
    /\ agent[v][a] = "calling"
    /\ agent' = [agent EXCEPT ![v][a] = "off"]
    /\ doc' = IF Live(v) THEN [doc EXCEPT ![v].tokens = @ + cost] ELSE doc
    /\ UNCHANGED <<saved, task, frame, saves, api, credential, signal, cleanup, cancelReq, spent>>

PhaseAborted(v) ==
    /\ signal[v] # "clear"
    /\ frame[v].pc # "off"
    /\ \A a \in Agents : agent[v][a] # "calling"
    /\ frame[v].pc \in {"begin", "retry", "fail"} => ~Live(v)
    /\ frame' = [frame EXCEPT ![v] = NoFrame]
    /\ agent' = [agent EXCEPT ![v] = NoAgents]
    /\ saves' = [saves EXCEPT ![v] = << >>]
    /\ UNCHANGED <<durable, api, credential, signal, cleanup, cancelReq, spent>>

\* Mutant: one retry too many.
RetryableLate(f) == ~f.permanent /\ f.failures <= Retries

Retryable(f) == ~f.permanent /\ f.failures < Retries

\* Not cancelled: retry from the last saved workspace, or give up.
Boundary(v) ==
    /\ frame[v].pc = "error" /\ signal[v] = "clear"
    /\ frame' = [frame EXCEPT ![v].pc = IF Retryable(frame[v]) THEN "retry" ELSE "fail"]
    /\ UNCHANGED <<durable, agent, saves, api, credential, signal, cleanup, cancelReq, spent>>

\* Model errors back off with a durable sleep, others rerun at once.
RetryPhase(v, state) ==
    /\ frame[v].pc = "retry" /\ Live(v)
    /\ task' = [task EXCEPT ![v].work = frame[v].latest, ![v].state = state,
                            ![v].failures = frame[v].failures + 1]
    /\ frame' = [frame EXCEPT ![v] = NoFrame]
    /\ UNCHANGED <<doc, saved, agent, saves, api, credential, signal, cleanup, cancelReq, spent>>

Remember(v) == saved' = [saved EXCEPT ![v] = frame[v].latest]
FailedDoc(d) == [d EXCEPT !.status = "failed"]

\* The failure, its result and the workspace to continue from are one commit;
\* the key is dropped after it.
FailTask(v) ==
    /\ frame[v].pc = "fail" /\ Live(v)
    /\ doc' = [doc EXCEPT ![v] = FailedDoc(@)]
    /\ Remember(v)
    /\ task' = [task EXCEPT ![v].state = "terminal"]
    /\ frame' = [frame EXCEPT ![v] = NoFrame]
    /\ cleanup' = cleanup \cup {v}
    /\ UNCHANGED <<agent, saves, api, credential, signal, cancelReq, spent>>

DropKey(v) ==
    /\ v \in cleanup
    /\ cleanup' = cleanup \ {v}
    /\ credential' = FALSE
    /\ UNCHANGED <<durable, phase, api, signal, cancelReq, spent>>

\* The worker stops (close or crash) and starts again: memory is lost, an
\* executing phase will rerun, and an abort the engine had accepted may or
\* may not have been recorded.
Restart ==
    /\ spent.crashes < MaxCrashes
    /\ spent' = [spent EXCEPT !.crashes = @ + 1]
    /\ \E kept \in SUBSET {v \in Convs : signal[v] # "clear" /\ Live(v)} :
          signal' = [v \in Convs |-> IF v \in kept THEN "aborted" ELSE "clear"]
    /\ task' = [v \in Convs |->
                 IF task[v].state = "running" THEN [task[v] EXCEPT !.state = "ready"]
                                              ELSE task[v]]
    /\ credential' = FALSE
    /\ job' = None
    /\ sub' = [c \in Clients |-> NoSub]
    /\ owner' = None
    /\ frame' = [v \in Convs |-> NoFrame]
    /\ agent' = [v \in Convs |-> NoAgents]
    /\ saves' = [v \in Convs |-> << >>]
    /\ cleanup' = {}
    /\ cancelReq' = [v \in Convs |-> IF cancelReq[v].state = "waiting"
                                     THEN [state |-> "none", n |-> 0] ELSE cancelReq[v]]
    /\ UNCHANGED <<doc, saved>>
=============================================================================
