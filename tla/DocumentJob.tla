---------------------------- MODULE DocumentJob ----------------------------
(***************************************************************************)
(* A document job as a whole: the worker, the durable task and restarts,   *)
(* with what they promise together.                                        *)
(***************************************************************************)
EXTENDS JobWorker, DocumentTask

Submission(c) ==
    \/ Lookup(c) \/ SyncAttach(c) \/ SyncCancelled(c) \/ SyncFailed(c)
    \/ ReadSaved(c) \/ RejectKeyless(c) \/ Resume(c) \/ RejectResume(c)
    \/ CheckKey(c) \/ Create(c) \/ Register(c)

AgentStep(v, a) ==
    \/ Reserve(v, a) \/ Refuse(v, a) \/ LoopEnds(v, a)
    \/ \E cost \in TokenCosts :
          \/ \E gain \in {0, 1} : Answer(v, a, cost, gain)
          \/ \E permanent \in BOOLEAN : Fail(v, a, cost, permanent)
          \/ Interrupted(v, a, cost)

TaskStep(v) ==
    \/ Restore(v) \/ BeginRun(v) \/ Publish(v) \/ AwaitCredentials(v) \/ Backoff(v)
    \/ Wake(v) \/ Advance(v) \/ Join(v) \/ SaveCommit(v) \/ PhaseAborted(v)
    \/ Boundary(v) \/ FailTask(v) \/ DropKey(v)
    \/ \E state \in {"ready", "sleeping"} : RetryPhase(v, state)
    \/ \E cost \in TokenCosts : Stall(v, cost)
    \/ \E a \in Agents : AgentStep(v, a)

Cancellation(v) == AbortDone(v) \/ AbortDropKey(v) \/ AbortCommit(v)

Next ==
    \/ \E c \in Clients :
          \/ Submission(c)
          \/ \E keyed \in BOOLEAN, b \in Budgets \cup {None}, t \in TokenBudgets \cup {None} :
                Submit(c, keyed, b, t)
    \/ \E v \in Convs : TaskStep(v) \/ Cancellation(v) \/ AbortJob(v) \/ Observe(v)
    \/ Restart

Spec == Init /\ [][Next]_vars

-----------------------------------------------------------------------------
(* Properties. *)

\* Every variable has its type.
TypeOK ==
    /\ doc \in [Convs -> Doc]
    /\ saved \in [Convs -> Work \cup {None}]
    /\ task \in [Convs -> Task]
    /\ credential \in BOOLEAN
    /\ job \in [conv: Convs, n: Nat] \cup {None}
    /\ sub \in [Clients -> Sub]
    /\ owner \in Clients \cup {None}
    /\ frame \in [Convs -> Frame]
    /\ agent \in [Convs -> [Agents -> {"off", "idle", "calling", "saving"}]]
    /\ saves \in [Convs -> Seq([agent: Agents, work: Work])]
    /\ signal \in [Convs -> {"clear", "aborted", "handling"}]
    /\ cleanup \subseteq Convs
    /\ cancelReq \in [Convs -> [state: {"none", "waiting", "acked"}, n: Nat]]
    /\ spent \in [submits: Nat, aborts: Nat, crashes: Nat]

\* However many agents call at once, through retries, restarts and manual
\* continuations, a conversation never sends more requests than the budget
\* of the task that sends them (document-task.ts:125, agent-worker.ts:275).
RequestBudgetHolds ==
    \A v \in Convs : task[v].budget > 0 => doc[v].attempts <= task[v].budget

\* The token budget is checked before a call and charged after it, so it can
\* be overrun, but only by the calls that were in flight when it ran out:
\* what was spent, plus what is in flight, exceeds the limit by less than one
\* call per agent (token-budget.ts:14, document-task.ts:126).
TokenOverrunBounded ==
    \A v \in Convs : \A most \in TokenCosts :
        /\ \A cost \in TokenCosts : cost <= most
        /\ task[v].tokenBudget > 0
        => TokensUsed(v) < task[v].tokenBudget + most * Cardinality(Children)

\* Concurrent submissions, attachments, restarts and cancellations never leave
\* two conversations translating the same document (agent-worker.ts:198).
OneLiveJob ==
    \A u, v \in Convs : doc[u].status = "running" /\ doc[v].status = "running" => u = v

\* A publication is whole and final: it comes from a workspace in which every
\* section was submitted and the main agent finished, it leaves no preview and
\* nothing to continue from, and a cancelled job never has one.
PublicationIsWhole ==
    \A v \in Convs : doc[v].published =>
        /\ doc[v].status = "succeeded" /\ ~doc[v].cancelled
        /\ doc[v].previews = {} /\ saved[v] = None
        /\ task[v].work.stage = "publish" /\ Submitted(task[v].work) = Children

\* A cancelled job keeps nothing a later submission could pick up, and none of
\* its agents gets another request through.
CancellationIsFinal ==
    \A v \in Convs : doc[v].cancelled =>
        /\ doc[v].status = "cancelled" /\ doc[v].previews = {} /\ saved[v] = None
        /\ ~Live(v)

\* The workspace a conversation would go on from if the worker died now.
DurableWork(v) ==
    IF saved[v] # None /\ (doc[v].status = "failed" \/ task[v].phase = "restore")
    THEN saved[v] ELSE task[v].work

\* Viewers only see sections that were submitted, and as long as the job is
\* not cancelled or published they keep what they saw: the preview is always
\* the submitted part of the durable workspace, after a failure too.
PreviewIsDurable ==
    \A v \in Convs : doc[v].status \in {"running", "failed"} =>
        doc[v].previews = Submitted(DurableWork(v))

\* A failed job can always be continued.
FailureKeepsDraft == \A v \in Convs : doc[v].status = "failed" => saved[v] # None

\* No turn that was ever made durable is lost: not to a sibling's older
\* snapshot, a retry, a failure, a continuation or a restart
\* (document-task.ts:61, the saves chain, and `latest`).
AtLeast(w, u) ==
    /\ u.planned => w.planned
    /\ \A c \in Children : w.turns[c] >= u.turns[c]
NoTurnLost ==
    [][\A v \in Convs : doc[v].status \in {"running", "failed"} /\ ~doc'[v].cancelled
          => AtLeast(DurableWork(v)', DurableWork(v))]_vars

\* Requests and tokens are never forgotten, and a fresh token allowance is
\* only granted to the explicit continuation of a failed job: attaching,
\* automatic retries and restarts keep the old one (agent-worker.ts:279).
AllowanceOnlyByContinuation ==
    [][\A v \in Convs :
          /\ doc'[v].attempts >= doc[v].attempts /\ doc'[v].tokens >= doc[v].tokens
          /\ doc'[v].tokenStart # doc[v].tokenStart =>
                doc[v].status = "failed" /\ task'[v].n = task[v].n + 1]_vars

\* The worker and its task implement the promise of JobPromise: one document,
\* one job at a time, sections kept, publication whole, cancellation final.
SubmittedSections ==
    [v \in Convs |-> IF doc[v].status \in {"none", "cancelled"} THEN {}
                     ELSE Submitted(DurableWork(v))]
Promise == INSTANCE JobPromise WITH
    Jobs <- Convs, Sections <- Children,
    status <- [v \in Convs |-> doc[v].status], submitted <- SubmittedSections
KeepsPromise == Promise!Spec

\* The worker's own steps are never put off for ever; callers, cancellations
\* and restarts happen or not.  A backoff ends because its due time is fixed
\* when the failure is recorded, hence strong fairness of Advance.
Fairness ==
    /\ \A c \in Clients : WF_vars(Submission(c))
    /\ \A v \in Convs : /\ WF_vars(TaskStep(v)) /\ WF_vars(Cancellation(v))
                        /\ SF_vars(Advance(v))
FairSpec == Spec /\ Fairness

\* A job that has a key and a budget, be it for requests or for tokens, always
\* comes to an end, through every combination of failing calls, children that
\* go round in circles, exhausted budgets, retries and restart.  The code
\* promises no more: with both budgets turned off nothing stops a child that
\* calls its tools for ever (translation-team.ts:359; the token budget is on
\* unless the caller or the environment sets it to 0, agent-worker.ts:222).
JobSettles ==
    \A v \in Convs :
        doc[v].status = "running" /\ Limited(v) ~> doc[v].status # "running"

\* Every caller is answered, those that only wait on another's submission too.
SubmissionAnswered == \A c \in Clients : sub[c].pc # "idle" ~> sub[c].pc = "idle"

\* Every cancellation request is answered.
CancellationAnswered ==
    \A v \in Convs : cancelReq[v].state = "waiting" ~> cancelReq[v].state # "waiting"

-----------------------------------------------------------------------------
(* Statements of the documentation that the code does not keep. *)

\* "After restart, a browser-only key must be supplied again by reattaching"
\* (document-task.ts:103): without a restart, a task that is about to run has
\* the key it was submitted with.
KeyOnlyLostByRestart ==
    \A v \in Convs :
        spent.crashes = 0 /\ signal[v] = "clear" /\ frame[v].pc = "begin" => HasKey

\* An explicit cancellation clears the checkpoint and the next submission
\* starts over (docs/document-translation.md:101).
CancelClearsCheckpoint ==
    \A v \in Convs : cancelReq[v].state = "acked" => saved[v] = None
=============================================================================
