------------------------------ MODULE JobState ------------------------------
(***************************************************************************)
(* The state of one document-translation job, shared by the worker that    *)
(* accepts, continues and cancels it (module JobWorker) and by the durable *)
(* task that runs it (module DocumentTask).                                *)
(*                                                                         *)
(* There is one job key: jobs of different keys share nothing.  The        *)
(* translation itself is abstracted to the turns each child agent has      *)
(* completed and to whether the main agent has planned and finished; the   *)
(* tool protocol behind a turn is module TranslationTeam.                  *)
(*                                                                         *)
(* The durable engine (pi-durable) is external.  It is modelled from its   *)
(* use: a commit is atomic, a phase reruns from its checkpoint after a     *)
(* restart, a terminal task accepts no more commits, and aborting a task   *)
(* raises its signal and runs its abort handler.                           *)
(***************************************************************************)
EXTENDS Integers, FiniteSets, Sequences

CONSTANTS
    Clients,        \* callers of submitOrAttachJob
    Children,       \* the sub-agents the main agent dispatches
    Main,           \* the main agent
    None,           \* "no value" for every optional field
    Turns,          \* model turns that bring a child to submitting its section
    Retries,        \* automatic retries after a failure (2 in the code)
    StallLimit,     \* main turns without progress before the watchdog fires (12)
    Budgets,        \* request budgets a caller may ask for; 0 is "no limit"
    TokenBudgets,   \* token budgets a caller may ask for; 0 is "no limit"
    DefaultTokens,  \* token budget of a new job that asks for none (20 million)
    TokenCosts,     \* tokens one model call may cost
    ServerKey,      \* the server's environment holds an API key
    ReadOld,        \* clients also ask for jobs older than the newest one
    MaxConvs,       \* bound: conversations ever created
    MaxSubmits,     \* bound: submissions
    MaxAborts,      \* bound: cancellation requests
    MaxCrashes,     \* bound: restarts of the worker
    MaxCircles      \* bound: without any budget, children only go round in circles
                    \* during this many requests

ASSUME ConstantsOK ==
    /\ IsFiniteSet(Children) /\ Children # {}
    /\ Main \notin Children
    /\ None \notin Clients
    /\ Turns \in Nat \ {0}
    /\ Retries \in Nat /\ StallLimit \in Nat
    /\ Budgets \subseteq Nat /\ TokenBudgets \subseteq Nat
    /\ DefaultTokens \in Nat /\ TokenCosts \subseteq Nat
    /\ ServerKey \in BOOLEAN /\ ReadOld \in BOOLEAN
    /\ MaxConvs \in Nat \ {0}
    /\ MaxSubmits \in Nat /\ MaxAborts \in Nat /\ MaxCrashes \in Nat
    /\ MaxCircles \in Nat

Agents == Children \cup {Main}
Convs == 1 .. MaxConvs

VARIABLES
    doc,        \* SubtitleJobDoc of each conversation (durable)
    saved,      \* DocumentResumeDoc of each conversation (durable)
    task,       \* the conversation's current task and its checkpoint (durable)
    credential, \* documentCredentials has this job's key (memory only)
    job,        \* the entry of AgentWorker.jobs (memory only)
    sub,        \* each caller's submitDocumentJob call
    owner,      \* the caller whose promise is in AgentWorker.pendingJobs
    frame,      \* the phase a task is executing: local variables of `run`
    agent,      \* where each agent's loop stands inside `advance`
    saves,      \* the chain of checkpoint writes of that phase
    signal,     \* runtime.signal and the abort handler of the current task
    cleanup,    \* conversations whose key is deleted after the final commit
    cancelReq,  \* abortJob's answer for each conversation
    spent       \* bookkeeping of the bounds

durable == <<doc, saved, task>>
phase == <<frame, agent, saves>>
api == <<job, sub, owner>>
vars == <<doc, saved, task, credential, job, sub, owner, frame, agent, saves,
          signal, cleanup, cancelReq, spent>>

-----------------------------------------------------------------------------
(* The workspace carried by checkpoints. *)

Work == [turns: [Children -> 0 .. Turns], bad: [Children -> 0 .. Retries + 1],
         planned: BOOLEAN, stalled: 0 .. StallLimit, stage: {"editing", "publish"}]

\* "No value" is not a workspace.
ASSUME NoneIsNoWork == None \notin Work

InitialWork == [turns |-> [c \in Children |-> 0], bad |-> [c \in Children |-> 0],
                planned |-> FALSE, stalled |-> 0, stage |-> "editing"]

Submitted(w) == {c \in Children : w.planned /\ w.turns[c] = Turns}
RunningChildren(w) == {c \in Children : w.planned /\ w.turns[c] < Turns}
FailedChild(w) == \E c \in RunningChildren(w) : w.bad[c] > Retries

\* Mutant: a continuation starts from an empty workspace.
ResumedEmpty(w) == InitialWork

\* A resumed workspace keeps every turn; only failure counters and the
\* watchdog restart.
Resumed(w) == [w EXCEPT !.bad = [c \in Children |-> 0], !.stalled = 0]

\* Mutant: the planning turn already counts as acceptance.
MainTurnSkipsReview(w) == [w EXCEPT !.planned = TRUE, !.stage = "publish", !.stalled = 0]

\* The main agent's turn: plan and dispatch, or accept, close and finish.
MainTurn(w) == IF w.planned THEN [w EXCEPT !.stage = "publish", !.stalled = 0]
                            ELSE [w EXCEPT !.planned = TRUE, !.stalled = 0]
\* A child's turn brings the submission nearer (`gain` = 1) or not: a child has
\* no watchdog, and reads, notes and rewrites may go on for ever.  Either way
\* it was no failure.
ChildTurn(w, c, gain) == [w EXCEPT !.turns[c] = @ + gain, !.bad[c] = 0]

\* Mutant: a refused request is no failure of the child.
ChildErrorLenient(w, c, permanent) ==
    [w EXCEPT !.bad[c] = IF permanent THEN @ ELSE @ + 1]

ChildError(w, c, permanent) ==
    [w EXCEPT !.bad[c] = IF permanent THEN Retries + 1 ELSE @ + 1]

-----------------------------------------------------------------------------
(* State. *)

Statuses == {"none", "running", "failed", "succeeded", "cancelled"}

Doc == [status: Statuses, cancelled: BOOLEAN, previews: SUBSET Children,
        published: BOOLEAN, attempts: Nat, tokens: Nat, tokenStart: Nat]
NewDoc == [status |-> "none", cancelled |-> FALSE, previews |-> {},
           published |-> FALSE, attempts |-> 0, tokens |-> 0, tokenStart |-> 0]

\* `n` is the task id, 0 before the first task of the conversation.
Task == [n: Nat, state: {"none", "ready", "running", "sleeping", "terminal"},
         phase: {"restore", "run"}, work: Work, failures: 0 .. Retries,
         budget: Nat, tokenBudget: Nat]
NewTask == [n |-> 0, state |-> "none", phase |-> "run", work |-> InitialWork,
            failures |-> 0, budget |-> 0, tokenBudget |-> 0]

Frame == [pc: {"off", "begin", "children", "main", "finish", "error", "retry", "fail"},
          failures: 0 .. Retries, live: Work, latest: Work, permanent: BOOLEAN]
NoFrame == [pc |-> "off", failures |-> 0, live |-> InitialWork,
            latest |-> InitialWork, permanent |-> FALSE]
NoAgents == [a \in Agents |-> "off"]

Sub == [pc: {"idle", "waiting", "lookup", "sync", "saved", "resume", "key",
             "create", "register"},
        conv: Convs \cup {None}, n: Nat,
        budget: Budgets \cup {None}, tokenBudget: TokenBudgets \cup {None},
        keyed: BOOLEAN]
NoSub == [pc |-> "idle", conv |-> None, n |-> 0, budget |-> None,
          tokenBudget |-> None, keyed |-> FALSE]

Init ==
    /\ doc = [v \in Convs |-> NewDoc]
    /\ saved = [v \in Convs |-> None]
    /\ task = [v \in Convs |-> NewTask]
    /\ credential = FALSE
    /\ job = None
    /\ sub = [c \in Clients |-> NoSub]
    /\ owner = None
    /\ frame = [v \in Convs |-> NoFrame]
    /\ agent = [v \in Convs |-> NoAgents]
    /\ saves = [v \in Convs |-> << >>]
    /\ signal = [v \in Convs |-> "clear"]
    /\ cleanup = {}
    /\ cancelReq = [v \in Convs |-> [state |-> "none", n |-> 0]]
    /\ spent = [submits |-> 0, aborts |-> 0, crashes |-> 0]

HasKey == credential \/ ServerKey
Live(v) == task[v].state \notin {"none", "terminal"}
UsedConvs == {v \in Convs : task[v].n > 0}

\* Mutant: off by one.
ExhaustedLate(v, budget) == budget > 0 /\ doc[v].attempts > budget

\* The request budget is used up; 0 means there is none.
Exhausted(v, budget) == budget > 0 /\ doc[v].attempts >= budget
=============================================================================
