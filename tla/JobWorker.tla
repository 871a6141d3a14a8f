----------------------------- MODULE JobWorker -----------------------------
(***************************************************************************)
(* AgentWorker (worker/agent-worker.ts): submission, continuation and      *)
(* cancellation of a document job.  One action per stretch of code between *)
(* two awaits.                                                             *)
(***************************************************************************)
EXTENDS JobState

\* Mutant: submissions in progress are not looked up.
EntryAlone == "lookup"

\* A caller that finds a submission in progress shares its promise.
Entry == IF owner = None THEN "lookup" ELSE "waiting"

\* The key enters the credential map before anything else is looked at.
Submit(c, keyed, budget, tokenBudget) ==
    /\ sub[c].pc = "idle"
    /\ spent.submits < MaxSubmits
    /\ spent' = [spent EXCEPT !.submits = @ + 1]
    /\ credential' = (credential \/ keyed)
    /\ sub' = [sub EXCEPT ![c] =
                [NoSub EXCEPT !.pc = Entry, !.budget = budget, !.tokenBudget = tokenBudget,
                              !.keyed = keyed]]
    /\ owner' = IF owner = None THEN c ELSE owner
    /\ UNCHANGED <<durable, phase, job, signal, cleanup, cancelReq>>

\* Mutant: only the caller that started the submission is answered.
AnsweredAlone(c) == {c}

\* The submission's promise settles: everyone waiting on it is answered.
Answered(c) == {c} \cup {d \in Clients : owner = c /\ sub[d].pc = "waiting"}

Settle(c) ==
    /\ sub' = [d \in Clients |-> IF d \in Answered(c) THEN NoSub ELSE sub[d]]
    /\ owner' = IF owner = c THEN None ELSE owner

\* A failed submission also drops the key it was given.
Reject(c) ==
    /\ Settle(c)
    /\ credential' = FALSE
    /\ UNCHANGED <<durable, phase, job, signal, cleanup, cancelReq, spent>>

Step(c, pc) ==
    /\ sub' = [sub EXCEPT ![c].pc = pc]
    /\ UNCHANGED owner

\* getJob: the in-memory record, else the newest stored conversation of this
\* key, else nothing, and then a new job is created.
Lookup(c) ==
    /\ sub[c].pc = "lookup"
    /\ \/ /\ job # None
          /\ sub' = [sub EXCEPT ![c].pc = "sync", ![c].conv = job.conv, ![c].n = job.n]
          /\ UNCHANGED job
       \/ /\ job = None
          /\ \E v \in UsedConvs :
                /\ \A u \in UsedConvs : u <= v
                /\ job' = [conv |-> v, n |-> task[v].n]
                /\ sub' = [sub EXCEPT ![c].pc = "sync", ![c].conv = v, ![c].n = task[v].n]
       \/ /\ job = None /\ UsedConvs = {}
          /\ sub' = [sub EXCEPT ![c].pc = "key"]
          /\ UNCHANGED job
    /\ UNCHANGED <<durable, phase, owner, credential, signal, cleanup, cancelReq, spent>>

\* The stored document is authoritative for the status.
SyncAttach(c) ==
    /\ sub[c].pc = "sync"
    /\ doc[sub[c].conv].status \notin {"failed", "cancelled"}
    /\ Settle(c)
    /\ credential' = (credential /\ doc[sub[c].conv].status # "succeeded")
    /\ UNCHANGED <<durable, phase, job, signal, cleanup, cancelReq, spent>>

SyncCancelled(c) ==
    /\ sub[c].pc = "sync"
    /\ doc[sub[c].conv].status = "cancelled"
    /\ Step(c, "key")
    /\ job' = None
    /\ UNCHANGED <<durable, phase, credential, signal, cleanup, cancelReq, spent>>

SyncFailed(c) ==
    /\ sub[c].pc = "sync"
    /\ doc[sub[c].conv].status = "failed"
    /\ Step(c, "saved")
    /\ UNCHANGED <<durable, phase, job, credential, signal, cleanup, cancelReq, spent>>

\* A failed job with a saved workspace is continued, if there is a key.
ReadSaved(c) ==
    /\ sub[c].pc = "saved"
    /\ IF saved[sub[c].conv] # None
       THEN /\ HasKey
            /\ Step(c, "resume")
            /\ UNCHANGED job
       ELSE /\ Step(c, "key")
            /\ job' = None
    /\ UNCHANGED <<durable, phase, credential, signal, cleanup, cancelReq, spent>>

RejectKeyless(c) ==
    /\ \/ sub[c].pc = "key"
       \/ sub[c].pc = "saved" /\ saved[sub[c].conv] # None
    /\ ~HasKey
    /\ Reject(c)

Budget(c, inherited) == IF sub[c].budget = None THEN inherited ELSE sub[c].budget
TokenBudget(c, inherited) ==
    IF sub[c].tokenBudget = None THEN inherited ELSE sub[c].tokenBudget

Resumable(c) ==
    LET v == sub[c].conv
    IN  /\ ~doc[v].cancelled /\ doc[v].status = "failed" /\ task[v].n = sub[c].n
        /\ ~Exhausted(v, Budget(c, task[v].budget))

\* Mutant: a continuation starts counting requests afresh.
ContinuedDocFresh(d) ==
    [d EXCEPT !.status = "running", !.tokenStart = d.tokens, !.attempts = 0]

ContinuedDoc(d) == [d EXCEPT !.status = "running", !.tokenStart = d.tokens]

\* The commit of resumeDocumentJob: a successor task in the same conversation,
\* a fresh token allowance, the request count kept.
Resume(c) ==
    /\ sub[c].pc = "resume"
    /\ Resumable(c)
    /\ LET v == sub[c].conv
       IN  /\ task' = [task EXCEPT ![v] =
                        [NewTask EXCEPT !.n = task[v].n + 1, !.state = "ready",
                                        !.phase = "restore",
                                        !.budget = Budget(c, task[v].budget),
                                        !.tokenBudget = TokenBudget(c, task[v].tokenBudget)]]
           /\ doc' = [doc EXCEPT ![v] = ContinuedDoc(@)]
           /\ sub' = [sub EXCEPT ![c].pc = "register", ![c].n = task[v].n + 1]
           /\ signal' = [signal EXCEPT ![v] = "clear"]
    /\ UNCHANGED <<saved, phase, credential, job, owner, cleanup, cancelReq, spent>>

RejectResume(c) ==
    /\ sub[c].pc = "resume"
    /\ ~Resumable(c)
    /\ Reject(c)

CheckKey(c) ==
    /\ sub[c].pc = "key"
    /\ HasKey
    /\ Step(c, "create")
    /\ UNCHANGED <<durable, phase, job, credential, signal, cleanup, cancelReq, spent>>

\* createConversation and the commit that creates its task.  An empty
\* conversation left by a crash between the two belongs to no key.
Create(c) ==
    /\ sub[c].pc = "create"
    /\ \E v \in Convs \ UsedConvs :
          /\ \A u \in Convs \ UsedConvs : v <= u
          /\ task' = [task EXCEPT ![v] =
                       [NewTask EXCEPT !.n = 1, !.state = "ready",
                                       !.budget = Budget(c, 0),
                                       !.tokenBudget = TokenBudget(c, DefaultTokens)]]
          /\ doc' = [doc EXCEPT ![v].status = "running"]
          /\ sub' = [sub EXCEPT ![c].pc = "register", ![c].conv = v, ![c].n = 1]
    /\ UNCHANGED <<saved, phase, credential, job, owner, signal, cleanup, cancelReq, spent>>

\* Only now does the worker know the task: watchDocumentJob stores the record.
Register(c) ==
    /\ sub[c].pc = "register"
    /\ job' = [conv |-> sub[c].conv, n |-> sub[c].n]
    /\ Settle(c)
    /\ UNCHANGED <<durable, phase, credential, signal, cleanup, cancelReq, spent>>

\* GET /internal/jobs/:id.  A job that is not the one in memory is looked up
\* among the stored conversations, and what is found becomes the key's record.
Observe(v) ==
    /\ v \in UsedConvs
    /\ ReadOld \/ \A u \in UsedConvs : u <= v
    /\ job # None => job.conv # v
    /\ job' = [conv |-> v, n |-> task[v].n]
    /\ UNCHANGED <<durable, phase, sub, owner, credential, signal, cleanup, cancelReq, spent>>

-----------------------------------------------------------------------------
(* Cancellation: AgentWorker.abortJob and the task's abort handler.        *)

\* Only a job in memory can be aborted.  The record may name an older task
\* than the stored one while a continuation is being registered: aborting a
\* finished task does nothing, and the caller is still told it succeeded.
AbortJob(v) ==
    /\ job # None /\ job.conv = v
    /\ cancelReq[v].state # "waiting"
    /\ spent.aborts < MaxAborts
    /\ spent' = [spent EXCEPT !.aborts = @ + 1]
    /\ IF job.n = task[v].n /\ Live(v)
       THEN /\ signal' = [signal EXCEPT ![v] = IF @ = "clear" THEN "aborted" ELSE @]
            /\ cancelReq' = [cancelReq EXCEPT ![v] = [state |-> "waiting", n |-> job.n]]
       ELSE /\ cancelReq' = [cancelReq EXCEPT ![v] = [state |-> "acked", n |-> job.n]]
            /\ UNCHANGED signal
    /\ UNCHANGED <<durable, phase, api, credential, cleanup>>

\* Mutant: it waits for the status instead of the task.
TaskOverCancelled(v) == doc[v].status = "cancelled"

TaskOver(v) == task[v].n # cancelReq[v].n \/ ~Live(v)

AbortDone(v) ==
    /\ cancelReq[v].state = "waiting"
    /\ TaskOver(v)
    /\ cancelReq' = [cancelReq EXCEPT ![v].state = "acked"]
    /\ UNCHANGED <<durable, phase, api, credential, signal, cleanup, spent>>
=============================================================================
