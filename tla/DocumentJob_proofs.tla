------------------------- MODULE DocumentJob_proofs -------------------------
(***************************************************************************)
(* Proofs about module DocumentJob, for every number of callers, children, *)
(* conversations, turns, retries and every budget.                         *)
(*                                                                         *)
(* The safety properties are not inductive: what a step writes is checked  *)
(* against local variables that an earlier step of the same phase set.     *)
(* Inv adds what relates the phase to its checkpoint: which agents may be  *)
(* active at which point of the phase, what is queued for saving, and that *)
(* a workspace that says "publish" is whole wherever a copy of it is kept. *)
(***************************************************************************)
EXTENDS DocumentJob, SequenceTheorems, TLAPS

Active(v, a) == agent[v][a] \in {"idle", "calling"}

\* A workspace says "publish" only when every section is submitted.
Whole(w) == w.stage = "publish" => Submitted(w) = Children

\* A submission that got past the look-up has a conversation.
SubmissionHasConv ==
    \A c \in Clients : sub[c].pc \in {"sync", "saved", "resume", "register"} =>
        sub[c].conv \in Convs

\* Agents are active only inside the part of the phase that runs them, and a
\* child that is being called may still fail or succeed once.
AgentsInPhase(v) ==
    /\ Active(v, Main) => frame[v].pc = "main"
    /\ \A c \in Children : Active(v, c) => frame[v].pc = "children"
    /\ \A c \in Children : agent[v][c] = "calling" =>
          c \in RunningChildren(frame[v].live) /\ frame[v].live.bad[c] <= Retries

\* Every queued save belongs to a different agent, which waits for it; the
\* phase's last save is alone in the queue.
SavesInPhase(v) ==
    /\ saves[v] # << >> => frame[v].pc \in {"children", "finish"}
    /\ frame[v].pc = "finish" => Len(saves[v]) <= 1
    /\ frame[v].pc = "children" =>
          \A i \in 1 .. Len(saves[v]) :
             /\ saves[v][i].agent \in Children
             /\ agent[v][saves[v][i].agent] = "saving"
             /\ \A j \in 1 .. Len(saves[v]) :
                   saves[v][i].agent = saves[v][j].agent => i = j

\* The phase's local variables against the task's checkpoint.
FrameInPhase(v) ==
    /\ frame[v].pc = "begin" =>
          frame[v].live = frame[v].latest /\ (Live(v) => frame[v].latest = task[v].work)
    /\ frame[v].pc # "off" /\ Live(v) => task[v].state = "running"
    /\ frame[v].pc = "main" => RunningChildren(frame[v].live) = {}
    /\ frame[v].pc = "retry" => frame[v].failures < Retries

\* Every copy of the workspace is whole or unfinished.
WorksWhole(v) ==
    /\ Whole(task[v].work) /\ Whole(frame[v].live) /\ Whole(frame[v].latest)
    /\ saved[v] # None => Whole(saved[v])
    /\ \A i \in 1 .. Len(saves[v]) : Whole(saves[v][i].work)

\* Where the durable document stands.
DocInPhase(v) ==
    /\ task[v].state = "none" <=> task[v].n = 0
    /\ task[v].n = 0 => doc[v] = NewDoc /\ frame[v].pc = "off"
    /\ doc[v].status = "failed" =>
          task[v].state = "terminal" /\ frame[v].pc = "off" /\ saved[v] # None
    /\ doc[v].cancelled =>
          /\ doc[v].status = "cancelled" /\ doc[v].previews = {} /\ saved[v] = None
          /\ ~Live(v)
    /\ doc[v].published =>
          /\ doc[v].status = "succeeded" /\ ~doc[v].cancelled
          /\ doc[v].previews = {} /\ saved[v] = None
          /\ task[v].work.stage = "publish" /\ Submitted(task[v].work) = Children
          /\ ~Live(v)
    /\ task[v].budget > 0 => doc[v].attempts <= task[v].budget

ConvInv(v) ==
    /\ AgentsInPhase(v) /\ SavesInPhase(v) /\ FrameInPhase(v)
    /\ WorksWhole(v) /\ DocInPhase(v)

Inv == TypeOK /\ SubmissionHasConv /\ \A v \in Convs : ConvInv(v)

-----------------------------------------------------------------------------
(* The workspace operations. *)

\* Each operation on workspaces returns a workspace.
LEMMA WorkTypes ==
    /\ InitialWork \in Work
    /\ \A w \in Work :
          /\ Resumed(w) \in Work /\ MainTurn(w) \in Work
          /\ w.stalled < StallLimit => [w EXCEPT !.stalled = @ + 1] \in Work
          /\ \A c \in RunningChildren(w), g \in {0, 1} : ChildTurn(w, c, g) \in Work
          /\ \A c \in Children : \A p \in BOOLEAN :
                w.bad[c] <= Retries => ChildError(w, c, p) \in Work
<1> USE ConstantsOK DEF Work
<1>1. InitialWork \in Work
  BY DEF InitialWork
<1>2. ASSUME NEW w \in Work PROVE Resumed(w) \in Work /\ MainTurn(w) \in Work
  <2>1. [c \in Children |-> 0] \in [Children -> 0 .. Retries + 1]
    OBVIOUS
  <2>2. [w EXCEPT !.bad = [c \in Children |-> 0]] \in Work
    BY <2>1
  <2>3. [w EXCEPT !.planned = TRUE] \in Work /\ [w EXCEPT !.stage = "publish"] \in Work
    OBVIOUS
  <2>4. \A u \in Work : [u EXCEPT !.stalled = 0] \in Work
    OBVIOUS
  <2>5. Resumed(w) \in Work
    BY <2>2, <2>4 DEF Resumed
  <2>6. MainTurn(w) \in Work
    BY <2>3, <2>4 DEF MainTurn
  <2> QED
    BY <2>5, <2>6
<1>3. ASSUME NEW w \in Work, w.stalled < StallLimit
      PROVE  [w EXCEPT !.stalled = @ + 1] \in Work
  BY <1>3
<1>4. ASSUME NEW w \in Work, NEW c \in RunningChildren(w), NEW g \in {0, 1}
      PROVE  ChildTurn(w, c, g) \in Work
  <2>1. w.turns[c] + g \in 0 .. Turns /\ c \in Children
    BY DEF RunningChildren
  <2>2. [w EXCEPT !.turns[c] = @ + g] \in Work
    BY <2>1
  <2>3. \A u \in Work : [u EXCEPT !.bad[c] = 0] \in Work
    BY <2>1
  <2> QED
    BY <2>2, <2>3 DEF ChildTurn
<1>5. ASSUME NEW w \in Work, NEW c \in Children, NEW p \in BOOLEAN, w.bad[c] <= Retries
      PROVE  ChildError(w, c, p) \in Work
  <2>1. (IF p THEN Retries + 1 ELSE w.bad[c] + 1) \in 0 .. Retries + 1
    BY <1>5
  <2> QED
    BY <2>1 DEF ChildError
<1> QED
  BY <1>1, <1>2, <1>3, <1>4, <1>5

\* None of them makes an unfinished workspace look whole.
LEMMA WorkWhole ==
    /\ Whole(InitialWork)
    /\ \A w \in Work : Whole(w) =>
          /\ Whole(Resumed(w))
          /\ RunningChildren(w) = {} => Whole(MainTurn(w))
          /\ Whole([w EXCEPT !.stalled = @ + 1])
          /\ \A c \in RunningChildren(w), g \in {0, 1} : Whole(ChildTurn(w, c, g))
          /\ \A c \in Children : \A p \in BOOLEAN : Whole(ChildError(w, c, p))
<1> USE ConstantsOK DEF Work, Whole, Submitted
<1>1. Whole(InitialWork)
  BY DEF InitialWork
<1>2. ASSUME NEW w \in Work, Whole(w) PROVE Whole(Resumed(w)) /\ Whole([w EXCEPT !.stalled = @ + 1])
  BY <1>2 DEF Resumed
<1>3. ASSUME NEW w \in Work, Whole(w), RunningChildren(w) = {} PROVE Whole(MainTurn(w))
  <2>1. CASE w.planned
    <3>1. \A c \in Children : w.turns[c] = Turns
      BY <1>3, <2>1 DEF RunningChildren
    <3> QED
      BY <2>1, <3>1 DEF MainTurn
  <2>2. CASE ~w.planned
    BY <1>3, <2>2 DEF MainTurn
  <2> QED
    BY <2>1, <2>2
<1>4. ASSUME NEW w \in Work, Whole(w), NEW c \in RunningChildren(w), NEW g \in {0, 1}
      PROVE  Whole(ChildTurn(w, c, g))
  <2>1. w.stage = "editing"
    BY <1>4 DEF RunningChildren
  <2> QED
    BY <2>1 DEF ChildTurn
<1>5. ASSUME NEW w \in Work, Whole(w), NEW c \in Children, NEW p \in BOOLEAN
      PROVE  Whole(ChildError(w, c, p))
  BY <1>5 DEF ChildError
<1> QED
  BY <1>1, <1>2, <1>3, <1>4, <1>5

-----------------------------------------------------------------------------
(* Updates of one field keep the type of a record. *)

\* A document keeps its type under each field the code writes.
LEMMA DocFields ==
    /\ NewDoc \in Doc
    /\ \A d \in Doc :
          /\ \A s \in Statuses : [d EXCEPT !.status = s] \in Doc
          /\ \A b \in BOOLEAN : [d EXCEPT !.cancelled = b] \in Doc
          /\ \A b \in BOOLEAN : [d EXCEPT !.published = b] \in Doc
          /\ \A p \in SUBSET Children : [d EXCEPT !.previews = p] \in Doc
          /\ \A n \in Nat : [d EXCEPT !.attempts = n] \in Doc
          /\ \A n \in Nat : [d EXCEPT !.tokens = n] \in Doc
          /\ \A n \in Nat : [d EXCEPT !.tokenStart = n] \in Doc
<1>1. NewDoc \in Doc
  BY DEF NewDoc, Doc, Statuses
<1> QED
  BY <1>1 DEF Doc

\* A task keeps its type under each field the code writes.
LEMMA TaskFields ==
    /\ NewTask \in Task
    /\ \A t \in Task :
          /\ \A n \in Nat : [t EXCEPT !.n = n] \in Task
          /\ \A s \in {"none", "ready", "running", "sleeping", "terminal"} :
                [t EXCEPT !.state = s] \in Task
          /\ \A p \in {"restore", "run"} : [t EXCEPT !.phase = p] \in Task
          /\ \A w \in Work : [t EXCEPT !.work = w] \in Task
          /\ \A f \in 0 .. Retries : [t EXCEPT !.failures = f] \in Task
          /\ \A n \in Nat : [t EXCEPT !.budget = n] \in Task
          /\ \A n \in Nat : [t EXCEPT !.tokenBudget = n] \in Task
<1>1. NewTask \in Task
  BY ConstantsOK, WorkTypes DEF NewTask, Task
<1> QED
  BY <1>1 DEF Task

\* A phase's local variables keep their types under each assignment.
LEMMA FrameFields ==
    /\ NoFrame \in Frame
    /\ \A f \in Frame :
          /\ \A pc \in {"off", "begin", "children", "main", "finish", "error",
                         "retry", "fail"} : [f EXCEPT !.pc = pc] \in Frame
          /\ \A w \in Work : [f EXCEPT !.live = w] \in Frame
          /\ \A w \in Work : [f EXCEPT !.latest = w] \in Frame
          /\ \A p \in BOOLEAN : [f EXCEPT !.permanent = p] \in Frame
<1>1. NoFrame \in Frame
  BY ConstantsOK, WorkTypes DEF NoFrame, Frame
<1> QED
  BY <1>1 DEF Frame

\* A caller's request keeps its type under each assignment.
LEMMA SubFields ==
    /\ NoSub \in Sub
    /\ \A s \in Sub :
          /\ \A pc \in {"idle", "waiting", "lookup", "sync", "saved", "resume",
                         "key", "create", "register"} : [s EXCEPT !.pc = pc] \in Sub
          /\ \A v \in Convs \cup {None} : [s EXCEPT !.conv = v] \in Sub
          /\ \A n \in Nat : [s EXCEPT !.n = n] \in Sub
          /\ \A b \in Budgets \cup {None} : [s EXCEPT !.budget = b] \in Sub
          /\ \A b \in TokenBudgets \cup {None} : [s EXCEPT !.tokenBudget = b] \in Sub
          /\ \A k \in BOOLEAN : [s EXCEPT !.keyed = k] \in Sub
<1>1. NoSub \in Sub
  BY DEF NoSub, Sub
<1> QED
  BY <1>1 DEF Sub

-----------------------------------------------------------------------------
(* Each action preserves Inv. *)

\* A step of one conversation cannot disturb another one.
LEMMA LocalStep ==
    ASSUME Inv, NEW v \in Convs, TypeOK', SubmissionHasConv', ConvInv(v)',
           \A u \in Convs : u # v =>
              /\ doc'[u] = doc[u] /\ saved'[u] = saved[u] /\ task'[u] = task[u]
              /\ frame'[u] = frame[u] /\ agent'[u] = agent[u] /\ saves'[u] = saves[u]
    PROVE  Inv'
<1> SUFFICES ASSUME NEW u \in Convs, u # v PROVE ConvInv(u)'
  BY DEF Inv
<1> USE DEF Inv, ConvInv
<1>1. AgentsInPhase(u)'
  BY DEF AgentsInPhase, Active
<1>2. SavesInPhase(u)'
  BY DEF SavesInPhase
<1>3. FrameInPhase(u)'
  BY DEF FrameInPhase, Live
<1>4. WorksWhole(u)'
  BY DEF WorksWhole
<1>5. DocInPhase(u)'
  BY DEF DocInPhase, Live
<1> QED
  BY <1>1, <1>2, <1>3, <1>4, <1>5

\* A step that leaves the conversations alone.
LEMMA QuietStep ==
    ASSUME Inv, TypeOK', SubmissionHasConv', UNCHANGED <<durable, phase>>
    PROVE  Inv'
<1> SUFFICES ASSUME NEW u \in Convs PROVE ConvInv(u)'
  BY DEF Inv
<1> USE DEF Inv, ConvInv, durable, phase
<1>1. AgentsInPhase(u)'
  BY DEF AgentsInPhase, Active
<1>2. SavesInPhase(u)'
  BY DEF SavesInPhase
<1>3. FrameInPhase(u)'
  BY DEF FrameInPhase, Live
<1>4. WorksWhole(u)'
  BY DEF WorksWhole
<1>5. DocInPhase(u)'
  BY DEF DocInPhase, Live
<1> QED
  BY <1>1, <1>2, <1>3, <1>4, <1>5

\* A phase that returns when no agent is active leaves nothing behind.
LEMMA PhaseEnds ==
    ASSUME Inv, NEW v \in Convs, frame[v].pc \in {"begin", "retry", "fail"},
           frame'[v] = NoFrame, agent'[v] = agent[v], saves'[v] = saves[v]
    PROVE  /\ AgentsInPhase(v)' /\ SavesInPhase(v)' /\ FrameInPhase(v)'
           /\ Whole(frame'[v].live) /\ Whole(frame'[v].latest)
           /\ \A i \in 1 .. Len(saves'[v]) : Whole(saves'[v][i].work)
<1> USE DEF Inv, ConvInv, NoFrame
<1>1. AgentsInPhase(v)'
  BY DEF AgentsInPhase, Active
<1>2. SavesInPhase(v)'
  BY DEF SavesInPhase
<1>3. FrameInPhase(v)'
  BY DEF FrameInPhase, Live
<1>4. Whole(frame'[v].live) /\ Whole(frame'[v].latest)
  BY WorkWhole
<1>5. \A i \in 1 .. Len(saves'[v]) : Whole(saves'[v][i].work)
  BY DEF WorksWhole
<1> QED
  BY <1>1, <1>2, <1>3, <1>4, <1>5

\* A step outside the phase leaves its agents and its saves as they were.
LEMMA PhaseKept ==
    ASSUME Inv, NEW v \in Convs, frame'[v] = frame[v], agent'[v] = agent[v],
           saves'[v] = saves[v]
    PROVE  /\ AgentsInPhase(v)' /\ SavesInPhase(v)'
           /\ Whole(frame'[v].live) /\ Whole(frame'[v].latest)
           /\ \A i \in 1 .. Len(saves'[v]) : Whole(saves'[v][i].work)
<1> USE DEF Inv, ConvInv
<1>1. AgentsInPhase(v)'
  BY DEF AgentsInPhase, Active
<1>2. SavesInPhase(v)'
  BY DEF SavesInPhase
<1>3. Whole(frame'[v].live) /\ Whole(frame'[v].latest)
  BY DEF WorksWhole
<1>4. \A i \in 1 .. Len(saves'[v]) : Whole(saves'[v][i].work)
  BY DEF WorksWhole
<1> QED
  BY <1>1, <1>2, <1>3, <1>4

\* Publishing a finished workspace (document-task.ts:85) preserves the invariant.
LEMMA PublishStep == ASSUME Inv, NEW v \in Convs, Publish(v) PROVE Inv'
<1> USE DEF Inv, ConvInv, Publish
<1>1. TypeOK'
  BY DocFields, TaskFields, FrameFields DEF TypeOK, Statuses, Forget, api
<1>2. /\ doc'[v].status = "succeeded" /\ doc'[v].published /\ doc'[v].previews = {}
      /\ doc'[v].cancelled = doc[v].cancelled /\ doc'[v].attempts = doc[v].attempts
      /\ task'[v].state = "terminal" /\ task'[v].work = task[v].work
      /\ task'[v].n = task[v].n /\ task'[v].budget = task[v].budget
  BY DEF TypeOK, Doc, Task
<1>3. /\ frame'[v] = NoFrame /\ saved'[v] = None
      /\ agent'[v] = agent[v] /\ saves'[v] = saves[v]
  BY DEF TypeOK, Forget
<1>4. WorksWhole(v)'
  BY <1>2, <1>3, PhaseEnds DEF WorksWhole
<1>5. DocInPhase(v)'
  <2>1. task[v].work.stage = "publish" /\ Submitted(task[v].work) = Children
    BY DEF FrameInPhase, WorksWhole, Whole
  <2>2. ~doc[v].cancelled /\ task[v].n # 0
    BY DEF DocInPhase, Live
  <2> QED
    BY <1>2, <1>3, <2>1, <2>2 DEF DocInPhase, Live
<1> QED
  BY <1>1, <1>3, <1>4, <1>5, PhaseEnds, LocalStep
     DEF TypeOK, Forget, api, SubmissionHasConv

\* Recording a failure with its workspace (document-task.ts:156) preserves it.
LEMMA FailTaskStep == ASSUME Inv, NEW v \in Convs, FailTask(v) PROVE Inv'
<1> USE DEF Inv, ConvInv, FailTask
<1>1. TypeOK'
  <2>1. frame[v].latest \in Work
    BY DEF TypeOK, Frame
  <2> QED
    BY <2>1, DocFields, TaskFields, FrameFields DEF TypeOK, Statuses, Remember, FailedDoc, api
<1>2. /\ doc'[v].status = "failed" /\ doc'[v].previews = doc[v].previews
      /\ doc'[v].published = doc[v].published
      /\ doc'[v].cancelled = doc[v].cancelled /\ doc'[v].attempts = doc[v].attempts
      /\ task'[v].state = "terminal" /\ task'[v].work = task[v].work
      /\ task'[v].n = task[v].n /\ task'[v].budget = task[v].budget
  BY DEF TypeOK, Doc, Task, FailedDoc
<1>3. /\ frame'[v] = NoFrame /\ saved'[v] = frame[v].latest /\ frame[v].latest \in Work
      /\ agent'[v] = agent[v] /\ saves'[v] = saves[v]
  BY DEF TypeOK, Remember, Frame
<1>4. WorksWhole(v)'
  BY <1>2, <1>3, PhaseEnds DEF WorksWhole
<1>5. DocInPhase(v)'
  <2>1. ~doc[v].cancelled /\ ~doc[v].published /\ task[v].n # 0
    BY DEF DocInPhase, Live
  <2> QED
    BY <1>2, <1>3, <2>1, NoneIsNoWork DEF DocInPhase, Live, NoFrame
<1> QED
  BY <1>1, <1>3, <1>4, <1>5, PhaseEnds, LocalStep
     DEF TypeOK, Remember, api, SubmissionHasConv

\* So does going to sleep until a key is given or a child's retry is due.
LEMMA SleepStep ==
    ASSUME Inv, NEW v \in Convs, AwaitCredentials(v) \/ Backoff(v) PROVE Inv'
<1> USE DEF Inv, ConvInv, AwaitCredentials, Backoff
<1>1. TypeOK'
  <2>1. CASE AwaitCredentials(v)
    BY <2>1, DocFields, TaskFields, FrameFields DEF TypeOK, Statuses, api
  <2>2. CASE Backoff(v)
    BY <2>2, DocFields, TaskFields, FrameFields DEF TypeOK, Statuses, api
  <2> QED
    BY <2>1, <2>2
<1>2. /\ doc'[v].status \in {doc[v].status, "running"} /\ doc'[v].previews = doc[v].previews
      /\ doc'[v].published = doc[v].published
      /\ doc'[v].cancelled = doc[v].cancelled /\ doc'[v].attempts = doc[v].attempts
      /\ task'[v].state = "sleeping" /\ task'[v].work = task[v].work
      /\ task'[v].n = task[v].n /\ task'[v].budget = task[v].budget
  BY DEF TypeOK, Doc, Task
<1>3. /\ frame'[v] = NoFrame /\ saved'[v] = saved[v]
      /\ agent'[v] = agent[v] /\ saves'[v] = saves[v]
  BY DEF TypeOK
<1>4. WorksWhole(v)'
  BY <1>2, <1>3, PhaseEnds DEF WorksWhole
<1>5. DocInPhase(v)'
  <2>1. /\ ~doc[v].cancelled /\ ~doc[v].published /\ task[v].n # 0
        /\ doc[v].status # "failed"
    BY DEF DocInPhase, Live
  <2> QED
    BY <1>2, <1>3, <2>1 DEF DocInPhase, Live
<1> QED
  BY <1>1, <1>3, <1>4, <1>5, PhaseEnds, LocalStep DEF TypeOK, api, SubmissionHasConv

\* So does an automatic retry from the last saved workspace.
LEMMA RetryStep ==
    ASSUME Inv, NEW v \in Convs, NEW state \in {"ready", "sleeping"},
           RetryPhase(v, state)
    PROVE  Inv'
<1> USE DEF Inv, ConvInv, RetryPhase
<1>1. TypeOK'
  <2>1. frame[v].failures + 1 \in 0 .. Retries /\ frame[v].latest \in Work
    BY ConstantsOK DEF FrameInPhase, TypeOK, Frame
  <2> QED
    BY <2>1, TaskFields, FrameFields DEF TypeOK, api
<1>2. /\ task'[v].state = state /\ task'[v].work = frame[v].latest
      /\ task'[v].n = task[v].n /\ task'[v].budget = task[v].budget
  BY DEF TypeOK, Task
<1>3. /\ frame'[v] = NoFrame /\ saved'[v] = saved[v] /\ doc'[v] = doc[v]
      /\ agent'[v] = agent[v] /\ saves'[v] = saves[v]
  BY DEF TypeOK
<1>4. WorksWhole(v)'
  BY <1>2, <1>3, PhaseEnds DEF WorksWhole
<1>5. DocInPhase(v)'
  <2>1. /\ ~doc[v].cancelled /\ ~doc[v].published /\ task[v].n # 0
        /\ doc[v].status # "failed"
    BY DEF DocInPhase, Live
  <2> QED
    BY <1>2, <1>3, <2>1 DEF DocInPhase, Live
<1> QED
  BY <1>1, <1>3, <1>4, <1>5, PhaseEnds, LocalStep DEF TypeOK, api, SubmissionHasConv

\* So does turning the saved workspace into the checkpoint of a new task.
LEMMA RestoreStep == ASSUME Inv, NEW v \in Convs, Restore(v) PROVE Inv'
<1> USE DEF Inv, ConvInv, Restore
<1>0. saved[v] \in Work /\ Resumed(saved[v]) \in Work /\ 0 \in 0 .. Retries
  <2>1. saved[v] \in Work
    BY DEF TypeOK
  <2>2. 0 \in 0 .. Retries
    BY ConstantsOK
  <2> QED
    BY <2>1, <2>2, WorkTypes
<1>1. TypeOK'
  BY <1>0, TaskFields DEF TypeOK, phase, api
<1>2. /\ task'[v].state = task[v].state /\ task'[v].work = Resumed(saved[v])
      /\ task'[v].n = task[v].n /\ task'[v].budget = task[v].budget
      /\ frame'[v] = frame[v] /\ saved'[v] = saved[v] /\ doc'[v] = doc[v]
      /\ agent'[v] = agent[v] /\ saves'[v] = saves[v]
  BY DEF TypeOK, Task, phase
<1>3. frame[v].pc = "off" /\ FrameInPhase(v)'
  BY <1>2 DEF FrameInPhase, Live
<1>4. WorksWhole(v)'
  BY <1>0, <1>2, WorkWhole DEF WorksWhole
<1>5. DocInPhase(v)'
  BY <1>2 DEF DocInPhase, Live
<1> QED
  BY <1>1, <1>2, <1>3, <1>4, <1>5, PhaseKept, LocalStep
     DEF TypeOK, phase, api, SubmissionHasConv

\* So does starting a phase from its checkpoint.
LEMMA BeginRunStep == ASSUME Inv, NEW v \in Convs, BeginRun(v) PROVE Inv'
<1> USE DEF Inv, ConvInv, BeginRun
<1>0. task[v].work \in Work /\ task[v].failures \in 0 .. Retries
  BY DEF TypeOK, Task
<1>1. TypeOK'
  <2>1. [pc |-> "begin", failures |-> task[v].failures, permanent |-> FALSE,
         live |-> task[v].work, latest |-> task[v].work] \in Frame
    BY <1>0 DEF Frame
  <2> QED
    BY <2>1, TaskFields DEF TypeOK, api
<1>2. /\ task'[v].state = "running" /\ task'[v].work = task[v].work
      /\ task'[v].n = task[v].n /\ task'[v].budget = task[v].budget
      /\ frame'[v].pc = "begin"
      /\ frame'[v].live = task[v].work /\ frame'[v].latest = task[v].work
      /\ saved'[v] = saved[v] /\ doc'[v] = doc[v]
      /\ agent'[v] = agent[v] /\ saves'[v] = saves[v]
  BY DEF TypeOK, Task
<1>3. AgentsInPhase(v)'
  BY <1>2 DEF AgentsInPhase, Active
<1>4. SavesInPhase(v)'
  BY <1>2 DEF SavesInPhase
<1>5. FrameInPhase(v)'
  BY <1>2 DEF FrameInPhase
<1>6. WorksWhole(v)'
  BY <1>2 DEF WorksWhole
<1>7. DocInPhase(v)'
  BY <1>2 DEF DocInPhase, Live
<1> QED
  BY <1>1, <1>2, <1>3, <1>4, <1>5, <1>6, <1>7, LocalStep DEF TypeOK, api, SubmissionHasConv

\* So does the end of a sleep.
LEMMA WakeStep == ASSUME Inv, NEW v \in Convs, Wake(v) PROVE Inv'
<1> USE DEF Inv, ConvInv, Wake
<1>1. TypeOK'
  BY TaskFields DEF TypeOK, phase, api
<1>2. /\ task'[v].state = "ready" /\ task'[v].work = task[v].work
      /\ task'[v].n = task[v].n /\ task'[v].budget = task[v].budget
      /\ frame'[v] = frame[v] /\ saved'[v] = saved[v] /\ doc'[v] = doc[v]
      /\ agent'[v] = agent[v] /\ saves'[v] = saves[v]
  BY DEF TypeOK, Task, phase
<1>3. frame[v].pc = "off" /\ FrameInPhase(v)'
  BY <1>2 DEF FrameInPhase, Live
<1>4. WorksWhole(v)'
  BY <1>2 DEF WorksWhole
<1>5. DocInPhase(v)'
  BY <1>2 DEF DocInPhase, Live
<1> QED
  BY <1>1, <1>2, <1>3, <1>4, <1>5, PhaseKept, LocalStep
     DEF TypeOK, phase, api, SubmissionHasConv

\* So does the commit of the abort handler (document-task.ts:171).
LEMMA AbortCommitStep == ASSUME Inv, NEW v \in Convs, AbortCommit(v) PROVE Inv'
<1> USE DEF Inv, ConvInv, AbortCommit
<1>1. TypeOK'
  BY DocFields, TaskFields DEF TypeOK, Statuses, Forget, phase, api
<1>2. /\ doc'[v].status = "cancelled" /\ doc'[v].cancelled /\ doc'[v].previews = {}
      /\ doc'[v].published = doc[v].published /\ doc'[v].attempts = doc[v].attempts
      /\ task'[v].state = "terminal" /\ task'[v].work = task[v].work
      /\ task'[v].n = task[v].n /\ task'[v].budget = task[v].budget
  BY DEF TypeOK, Doc, Task
<1>3. /\ frame'[v] = frame[v] /\ saved'[v] = None
      /\ agent'[v] = agent[v] /\ saves'[v] = saves[v]
  BY DEF TypeOK, Forget, phase
<1>4. FrameInPhase(v)'
  BY <1>2, <1>3, SMTT(30) DEF FrameInPhase, Live
<1>5. WorksWhole(v)'
  BY <1>2, <1>3, PhaseKept DEF WorksWhole
<1>6. DocInPhase(v)'
  <2>1. ~doc[v].published /\ task[v].n # 0
    BY DEF DocInPhase, Live
  <2> QED
    BY <1>2, <1>3, <2>1 DEF DocInPhase, Live
<1> QED
  BY <1>1, <1>3, <1>4, <1>5, <1>6, PhaseKept, LocalStep
     DEF TypeOK, Forget, phase, api, SubmissionHasConv

\* So does starting the agents' loops.
LEMMA AdvanceStep == ASSUME Inv, NEW v \in Convs, Advance(v) PROVE Inv'
<1> USE DEF Inv, ConvInv, Advance
<1> DEFINE w == frame[v].latest
           workers == IF RunningChildren(w) # {} THEN RunningChildren(w) ELSE {Main}
           stuck == workers = {Main} /\ w.stalled >= StallLimit
           pc == CASE stuck -> "error" [] workers = {Main} -> "main" [] OTHER -> "children"
           team == [a \in Agents |-> IF a \in workers /\ ~stuck THEN "idle" ELSE "off"]
<1>1. /\ frame' = [frame EXCEPT ![v].pc = pc, ![v].permanent = stuck]
      /\ agent' = [agent EXCEPT ![v] = team]
      /\ doc' = [doc EXCEPT ![v].status = "running"]
      /\ UNCHANGED <<saved, task, saves, api, credential, signal, cleanup, cancelReq, spent>>
  OBVIOUS
<1>2. RunningChildren(w) \subseteq Children /\ Main \notin Children
  BY ConstantsOK DEF RunningChildren
<1>3. /\ pc \in {"error", "main", "children"}
      /\ pc = "main" => workers = {Main} /\ RunningChildren(w) = {}
      /\ pc = "children" => workers \subseteq Children
      /\ pc = "error" => stuck
  BY <1>2
<1>4. team \in [Agents -> {"off", "idle", "calling", "saving"}] /\ stuck \in BOOLEAN
  OBVIOUS
<1>5. \A a \in Agents : /\ team[a] # "calling"
                        /\ team[a] = "idle" => a \in workers /\ ~stuck
  OBVIOUS
<1> HIDE DEF Advance, workers, stuck, pc, team
<1>6. TypeOK'
  BY <1>1, <1>3, <1>4, DocFields, FrameFields DEF TypeOK, Statuses, api
<1>7. /\ frame'[v].pc = pc /\ frame'[v].live = frame[v].live
      /\ frame'[v].latest = frame[v].latest /\ agent'[v] = team
      /\ saves'[v] = saves[v] /\ task'[v] = task[v] /\ saved'[v] = saved[v]
      /\ doc'[v].status = "running" /\ doc'[v].previews = doc[v].previews
      /\ doc'[v].published = doc[v].published
      /\ doc'[v].cancelled = doc[v].cancelled /\ doc'[v].attempts = doc[v].attempts
  BY <1>1 DEF TypeOK, Frame, Doc
<1>8. frame[v].pc = "begin" /\ Live(v) /\ saves[v] = << >> /\ frame[v].live = frame[v].latest
  BY DEF Advance, SavesInPhase, FrameInPhase
<1>9. AgentsInPhase(v)'
  <2>1. ASSUME NEW a \in Agents, team[a] \in {"idle", "calling"}
        PROVE  pc = IF a = Main THEN "main" ELSE "children"
    BY <1>2, <1>3, <1>5, <2>1 DEF workers, pc
  <2> QED
    BY <1>2, <1>5, <1>7, <2>1 DEF AgentsInPhase, Active, Agents
<1>10. SavesInPhase(v)'
  BY <1>3, <1>7, <1>8 DEF SavesInPhase
<1>11. FrameInPhase(v)'
  BY <1>3, <1>7, <1>8 DEF FrameInPhase, Live
<1>12. WorksWhole(v)'
  BY <1>7 DEF WorksWhole
<1>13. DocInPhase(v)'
  BY <1>7, <1>8 DEF DocInPhase, Live
<1> QED
  BY <1>1, <1>6, <1>9, <1>10, <1>11, <1>12, <1>13, LocalStep
     DEF TypeOK, api, SubmissionHasConv

\* So does the return of a cancelled phase.
LEMMA PhaseAbortedStep == ASSUME Inv, NEW v \in Convs, PhaseAborted(v) PROVE Inv'
<1> USE DEF Inv, ConvInv, PhaseAborted
<1>1. TypeOK'
  <2>1. frame' \in [Convs -> Frame]
    BY FrameFields DEF TypeOK
  <2>2. agent' \in [Convs -> [Agents -> {"off", "idle", "calling", "saving"}]]
    BY DEF TypeOK, NoAgents
  <2>3. saves' \in [Convs -> Seq([agent: Agents, work: Work])]
    BY EmptySeq DEF TypeOK
  <2> QED
    BY <2>1, <2>2, <2>3 DEF TypeOK, durable, api
<1>2. /\ frame'[v] = NoFrame /\ agent'[v] = NoAgents /\ saves'[v] = << >>
      /\ saved'[v] = saved[v] /\ doc'[v] = doc[v] /\ task'[v] = task[v]
  BY DEF TypeOK, durable
<1>3. AgentsInPhase(v)'
  BY <1>2 DEF AgentsInPhase, Active, NoAgents, Agents
<1>4. SavesInPhase(v)' /\ FrameInPhase(v)'
  BY <1>2 DEF SavesInPhase, FrameInPhase, NoFrame
<1>5. WorksWhole(v)'
  BY <1>2, WorkWhole DEF WorksWhole, NoFrame
<1>6. DocInPhase(v)'
  BY <1>2 DEF DocInPhase, Live, NoFrame
<1> QED
  BY <1>1, <1>3, <1>4, <1>5, <1>6, LocalStep DEF TypeOK, durable, api, SubmissionHasConv

\* So does the decision at the task boundary between retrying and giving up.
LEMMA BoundaryStep == ASSUME Inv, NEW v \in Convs, Boundary(v) PROVE Inv'
<1> USE DEF Inv, ConvInv, Boundary
<1>1. TypeOK'
  <2>1. frame' \in [Convs -> Frame]
    BY FrameFields DEF TypeOK
  <2> QED
    BY <2>1 DEF TypeOK, durable, api
<1>2. /\ frame'[v].pc = IF Retryable(frame[v]) THEN "retry" ELSE "fail"
      /\ frame'[v].live = frame[v].live /\ frame'[v].latest = frame[v].latest
      /\ frame'[v].failures = frame[v].failures
      /\ saved'[v] = saved[v] /\ doc'[v] = doc[v] /\ task'[v] = task[v]
      /\ agent'[v] = agent[v] /\ saves'[v] = saves[v]
  BY DEF TypeOK, durable, Frame
<1>3. AgentsInPhase(v)'
  BY <1>2 DEF AgentsInPhase, Active
<1>4. SavesInPhase(v)'
  BY <1>2 DEF SavesInPhase
<1>5. FrameInPhase(v)'
  BY <1>2 DEF FrameInPhase, Retryable, Live
<1>6. WorksWhole(v)'
  BY <1>2 DEF WorksWhole
<1>7. DocInPhase(v)'
  BY <1>2 DEF DocInPhase, Live
<1> QED
  BY <1>1, <1>3, <1>4, <1>5, <1>6, <1>7, LocalStep DEF TypeOK, durable, api, SubmissionHasConv

\* So does counting a request before it is sent (document-task.ts:121).
LEMMA ReserveStep ==
    ASSUME Inv, NEW v \in Convs, NEW a \in Agents, Reserve(v, a) PROVE Inv'
<1> USE DEF Inv, ConvInv, Reserve
<1>1. TypeOK'
  <2>1. doc[v] \in Doc /\ doc[v].attempts + 1 \in Nat
    BY DEF TypeOK, Doc
  <2> QED
    BY <2>1, DocFields DEF TypeOK, api
<1>2. /\ frame'[v] = frame[v] /\ saved'[v] = saved[v] /\ task'[v] = task[v]
      /\ saves'[v] = saves[v]
      /\ doc'[v].attempts = doc[v].attempts + 1 /\ doc'[v].status = doc[v].status
      /\ doc'[v].previews = doc[v].previews /\ doc'[v].published = doc[v].published
      /\ doc'[v].cancelled = doc[v].cancelled
      /\ agent'[v] = [agent[v] EXCEPT ![a] = "calling"]
  BY DEF TypeOK, Doc
<1>3. AgentsInPhase(v)'
  <2>1. a \in Children => frame[v].live.bad[a] <= Retries
    <3>1. ASSUME a \in Children PROVE frame[v].live.bad[a] \in Nat
      BY <3>1, ConstantsOK, SMTT(30) DEF TypeOK, Frame, Work
    <3> QED
      BY <3>1, ConstantsOK DEF Wanted, FailedChild
  <2>2. Main \notin Children
    BY ConstantsOK
  <2> QED
    BY <1>2, <2>1, <2>2 DEF AgentsInPhase, Active, Agents, Wanted, TypeOK
<1>4. SavesInPhase(v)'
  <2>1. frame[v].pc = "children" =>
          \A i \in 1 .. Len(saves[v]) : saves[v][i].agent # a
    BY DEF SavesInPhase
  <2> QED
    BY <1>2, <2>1 DEF SavesInPhase, TypeOK
<1>5. FrameInPhase(v)'
  BY <1>2 DEF FrameInPhase, Live
<1>6. WorksWhole(v)'
  BY <1>2 DEF WorksWhole
<1>7. DocInPhase(v)'
  <2>1. task[v].budget > 0 => doc[v].attempts + 1 <= task[v].budget
    BY DEF Affordable, Exhausted, TypeOK, Doc, Task
  <2> QED
    BY <1>2, <2>1 DEF DocInPhase, Live
<1> QED
  BY <1>1, <1>3, <1>4, <1>5, <1>6, <1>7, LocalStep DEF TypeOK, api, SubmissionHasConv

\* Recording the tokens of a call changes nothing else in the document.
LEMMA Charged ==
    ASSUME Inv, NEW v \in Convs,
           doc' = doc \/ \E cost \in TokenCosts : Charge(v, cost)
    PROVE  /\ doc' \in [Convs -> Doc]
           /\ \A u \in Convs : u # v => doc'[u] = doc[u]
           /\ doc'[v].attempts = doc[v].attempts /\ doc'[v].status = doc[v].status
           /\ doc'[v].previews = doc[v].previews /\ doc'[v].published = doc[v].published
           /\ doc'[v].cancelled = doc[v].cancelled
           /\ doc'[v] # doc[v] => \E cost \in TokenCosts : Charge(v, cost)
<1> USE DEF Inv, Charge
<1>1. ASSUME NEW cost \in TokenCosts, Charge(v, cost)
      PROVE  doc' \in [Convs -> Doc]
  <2>1. doc[v] \in Doc /\ doc[v].tokens + cost \in Nat
    BY ConstantsOK, SMTT(30) DEF TypeOK, Doc
  <2> QED
    BY <1>1, <2>1, DocFields DEF TypeOK
<1>2. ASSUME NEW cost \in TokenCosts, Charge(v, cost)
      PROVE  /\ \A u \in Convs : u # v => doc'[u] = doc[u]
             /\ doc'[v].attempts = doc[v].attempts /\ doc'[v].status = doc[v].status
             /\ doc'[v].previews = doc[v].previews /\ doc'[v].published = doc[v].published
             /\ doc'[v].cancelled = doc[v].cancelled
  BY <1>2 DEF TypeOK, Doc
<1> QED
  BY <1>1, <1>2 DEF TypeOK

\* So does the end of an agent's loop, or of a call that a cancellation interrupted.
LEMMA AgentStopsStep ==
    ASSUME Inv, NEW v \in Convs, NEW a \in Agents,
           LoopEnds(v, a) \/ \E cost \in TokenCosts : Interrupted(v, a, cost)
    PROVE  Inv'
<1> USE DEF Inv, ConvInv, LoopEnds, Interrupted
<1>0. /\ agent[v][a] \in {"idle", "calling"}
      /\ agent' = [agent EXCEPT ![v][a] = "off"]
      /\ UNCHANGED <<saved, task, frame, saves, api, credential, signal, cleanup,
                     cancelReq, spent>>
      /\ doc' = doc \/ (Live(v) /\ \E cost \in TokenCosts : Charge(v, cost))
  BY DEF durable, Charge
<1> HIDE DEF LoopEnds, Interrupted
<1>1. TypeOK'
  BY <1>0, Charged DEF TypeOK, api
<1>2. /\ frame'[v] = frame[v] /\ saved'[v] = saved[v] /\ task'[v] = task[v]
      /\ saves'[v] = saves[v]
      /\ doc'[v].attempts = doc[v].attempts /\ doc'[v].status = doc[v].status
      /\ doc'[v].previews = doc[v].previews /\ doc'[v].published = doc[v].published
      /\ doc'[v].cancelled = doc[v].cancelled
      /\ Live(v) \/ doc'[v] = doc[v]
      /\ agent'[v] = [agent[v] EXCEPT ![a] = "off"]
  BY <1>0, Charged DEF TypeOK
<1>3. AgentsInPhase(v)'
  BY <1>2 DEF AgentsInPhase, Active, Agents, TypeOK
<1>4. SavesInPhase(v)'
  <2>1. frame[v].pc = "children" =>
          \A i \in 1 .. Len(saves[v]) : saves[v][i].agent # a
    BY <1>0 DEF SavesInPhase
  <2> QED
    BY <1>2, <2>1 DEF SavesInPhase, TypeOK
<1>5. FrameInPhase(v)'
  BY <1>2 DEF FrameInPhase, Live
<1>6. WorksWhole(v)'
  BY <1>2 DEF WorksWhole
<1>7. DocInPhase(v)'
  BY <1>2 DEF DocInPhase, Live
<1>8. \A u \in Convs : u # v =>
          /\ doc'[u] = doc[u] /\ saved'[u] = saved[u] /\ task'[u] = task[u]
          /\ frame'[u] = frame[u] /\ agent'[u] = agent[u] /\ saves'[u] = saves[u]
  <2> SUFFICES ASSUME NEW u \in Convs, u # v
               PROVE  /\ doc'[u] = doc[u] /\ saved'[u] = saved[u] /\ task'[u] = task[u]
                      /\ frame'[u] = frame[u] /\ agent'[u] = agent[u] /\ saves'[u] = saves[u]
    OBVIOUS
  <2>1. doc'[u] = doc[u]
    <3>1. doc' = doc \/ \E cost \in TokenCosts : Charge(v, cost)
      BY <1>0
    <3> HIDE DEF Inv, ConvInv
    <3> QED
      BY <3>1, Charged
  <2>2. agent'[u] = agent[u]
    BY <1>0 DEF TypeOK
  <2> QED
    BY <1>0, <2>1, <2>2
<1>9. SubmissionHasConv' /\ ConvInv(v)'
  BY <1>0, <1>3, <1>4, <1>5, <1>6, <1>7 DEF api, SubmissionHasConv
<1> HIDE DEF Inv, ConvInv
<1> QED
  BY <1>1, <1>8, <1>9, LocalStep

\* So does putting a turn's result into the live workspace and its snapshot
\* into the queue of saves.
LEMMA EnqueueStep ==
    ASSUME Inv, NEW v \in Convs, NEW a \in Agents, NEW w \in Work,
           Active(v, a), Live(v), Whole(w), Enqueue(v, a, w),
           a \in Children =>
              /\ w.planned = frame[v].live.planned
              /\ \A c \in Children : c # a =>
                    w.turns[c] = frame[v].live.turns[c] /\ w.bad[c] = frame[v].live.bad[c],
           doc' = doc \/ \E cost \in TokenCosts : Charge(v, cost),
           UNCHANGED <<saved, task, api, credential, signal, cleanup, cancelReq, spent>>
    PROVE  Inv'
<1> USE DEF Inv, ConvInv
<1> DEFINE save == [agent |-> a, work |-> w]
           n == Len(saves[v])
<1>1. save \in [agent: Agents, work: Work] /\ saves[v] \in Seq([agent: Agents, work: Work])
  BY DEF TypeOK
<1>2. /\ saves'[v] = Append(saves[v], save)
      /\ agent'[v] = [agent[v] EXCEPT ![a] = "saving"]
      /\ frame'[v].live = w /\ frame'[v].latest = frame[v].latest
      /\ frame'[v].pc = IF a = Main THEN "finish" ELSE frame[v].pc
      /\ \A u \in Convs : u # v =>
            frame'[u] = frame[u] /\ agent'[u] = agent[u] /\ saves'[u] = saves[u]
  BY DEF TypeOK, Frame, Enqueue, Chain
<1>3. n \in Nat /\ Len(saves'[v]) = n + 1 /\ saves'[v][n + 1] = save
      /\ saves'[v] # << >> /\ \A i \in 1 .. n : saves'[v][i] = saves[v][i]
  BY <1>1, <1>2, AppendProperties, LenProperties, SMTT(30)
<1>4. TypeOK'
  <2>1. frame' \in [Convs -> Frame]
    <3>1. frame[v] \in Frame /\ (IF a = Main THEN "finish" ELSE frame[v].pc) \in
             {"off", "begin", "children", "main", "finish", "error", "retry", "fail"}
      BY DEF TypeOK, Frame
    <3> QED
      BY <3>1, FrameFields DEF TypeOK, Enqueue
  <2>2. agent' \in [Convs -> [Agents -> {"off", "idle", "calling", "saving"}]]
    BY DEF TypeOK, Enqueue
  <2>3. saves' \in [Convs -> Seq([agent: Agents, work: Work])]
    BY <1>1, AppendProperties DEF TypeOK, Enqueue, Chain
  <2> QED
    BY <2>1, <2>2, <2>3, Charged DEF TypeOK, api
<1> HIDE DEF save, n
<1>5. /\ frame[v].pc = IF a = Main THEN "main" ELSE "children"
      /\ a = Main \/ a \in Children
      /\ Main \notin Children
  BY ConstantsOK DEF AgentsInPhase, Agents
<1>6. AgentsInPhase(v)'
  <2>1. \A b \in Agents : Active(v, b)' => b # a /\ agent[v][b] = agent'[v][b]
    BY <1>2 DEF Active, TypeOK
  <2>2. Active(v, Main)' => frame'[v].pc = "main"
    BY <1>2, <1>5, <2>1 DEF AgentsInPhase, Active, Agents
  <2>3. ASSUME NEW c \in Children, Active(v, c)'
        PROVE  a # Main /\ c # a /\ agent[v][c] = agent'[v][c] /\ frame'[v].pc = "children"
    BY <1>2, <1>5, <2>1, <2>3, ConstantsOK DEF AgentsInPhase, Active, Agents
  <2>4. ASSUME NEW c \in Children, agent'[v][c] = "calling"
        PROVE  c \in RunningChildren(frame'[v].live) /\ frame'[v].live.bad[c] <= Retries
    <3>1. a \in Children /\ c # a /\ agent[v][c] = "calling"
      BY <1>5, <2>3, <2>4 DEF Active
    <3> QED
      BY <1>2, <3>1 DEF AgentsInPhase, RunningChildren
  <2> QED
    BY <2>2, <2>3, <2>4 DEF AgentsInPhase
<1>7. SavesInPhase(v)'
  <2>1. CASE a = Main
    <3>1. n = 0 /\ frame'[v].pc = "finish"
      BY <1>1, <1>2, <1>5, <2>1, EmptySeq DEF SavesInPhase, n
    <3> QED
      BY <1>3, <3>1 DEF SavesInPhase
  <2>2. CASE a \in Children /\ frame[v].pc = "children" /\ a # Main
    <3>1. frame'[v].pc = "children"
      BY <1>2, <2>2
    <3>2. \A i \in 1 .. n : saves[v][i].agent \in Children /\ agent[v][saves[v][i].agent] = "saving"
      BY <2>2 DEF SavesInPhase, n
    <3>3. \A i \in 1 .. n : saves[v][i].agent # a
      BY <3>2 DEF Active
    <3>4. \A i \in 1 .. n : /\ saves'[v][i].agent \in Children /\ saves'[v][i].agent # a
                            /\ agent'[v][saves'[v][i].agent] = "saving"
      BY <1>2, <1>3, <3>2, <3>3 DEF Agents, TypeOK
    <3>5. saves'[v][n + 1].agent = a /\ agent'[v][a] = "saving"
      BY <1>2, <1>3 DEF TypeOK, save
    <3>6. \A i, j \in 1 .. n : saves[v][i].agent = saves[v][j].agent => i = j
      BY <2>2 DEF SavesInPhase, n
    <3>7. \A i, j \in 1 .. n + 1 : saves'[v][i].agent = saves'[v][j].agent => i = j
      <4>1. \A i \in 1 .. n + 1 : i \in 1 .. n \/ i = n + 1
        BY <1>3
      <4> QED
        BY <1>3, <3>4, <3>5, <3>6, <4>1
    <3>8. \A i \in 1 .. n + 1 :
            saves'[v][i].agent \in Children /\ agent'[v][saves'[v][i].agent] = "saving"
      <4>1. \A i \in 1 .. n + 1 : i \in 1 .. n \/ i = n + 1
        BY <1>3
      <4> QED
        BY <2>2, <3>4, <3>5, <4>1
    <3> QED
      BY <1>3, <3>1, <3>7, <3>8 DEF SavesInPhase
  <2> QED
    BY <1>5, <2>1, <2>2
<1>8. FrameInPhase(v)'
  BY <1>2, <1>5 DEF FrameInPhase, Live
<1>9. WorksWhole(v)'
  <2>1. \A i \in 1 .. n + 1 : Whole(saves'[v][i].work)
    <3>1. \A i \in 1 .. n + 1 : i \in 1 .. n \/ i = n + 1
      BY <1>3
    <3> QED
      BY <1>3, <3>1 DEF WorksWhole, n, save
  <2> QED
    BY <1>2, <1>3, <2>1 DEF WorksWhole
<1>10. DocInPhase(v)'
  BY <1>2, Charged DEF DocInPhase, Live
<1>11. \A u \in Convs : u # v =>
          /\ doc'[u] = doc[u] /\ saved'[u] = saved[u] /\ task'[u] = task[u]
          /\ frame'[u] = frame[u] /\ agent'[u] = agent[u] /\ saves'[u] = saves[u]
  BY <1>2, Charged
<1>12. SubmissionHasConv'
  BY DEF api, SubmissionHasConv
<1>13. ConvInv(v)'
  BY <1>6, <1>7, <1>8, <1>9, <1>10
<1> HIDE DEF Inv, ConvInv
<1> QED
  BY <1>4, <1>11, <1>12, <1>13, LocalStep

\* So does a failed turn of the main agent, which ends the phase's work.
LEMMA MainFailsStep ==
    ASSUME Inv, NEW v \in Convs, NEW permanent \in BOOLEAN,
           Active(v, Main), Live(v), TurnFails(v, Main, permanent),
           doc' = doc \/ \E cost \in TokenCosts : Charge(v, cost),
           UNCHANGED <<saved, task, api, credential, signal, cleanup, cancelReq, spent>>
    PROVE  Inv'
<1> USE DEF Inv, ConvInv
<1>0. /\ frame' = [frame EXCEPT ![v].pc = "error", ![v].permanent = permanent]
      /\ agent' = [agent EXCEPT ![v][Main] = "off"]
      /\ saves' = saves
  BY DEF TurnFails
<1>1. Main \in Agents /\ Main \notin Children /\ frame[v].pc = "main" /\ saves[v] = << >>
  BY ConstantsOK DEF Agents, AgentsInPhase, SavesInPhase
<1>2. /\ saves'[v] = saves[v] /\ frame'[v].pc = "error"
      /\ frame'[v].live = frame[v].live /\ frame'[v].latest = frame[v].latest
      /\ agent'[v] = [agent[v] EXCEPT ![Main] = "off"]
      /\ \A u \in Convs : u # v =>
            frame'[u] = frame[u] /\ agent'[u] = agent[u] /\ saves'[u] = saves[u]
  BY <1>0 DEF TypeOK, Frame
<1>3. TypeOK'
  <2>1. frame' \in [Convs -> Frame]
    BY <1>0, FrameFields DEF TypeOK
  <2>2. agent' \in [Convs -> [Agents -> {"off", "idle", "calling", "saving"}]]
    BY <1>0 DEF TypeOK
  <2> QED
    BY <1>0, <2>1, <2>2, Charged DEF TypeOK, api
<1>4. AgentsInPhase(v)'
  BY <1>1, <1>2 DEF AgentsInPhase, Active, Agents, TypeOK
<1>5. SavesInPhase(v)' /\ FrameInPhase(v)'
  BY <1>1, <1>2 DEF SavesInPhase, FrameInPhase, Live
<1>6. WorksWhole(v)'
  BY <1>2 DEF WorksWhole
<1>7. DocInPhase(v)'
  BY <1>2, Charged DEF DocInPhase, Live
<1>8. \A u \in Convs : u # v =>
          /\ doc'[u] = doc[u] /\ saved'[u] = saved[u] /\ task'[u] = task[u]
          /\ frame'[u] = frame[u] /\ agent'[u] = agent[u] /\ saves'[u] = saves[u]
  BY <1>2, Charged
<1>9. SubmissionHasConv'
  BY DEF api, SubmissionHasConv
<1>10. ConvInv(v)'
  BY <1>4, <1>5, <1>6, <1>7
<1> HIDE DEF Inv, ConvInv
<1> QED
  BY <1>3, <1>8, <1>9, <1>10, LocalStep

\* So does an answered turn.
LEMMA AnswerStep ==
    ASSUME Inv, NEW v \in Convs, NEW a \in Agents, NEW cost \in TokenCosts,
           NEW g \in {0, 1}, Answer(v, a, cost, g)
    PROVE  Inv'
<1> DEFINE live == frame[v].live
<1>1. live \in Work /\ Whole(live) /\ Active(v, a) /\ Live(v)
  BY DEF Inv, TypeOK, Frame, ConvInv, WorksWhole, Answer, Active
<1>2. /\ a = Main => RunningChildren(live) = {}
      /\ a # Main => a \in Children /\ a \in RunningChildren(live)
  BY DEF Inv, ConvInv, AgentsInPhase, FrameInPhase, Agents, Answer, Active
<1>3. CASE a = Main
  <2>1. MainTurn(live) \in Work /\ Whole(MainTurn(live))
    BY <1>1, <1>2, <1>3, WorkTypes, WorkWhole
  <2>2. a \notin Children /\ Enqueue(v, a, MainTurn(live))
    BY <1>3, ConstantsOK DEF Answer
  <2> QED
    BY <1>1, <2>1, <2>2, EnqueueStep DEF Answer
<1>4. CASE a # Main
  <2>1. ChildTurn(live, a, g) \in Work /\ Whole(ChildTurn(live, a, g))
    BY <1>1, <1>2, <1>4, WorkTypes, WorkWhole
  <2>2. /\ ChildTurn(live, a, g).planned = live.planned
        /\ \A c \in Children : c # a =>
              /\ ChildTurn(live, a, g).turns[c] = live.turns[c]
              /\ ChildTurn(live, a, g).bad[c] = live.bad[c]
    BY <1>1, <1>2, <1>4 DEF ChildTurn, Work
  <2>3. Enqueue(v, a, ChildTurn(live, a, g))
    BY <1>4 DEF Answer
  <2> QED
    BY <1>1, <2>1, <2>2, <2>3, EnqueueStep DEF Answer
<1> QED
  BY <1>3, <1>4

\* So does a turn of the main agent that gets nowhere.
LEMMA StallStep ==
    ASSUME Inv, NEW v \in Convs, NEW cost \in TokenCosts, Stall(v, cost) PROVE Inv'
<1> DEFINE w == [frame[v].live EXCEPT !.stalled = @ + 1]
<1>1. frame[v].live \in Work /\ Whole(frame[v].live) /\ Active(v, Main) /\ Live(v)
  BY DEF Inv, TypeOK, Frame, ConvInv, WorksWhole, Stall, Active
<1>2. w \in Work /\ Whole(w) /\ Enqueue(v, Main, w)
  BY <1>1, WorkTypes, WorkWhole DEF Stall
<1>3. Main \in Agents /\ Main \notin Children
  BY ConstantsOK DEF Agents
<1> HIDE DEF w
<1> QED
  BY <1>1, <1>2, <1>3, EnqueueStep DEF Stall

\* A failed turn preserves it, whoever's turn it is.
LEMMA TurnFailsStep ==
    ASSUME Inv, NEW v \in Convs, NEW a \in Agents, NEW permanent \in BOOLEAN,
           Active(v, a), Live(v), TurnFails(v, a, permanent),
           a # Main => frame[v].live.bad[a] <= Retries,
           doc' = doc \/ \E cost \in TokenCosts : Charge(v, cost),
           UNCHANGED <<saved, task, api, credential, signal, cleanup, cancelReq, spent>>
    PROVE  Inv'
<1> DEFINE live == frame[v].live
           w == ChildError(live, a, permanent)
<1>1. CASE a = Main
  BY <1>1, MainFailsStep
<1>2. CASE a # Main
  <2>1. live \in Work /\ Whole(live) /\ a \in Children
    BY <1>2 DEF Inv, TypeOK, Frame, ConvInv, WorksWhole, Agents
  <2>2. w \in Work /\ Whole(w)
    BY <1>2, <2>1, WorkTypes, WorkWhole
  <2>3. /\ w.planned = live.planned
        /\ \A c \in Children : c # a => w.turns[c] = live.turns[c] /\ w.bad[c] = live.bad[c]
    BY <2>1 DEF ChildError, Work
  <2>4. Enqueue(v, a, w)
    BY <1>2 DEF TurnFails
  <2> HIDE DEF w
  <2> QED
    BY <2>2, <2>3, <2>4, EnqueueStep
<1> QED
  BY <1>1, <1>2

\* So does a call that was answered with an error.
LEMMA FailStep ==
    ASSUME Inv, NEW v \in Convs, NEW a \in Agents, NEW cost \in TokenCosts,
           NEW permanent \in BOOLEAN, Fail(v, a, cost, permanent)
    PROVE  Inv'
<1>1. Active(v, a) /\ (a # Main => frame[v].live.bad[a] <= Retries)
  BY DEF Inv, ConvInv, AgentsInPhase, Agents, Fail, Active
<1> QED
  BY <1>1, TurnFailsStep DEF Fail

\* So does a request that is refused: no key, or a budget used up.
LEMMA RefuseStep ==
    ASSUME Inv, NEW v \in Convs, NEW a \in Agents, Refuse(v, a) PROVE Inv'
<1>1. Active(v, a) /\ Live(v)
  BY DEF Refuse, Active
<1>2. ASSUME a # Main PROVE frame[v].live.bad[a] <= Retries
  <2>1. a \in RunningChildren(frame[v].live) /\ a \in Children
    BY <1>2 DEF Refuse, Wanted, RunningChildren
  <2>2. ~(frame[v].live.bad[a] > Retries)
    BY <1>2, <2>1 DEF Refuse, Wanted, FailedChild
  <2>3. frame[v].live.bad[a] \in Int /\ Retries \in Int
    BY <2>1, ConstantsOK DEF Inv, TypeOK, Frame, Work
  <2> QED
    BY <2>2, <2>3
<1>3. UNCHANGED <<doc, saved, task, api, credential, signal, cleanup, cancelReq, spent>>
  BY DEF Refuse, durable
<1> QED
  BY <1>1, <1>2, <1>3, TurnFailsStep DEF Refuse

\* So does the end of all loops.
LEMMA JoinStep == ASSUME Inv, NEW v \in Convs, Join(v) PROVE Inv'
<1> USE DEF Inv, ConvInv
<1> DEFINE save == [agent |-> Main, work |-> frame[v].live]
<1>0. /\ frame[v].pc = "children" /\ agent[v] = NoAgents
      /\ UNCHANGED <<doc, saved, task, agent, api, credential, signal, cleanup,
                     cancelReq, spent>>
      /\ \/ /\ frame' = [frame EXCEPT ![v].pc = "error", ![v].permanent = TRUE]
            /\ saves' = saves
         \/ /\ frame' = [frame EXCEPT ![v].pc = "finish"]
            /\ saves' = [saves EXCEPT ![v] = Append(@, save)]
  BY DEF Join, Chain, durable
<1>1. save \in [agent: Agents, work: Work] /\ saves[v] \in Seq([agent: Agents, work: Work])
  BY DEF TypeOK, Frame, Agents
<1>2. saves[v] = << >>
  <2>1. \A i \in 1 .. Len(saves[v]) : FALSE
    BY <1>0, ConstantsOK DEF SavesInPhase, NoAgents, Agents
  <2> QED
    BY <1>1, <2>1, EmptySeq
<1>3. /\ frame'[v].pc \in {"error", "finish"}
      /\ frame'[v].live = frame[v].live /\ frame'[v].latest = frame[v].latest
      /\ agent'[v] = NoAgents
      /\ \A u \in Convs : u # v => frame'[u] = frame[u] /\ saves'[u] = saves[u]
  BY <1>0 DEF TypeOK, Frame
<1>4. \/ saves'[v] = << >>
      \/ frame'[v].pc = "finish" /\ saves'[v] = << save >>
  <2>1. Append(<< >>, save) = << save >>
    OBVIOUS
  <2> QED
    BY <1>0, <1>2, <2>1 DEF TypeOK, Frame
<1>5. TypeOK'
  <2>1. frame \in [Convs -> Frame] /\ saves \in [Convs -> Seq([agent: Agents, work: Work])]
    BY DEF TypeOK
  <2>2. Append(saves[v], save) \in Seq([agent: Agents, work: Work])
    BY <1>1, AppendProperties
  <2> HIDE DEF save, Inv, ConvInv
  <2>3. [frame EXCEPT ![v].pc = "error", ![v].permanent = TRUE] \in [Convs -> Frame]
    BY <2>1, FrameFields
  <2>4. [frame EXCEPT ![v].pc = "finish"] \in [Convs -> Frame]
    BY <2>1, FrameFields
  <2>5. saves' \in [Convs -> Seq([agent: Agents, work: Work])]
    BY <1>0, <2>1, <2>2
  <2>6. frame' \in [Convs -> Frame]
    BY <1>0, <2>3, <2>4
  <2> QED
    BY <1>0, <2>5, <2>6 DEF TypeOK, api, Inv
<1> HIDE DEF save
<1>6. AgentsInPhase(v)'
  BY <1>3 DEF AgentsInPhase, Active, NoAgents, Agents
<1>7. SavesInPhase(v)'
  <2>1. Len(<< save >>) = 1 /\ << >> # << save >>
    OBVIOUS
  <2>2. CASE saves'[v] = << >> /\ frame'[v].pc # "finish"
    BY <1>3, <2>2 DEF SavesInPhase
  <2>3. CASE saves'[v] = << >> /\ frame'[v].pc = "finish"
    BY <2>3, EmptySeq DEF SavesInPhase
  <2>4. CASE frame'[v].pc = "finish" /\ saves'[v] = << save >>
    BY <2>1, <2>4 DEF SavesInPhase
  <2> QED
    BY <1>4, <2>2, <2>3, <2>4
<1>8. FrameInPhase(v)'
  BY <1>0, <1>3 DEF FrameInPhase, Live
<1>9. WorksWhole(v)'
  <2>1. ASSUME NEW i \in 1 .. Len(saves'[v]) PROVE Whole(saves'[v][i].work)
    <3>1. saves'[v] # << >>
      BY <2>1, EmptySeq
    <3>2. saves'[v] = << save >> /\ Len(<< save >>) = 1 /\ << save >>[1] = save
      BY <1>4, <3>1
    <3> QED
      BY <2>1, <3>2 DEF save, WorksWhole
  <2> QED
    BY <1>0, <1>3, <2>1 DEF WorksWhole
<1>10. DocInPhase(v)'
  BY <1>0, <1>3 DEF DocInPhase, Live
<1>11. SubmissionHasConv'
  BY <1>0 DEF api, SubmissionHasConv
<1>12. ConvInv(v)'
  BY <1>6, <1>7, <1>8, <1>9, <1>10
<1> HIDE DEF Inv, ConvInv
<1> QED
  BY <1>0, <1>3, <1>5, <1>11, <1>12, LocalStep

\* So does the commit of a queued save (document-task.ts:63).
LEMMA SaveCommitStep == ASSUME Inv, NEW v \in Convs, SaveCommit(v) PROVE Inv'
<1> USE DEF Inv, ConvInv
<1> DEFINE S == [agent: Agents, work: Work]
           save == Head(saves[v])
           n == Len(saves[v])
<1>0. /\ saves[v] # << >> /\ Live(v) /\ ~doc[v].cancelled
      /\ doc' = [doc EXCEPT ![v].previews = Submitted(save.work)]
      /\ saves' = [saves EXCEPT ![v] = Tail(@)]
      /\ UNCHANGED <<saved, api, credential, signal, cleanup, cancelReq, spent>>
  BY DEF SaveCommit, Preview
<1>1. /\ frame[v].pc = "finish" =>
           /\ task' = [task EXCEPT ![v].work = save.work, ![v].failures = 0,
                                   ![v].state = "ready"]
           /\ frame' = [frame EXCEPT ![v] = NoFrame]
           /\ agent' = [agent EXCEPT ![v] = NoAgents]
      /\ frame[v].pc # "finish" =>
           /\ task' = [task EXCEPT ![v].work = save.work, ![v].failures = 0]
           /\ frame' = [frame EXCEPT ![v].latest = save.work]
           /\ agent' = [agent EXCEPT ![v][save.agent] = "idle"]
  BY DEF SaveCommit
<1>2. /\ save \in S /\ Tail(saves[v]) \in Seq(S)
      /\ n \in Nat \ {0} /\ Len(Tail(saves[v])) = n - 1
      /\ \A i \in 1 .. n - 1 : Tail(saves[v])[i] = saves[v][i + 1]
      /\ save = saves[v][1]
  <2>1. saves[v] \in Seq(S)
    BY DEF TypeOK
  <2>2. n \in Nat \ {0} /\ save = saves[v][1]
    BY <1>0, <2>1, EmptySeq
  <2> QED
    BY <1>0, <2>1, <2>2, HeadTailProperties
<1>3. save.agent \in Agents /\ save.work \in Work /\ Submitted(save.work) \in SUBSET Children
  BY <1>2 DEF Submitted
<1>4. Whole(save.work)
  BY <1>2 DEF WorksWhole
<1>5. 1 \in 1 .. n /\ \A i \in 1 .. n - 1 : i + 1 \in 1 .. n /\ i + 1 # 1
  BY <1>2
<1>6. saves'[v] = Tail(saves[v]) /\ frame[v].pc \in {"children", "finish"}
  BY <1>0 DEF TypeOK, SavesInPhase
<1> HIDE DEF save, n
<1>7. TypeOK'
  <2>1. doc' \in [Convs -> Doc]
    BY <1>0, <1>3, DocFields DEF TypeOK
  <2>2. task' \in [Convs -> Task]
    <3>1. 0 \in 0 .. Retries /\ task \in [Convs -> Task]
      BY ConstantsOK DEF TypeOK
    <3> HIDE DEF Inv, ConvInv
    <3>2. [task EXCEPT ![v].work = save.work, ![v].failures = 0, ![v].state = "ready"]
             \in [Convs -> Task]
      BY <1>3, <3>1, TaskFields
    <3>3. [task EXCEPT ![v].work = save.work, ![v].failures = 0] \in [Convs -> Task]
      BY <1>3, <3>1, TaskFields
    <3> QED
      BY <1>1, <3>2, <3>3
  <2>3. frame' \in [Convs -> Frame]
    <3>1. frame \in [Convs -> Frame]
      BY DEF TypeOK
    <3> HIDE DEF Inv, ConvInv
    <3>2. [frame EXCEPT ![v] = NoFrame] \in [Convs -> Frame]
      BY <3>1, FrameFields
    <3>3. [frame EXCEPT ![v].latest = save.work] \in [Convs -> Frame]
      BY <1>3, <3>1, FrameFields
    <3> QED
      BY <1>1, <3>2, <3>3
  <2>4. agent' \in [Convs -> [Agents -> {"off", "idle", "calling", "saving"}]]
    <3>1. agent \in [Convs -> [Agents -> {"off", "idle", "calling", "saving"}]]
      BY DEF TypeOK
    <3> HIDE DEF Inv, ConvInv
    <3>2. [agent EXCEPT ![v] = NoAgents]
             \in [Convs -> [Agents -> {"off", "idle", "calling", "saving"}]]
      BY <3>1 DEF NoAgents
    <3>3. [agent EXCEPT ![v][save.agent] = "idle"]
             \in [Convs -> [Agents -> {"off", "idle", "calling", "saving"}]]
      BY <1>3, <3>1
    <3> QED
      BY <1>1, <3>2, <3>3
  <2>5. saves' \in [Convs -> Seq(S)]
    BY <1>0, <1>2 DEF TypeOK
  <2> QED
    BY <1>0, <2>1, <2>2, <2>3, <2>4, <2>5 DEF TypeOK, api
<1>8. /\ doc'[v].attempts = doc[v].attempts /\ doc'[v].status = doc[v].status
      /\ doc'[v].published = doc[v].published /\ doc'[v].cancelled = doc[v].cancelled
      /\ task'[v].work = save.work /\ task'[v].n = task[v].n
      /\ task'[v].budget = task[v].budget /\ saved'[v] = saved[v]
  BY <1>0, <1>1 DEF TypeOK, Doc, Task
<1>9. \A u \in Convs : u # v =>
          /\ doc'[u] = doc[u] /\ saved'[u] = saved[u] /\ task'[u] = task[u]
          /\ frame'[u] = frame[u] /\ agent'[u] = agent[u] /\ saves'[u] = saves[u]
  <2>1. CASE frame[v].pc = "finish"
    BY <1>0, <1>1, <2>1 DEF TypeOK
  <2>2. CASE frame[v].pc # "finish"
    BY <1>0, <1>1, <2>2 DEF TypeOK
  <2> QED
    BY <2>1, <2>2
<1>10. DocInPhase(v)'
  <2>1. /\ ~doc[v].published /\ task[v].n # 0 /\ doc[v].status # "failed"
        /\ task'[v].state \notin {"none", "terminal"}
    BY <1>0, <1>1 DEF DocInPhase, Live, TypeOK, Task
  <2> QED
    BY <1>0, <1>8, <2>1 DEF DocInPhase
<1>11. \A i \in 1 .. Len(saves'[v]) : Whole(saves'[v][i].work)
  BY <1>2, <1>5, <1>6 DEF WorksWhole, n
<1>12. ASSUME frame[v].pc = "finish" PROVE ConvInv(v)'
  <2>1. frame'[v] = NoFrame /\ agent'[v] = NoAgents
    BY <1>1, <1>12 DEF TypeOK
  <2>2. saves'[v] = << >>
    <3>1. n <= 1
      BY <1>12 DEF SavesInPhase, n
    <3>2. Len(Tail(saves[v])) = 0
      <4> HIDE DEF Inv, ConvInv, S
      <4>1. n \in Nat \ {0} /\ Len(Tail(saves[v])) = n - 1
        BY <1>2
      <4>2. n = 1
        BY <3>1, <4>1
      <4> QED
        BY <4>1, <4>2
    <3> QED
      BY <1>2, <1>6, <3>2, EmptySeq
  <2>3. AgentsInPhase(v)'
    BY <2>1 DEF AgentsInPhase, Active, NoAgents, Agents
  <2>4. SavesInPhase(v)' /\ FrameInPhase(v)'
    BY <2>1, <2>2 DEF SavesInPhase, FrameInPhase, NoFrame
  <2>5. WorksWhole(v)'
    BY <1>4, <1>8, <1>11, <2>1, WorkWhole DEF WorksWhole, NoFrame
  <2> QED
    BY <1>10, <2>3, <2>4, <2>5
<1>13. ASSUME frame[v].pc = "children" PROVE ConvInv(v)'
  <2>1. /\ frame'[v].pc = "children" /\ frame'[v].live = frame[v].live
        /\ frame'[v].latest = save.work /\ task'[v].state = task[v].state
        /\ agent'[v] = [agent[v] EXCEPT ![save.agent] = "idle"]
    BY <1>1, <1>13 DEF TypeOK, Frame, Task
  <2>2. save.agent \in Children /\ Main \notin Children
    BY <1>2, <1>5, <1>13, ConstantsOK DEF SavesInPhase, n
  <2>3. AgentsInPhase(v)'
    BY <1>3, <1>13, <2>1, <2>2 DEF AgentsInPhase, Active, Agents, TypeOK
  <2>4. ASSUME NEW i \in 1 .. n - 1
        PROVE  /\ saves'[v][i] = saves[v][i + 1] /\ saves'[v][i].agent \in Children
               /\ agent'[v][saves'[v][i].agent] = "saving"
    <3>1. saves'[v][i] = saves[v][i + 1] /\ i + 1 \in 1 .. n
      BY <1>2, <1>5, <1>6
    <3>2. saves[v][i + 1].agent \in Children /\ agent[v][saves[v][i + 1].agent] = "saving"
      BY <1>13, <3>1 DEF SavesInPhase, n
    <3>3. saves[v][i + 1].agent # save.agent
      BY <1>2, <1>5, <1>13 DEF SavesInPhase, n
    <3> QED
      BY <2>1, <3>1, <3>2, <3>3 DEF TypeOK, Agents
  <2>5. ASSUME NEW i \in 1 .. n - 1, NEW j \in 1 .. n - 1,
               saves'[v][i].agent = saves'[v][j].agent
        PROVE  i = j
    <3>1. saves[v][i + 1].agent = saves[v][j + 1].agent
      BY <2>4, <2>5
    <3>2. i + 1 = j + 1
      BY <1>5, <1>13, <3>1 DEF SavesInPhase, n
    <3> QED
      BY <3>2
  <2>6. SavesInPhase(v)'
    BY <1>2, <1>6, <2>1, <2>4, <2>5 DEF SavesInPhase
  <2>7. FrameInPhase(v)'
    BY <1>13, <2>1 DEF FrameInPhase, Live
  <2>8. WorksWhole(v)'
    BY <1>4, <1>8, <1>11, <2>1 DEF WorksWhole
  <2> QED
    BY <1>10, <2>3, <2>6, <2>7, <2>8
<1>14. SubmissionHasConv'
  BY <1>0 DEF api, SubmissionHasConv
<1>15. ConvInv(v)'
  BY <1>6, <1>12, <1>13
<1> HIDE DEF Inv, ConvInv
<1> QED
  BY <1>7, <1>9, <1>14, <1>15, LocalStep

\* Answering a submission and those who wait on it keeps the callers' types.
LEMMA SettleTypes ==
    ASSUME Inv, NEW c \in Clients, Settle(c)
    PROVE  /\ sub' \in [Clients -> Sub] /\ owner' \in Clients \cup {None}
           /\ SubmissionHasConv'
<1> USE DEF Inv
<1>1. \A d \in Clients : sub'[d] = NoSub \/ sub'[d] = sub[d]
  BY DEF Settle
<1>2. sub' \in [Clients -> Sub] /\ owner' \in Clients \cup {None}
  BY SubFields DEF Settle, TypeOK
<1>3. SubmissionHasConv'
  BY <1>1 DEF SubmissionHasConv, NoSub
<1> QED
  BY <1>2, <1>3

\* Moving a submission on keeps the callers' types and conversations.
LEMMA StepTypes ==
    ASSUME Inv, NEW c \in Clients,
           NEW pc \in {"idle", "waiting", "lookup", "sync", "saved", "resume", "key",
                       "create", "register"},
           pc \in {"saved", "resume"} => sub[c].pc \in {"sync", "saved"},
           pc \notin {"sync", "register"}, Step(c, pc)
    PROVE  /\ sub' \in [Clients -> Sub] /\ owner' \in Clients \cup {None}
           /\ SubmissionHasConv'
<1> USE DEF Inv, Step
<1>1. sub' \in [Clients -> Sub] /\ owner' \in Clients \cup {None}
  BY SubFields DEF TypeOK
<1>2. /\ sub'[c].pc = pc /\ sub'[c].conv = sub[c].conv
      /\ \A d \in Clients : d # c => sub'[d] = sub[d]
  BY DEF TypeOK, Sub
<1>3. SubmissionHasConv'
  BY <1>2 DEF SubmissionHasConv
<1> QED
  BY <1>1, <1>3

\* A new call of submitOrAttachJob preserves the invariant.
LEMMA SubmitStep ==
    ASSUME Inv, NEW c \in Clients, NEW keyed \in BOOLEAN, NEW b \in Budgets \cup {None},
           NEW t \in TokenBudgets \cup {None}, Submit(c, keyed, b, t)
    PROVE  Inv'
<1> USE DEF Inv
<1> DEFINE s == [NoSub EXCEPT !.pc = Entry, !.budget = b, !.tokenBudget = t, !.keyed = keyed]
<1>1. Entry \in {"lookup", "waiting"}
  BY DEF Entry
<1>2. s \in Sub /\ s.pc \in {"lookup", "waiting"}
  <2>1. [NoSub EXCEPT !.pc = Entry] \in Sub
    BY <1>1, SubFields
  <2>2. [NoSub EXCEPT !.pc = Entry, !.budget = b] \in Sub
    BY <2>1, SubFields
  <2>3. s \in Sub
    BY <2>2, SubFields
  <2>4. s.pc = Entry
    BY DEF NoSub
  <2> QED
    BY <1>1, <2>3, <2>4
<1>3. sub' = [sub EXCEPT ![c] = s]
  BY DEF Submit
<1> HIDE DEF s
<1>4. TypeOK'
  <2>1. sub' \in [Clients -> Sub]
    BY <1>2, <1>3 DEF TypeOK
  <2>2. spent' \in [submits: Nat, aborts: Nat, crashes: Nat]
    <3>1. spent \in [submits: Nat, aborts: Nat, crashes: Nat]
          /\ spent' = [spent EXCEPT !.submits = @ + 1]
      BY DEF TypeOK, Submit
    <3> QED
      BY ONLY <3>1
  <2> QED
    BY <2>1, <2>2 DEF Submit, TypeOK, durable, phase
<1>5. SubmissionHasConv'
  BY <1>2, <1>3 DEF SubmissionHasConv, TypeOK
<1> QED
  BY <1>4, <1>5, QuietStep DEF Submit

\* So does finding the key's record, in memory or in storage.
LEMMA LookupStep == ASSUME Inv, NEW c \in Clients, Lookup(c) PROVE Inv'
<1> USE DEF Inv
<1>1. CASE job # None /\ sub' = [sub EXCEPT ![c].pc = "sync", ![c].conv = job.conv,
                                            ![c].n = job.n] /\ UNCHANGED job
  <2>1. job.conv \in Convs /\ job.n \in Nat /\ sub \in [Clients -> Sub]
    BY <1>1 DEF TypeOK
  <2>2. sub' \in [Clients -> Sub]
    <3> HIDE DEF Inv
    <3> QED
      BY <1>1, <2>1, SubFields
  <2>3. sub'[c].conv = job.conv /\ \A d \in Clients : d # c => sub'[d] = sub[d]
    BY <1>1, <2>1 DEF Sub
  <2>4. TypeOK'
    BY <1>1, <2>2 DEF TypeOK, Lookup, durable, phase
  <2>5. SubmissionHasConv'
    BY <2>1, <2>3 DEF SubmissionHasConv
  <2> QED
    BY <2>4, <2>5, QuietStep DEF Lookup
<1>2. CASE \E v \in UsedConvs :
              /\ job' = [conv |-> v, n |-> task[v].n]
              /\ sub' = [sub EXCEPT ![c].pc = "sync", ![c].conv = v, ![c].n = task[v].n]
  <2>1. PICK v \in UsedConvs :
              /\ job' = [conv |-> v, n |-> task[v].n]
              /\ sub' = [sub EXCEPT ![c].pc = "sync", ![c].conv = v, ![c].n = task[v].n]
    BY <1>2
  <2>2. v \in Convs /\ task[v].n \in Nat /\ sub \in [Clients -> Sub]
    BY DEF TypeOK, UsedConvs, Task
  <2>3. sub' \in [Clients -> Sub]
    <3> HIDE DEF Inv
    <3> QED
      BY <2>1, <2>2, SubFields
  <2>4. sub'[c].conv = v /\ \A d \in Clients : d # c => sub'[d] = sub[d]
    BY <2>1, <2>2 DEF Sub
  <2>5. TypeOK'
    BY <2>1, <2>2, <2>3 DEF TypeOK, Lookup, durable, phase
  <2>6. SubmissionHasConv'
    BY <2>2, <2>4 DEF SubmissionHasConv
  <2> QED
    BY <2>5, <2>6, QuietStep DEF Lookup
<1>3. CASE sub' = [sub EXCEPT ![c].pc = "key"] /\ UNCHANGED job
  <2>1. Step(c, "key")
    BY <1>3 DEF Step, Lookup
  <2> QED
    BY <1>3, <2>1, StepTypes, QuietStep DEF Lookup, TypeOK, durable, phase
<1> QED
  BY <1>1, <1>2, <1>3 DEF Lookup

\* So do the other steps of a submission that neither create nor continue a task.
LEMMA SubmissionStep ==
    ASSUME Inv, NEW c \in Clients,
           \/ SyncAttach(c) \/ SyncCancelled(c) \/ SyncFailed(c) \/ ReadSaved(c)
           \/ RejectKeyless(c) \/ RejectResume(c) \/ CheckKey(c) \/ Register(c)
    PROVE  Inv'
<1> USE DEF Inv
<1>1. CASE SyncAttach(c)
  BY <1>1, SettleTypes, QuietStep DEF SyncAttach, TypeOK, durable, phase
<1>2. CASE SyncCancelled(c)
  BY <1>2, StepTypes, QuietStep DEF SyncCancelled, TypeOK, durable, phase
<1>3. CASE SyncFailed(c)
  BY <1>3, StepTypes, QuietStep DEF SyncFailed, TypeOK, durable, phase
<1>4. CASE ReadSaved(c)
  <2>1. CASE Step(c, "resume") /\ UNCHANGED job
    BY <1>4, <2>1, StepTypes, QuietStep DEF ReadSaved, TypeOK, durable, phase
  <2>2. CASE Step(c, "key") /\ job' = None
    BY <1>4, <2>2, StepTypes, QuietStep DEF ReadSaved, TypeOK, durable, phase
  <2> QED
    BY <1>4, <2>1, <2>2 DEF ReadSaved
<1>5. CASE RejectKeyless(c) \/ RejectResume(c)
  <2>1. Reject(c)
    BY <1>5 DEF RejectKeyless, RejectResume
  <2> QED
    BY <2>1, SettleTypes, QuietStep DEF Reject, TypeOK, durable, phase
<1>6. CASE CheckKey(c)
  BY <1>6, StepTypes, QuietStep DEF CheckKey, TypeOK, durable, phase
<1>7. CASE Register(c)
  <2>1. [conv |-> sub[c].conv, n |-> sub[c].n] \in [conv: Convs, n: Nat]
    BY <1>7 DEF Register, SubmissionHasConv, TypeOK, Sub
  <2> QED
    BY <1>7, <2>1, SettleTypes, QuietStep DEF Register, TypeOK, durable, phase
<1> QED
  BY <1>1, <1>2, <1>3, <1>4, <1>5, <1>6, <1>7

\* So do cancellation requests, their answers, reads of a job and the key's deletion:
\* they leave the conversation alone.
LEMMA QuietTaskStep ==
    ASSUME Inv, NEW v \in Convs,
           AbortJob(v) \/ AbortDone(v) \/ AbortDropKey(v) \/ DropKey(v) \/ Observe(v)
    PROVE  Inv'
<1> USE DEF Inv
<1>1. TypeOK'
  <2>1. CASE AbortJob(v)
    <3>1. job \in [conv: Convs, n: Nat]
      BY <2>1 DEF AbortJob, TypeOK
    <3>2. /\ signal' \in [Convs -> {"clear", "aborted", "handling"}]
          /\ cancelReq' \in [Convs -> [state: {"none", "waiting", "acked"}, n: Nat]]
          /\ spent' \in [submits: Nat, aborts: Nat, crashes: Nat]
      <4>1. /\ signal \in [Convs -> {"clear", "aborted", "handling"}]
            /\ cancelReq \in [Convs -> [state: {"none", "waiting", "acked"}, n: Nat]]
            /\ spent \in [submits: Nat, aborts: Nat, crashes: Nat]
        BY DEF TypeOK
      <4>2. job.n \in Nat
        BY <3>1
      <4> HIDE DEF Inv
      <4>3. spent' = [spent EXCEPT !.aborts = @ + 1]
        BY <2>1 DEF AbortJob
      <4>4. spent' \in [submits: Nat, aborts: Nat, crashes: Nat]
        BY <4>1, <4>3
      <4>5. cancelReq' \in [Convs -> [state: {"none", "waiting", "acked"}, n: Nat]]
        BY <2>1, <4>1, <4>2 DEF AbortJob
      <4>6. signal' \in [Convs -> {"clear", "aborted", "handling"}]
        BY <2>1, <4>1 DEF AbortJob
      <4> QED
        BY <4>4, <4>5, <4>6
    <3> QED
      BY <2>1, <3>2 DEF AbortJob, TypeOK, durable, phase, api
  <2>2. CASE AbortDone(v)
    BY <2>2 DEF AbortDone, TypeOK, durable, phase, api
  <2>3. CASE AbortDropKey(v)
    BY <2>3 DEF AbortDropKey, TypeOK, durable, phase, api
  <2>4. CASE DropKey(v)
    BY <2>4 DEF DropKey, TypeOK, durable, phase, api
  <2>5. CASE Observe(v)
    <3>1. task[v].n \in Nat
      BY DEF TypeOK, Task
    <3>2. job' \in [conv: Convs, n: Nat]
      BY <2>5, <3>1 DEF Observe
    <3> QED
      BY <2>5, <3>2 DEF Observe, TypeOK, durable, phase
  <2> QED
    BY <2>1, <2>2, <2>3, <2>4, <2>5
<1>2. UNCHANGED <<durable, phase, sub>>
  BY DEF AbortJob, AbortDone, AbortDropKey, DropKey, Observe, api
<1>3. SubmissionHasConv'
  BY <1>2 DEF SubmissionHasConv
<1> QED
  BY <1>1, <1>2, <1>3, QuietStep

\* So does the commit of a continuation (agent-worker.ts:271).
LEMMA ResumeStep == ASSUME Inv, NEW c \in Clients, Resume(c) PROVE Inv'
<1> USE DEF Inv, ConvInv
<1>0. PICK v \in Convs : v = sub[c].conv
  BY DEF Resume, SubmissionHasConv
<1> DEFINE b == Budget(c, task[v].budget)
           tb == TokenBudget(c, task[v].tokenBudget)
           t == [NewTask EXCEPT !.n = task[v].n + 1, !.state = "ready", !.phase = "restore",
                                !.budget = b, !.tokenBudget = tb]
           d == [doc[v] EXCEPT !.status = "running", !.tokenStart = doc[v].tokens]
<1>1. /\ task' = [task EXCEPT ![v] = t]
      /\ doc' = [doc EXCEPT ![v] = d]
      /\ sub' = [sub EXCEPT ![c].pc = "register", ![c].n = task[v].n + 1]
      /\ signal' = [signal EXCEPT ![v] = "clear"]
      /\ UNCHANGED <<saved, phase, credential, job, owner, cleanup, cancelReq, spent>>
  BY <1>0 DEF Resume, ContinuedDoc
<1>2. /\ ~doc[v].cancelled /\ doc[v].status = "failed"
      /\ ~Exhausted(v, b)
  BY <1>0 DEF Resume, Resumable
<1>3. task[v] \in Task /\ task[v].n + 1 \in Nat /\ doc[v] \in Doc /\ doc[v].tokens \in Nat
  BY <1>2 DEF TypeOK, Task, Doc
<1>4. b \in Nat /\ tb \in Nat
  <2>1. sub[c].budget \in Nat \cup {None} /\ sub[c].tokenBudget \in Nat \cup {None}
    BY ConstantsOK DEF TypeOK, Sub
  <2>2. task[v].budget \in Nat /\ task[v].tokenBudget \in Nat
    BY <1>3 DEF Task
  <2> QED
    BY <2>1, <2>2 DEF Budget, TokenBudget
<1> HIDE DEF b, tb
<1>5. /\ t \in Task /\ t.n = task[v].n + 1 /\ t.state = "ready"
      /\ t.work = InitialWork /\ t.budget = b
  <2>1. NewTask \in Task
    BY TaskFields
  <2>2. [NewTask EXCEPT !.n = task[v].n + 1, !.state = "ready"] \in Task
    BY <1>3, <2>1, TaskFields
  <2>3. [NewTask EXCEPT !.n = task[v].n + 1, !.state = "ready", !.phase = "restore",
                        !.budget = b] \in Task
    BY <1>4, <2>2, TaskFields
  <2>4. t \in Task
    BY <1>4, <2>3, TaskFields
  <2>5. t.n = task[v].n + 1 /\ t.state = "ready" /\ t.work = InitialWork /\ t.budget = b
    BY DEF NewTask
  <2> QED
    BY <2>4, <2>5
<1>6. /\ d \in Doc /\ d.status = "running" /\ d.cancelled = doc[v].cancelled
      /\ d.published = doc[v].published /\ d.attempts = doc[v].attempts
  <2>1. d \in Doc
    BY <1>3, DocFields DEF Statuses
  <2> QED
    BY <1>3, <2>1 DEF Doc
<1> HIDE DEF t, d
<1>7. /\ doc'[v] = d /\ task'[v] = t /\ saved'[v] = saved[v] /\ frame'[v] = frame[v]
      /\ agent'[v] = agent[v] /\ saves'[v] = saves[v]
      /\ \A u \in Convs : u # v => doc'[u] = doc[u] /\ task'[u] = task[u]
  BY <1>1, <1>2 DEF TypeOK, phase
<1>8. /\ sub'[c].conv = sub[c].conv /\ \A e \in Clients : e # c => sub'[e] = sub[e]
  BY <1>1 DEF TypeOK, Sub
<1>9. TypeOK'
  <2>1. sub' \in [Clients -> Sub]
    BY <1>1, <1>3, SubFields DEF TypeOK
  <2>2. doc' \in [Convs -> Doc] /\ task' \in [Convs -> Task]
    BY <1>1, <1>5, <1>6 DEF TypeOK
  <2>3. signal' \in [Convs -> {"clear", "aborted", "handling"}]
    BY <1>1 DEF TypeOK
  <2> QED
    BY <1>1, <2>1, <2>2, <2>3 DEF TypeOK, phase
<1>10. SubmissionHasConv'
  BY <1>0, <1>8 DEF SubmissionHasConv
<1>11. frame[v].pc = "off" /\ ~doc[v].published
  BY <1>2 DEF DocInPhase
<1>12. FrameInPhase(v)'
  BY <1>7, <1>11 DEF FrameInPhase
<1>13. WorksWhole(v)'
  BY <1>2, <1>5, <1>7, WorkWhole DEF WorksWhole
<1>14. DocInPhase(v)'
  <2>1. b > 0 => doc[v].attempts <= b
    BY <1>2, <1>3, <1>4 DEF Exhausted, Doc
  <2>2. task'[v].n # 0
    <3>1. task[v].n \in Nat
      BY <1>3 DEF Task
    <3> QED
      BY <1>5, <1>7, <3>1
  <2> QED
    BY <1>2, <1>5, <1>6, <1>7, <1>11, <2>1, <2>2 DEF DocInPhase
<1>15. AgentsInPhase(v)' /\ SavesInPhase(v)'
  BY <1>2, <1>7, PhaseKept
<1>16. ConvInv(v)'
  BY <1>12, <1>13, <1>14, <1>15
<1>17. UNCHANGED <<saved, frame, agent, saves>>
  BY <1>1 DEF phase
<1> HIDE DEF Inv, ConvInv
<1> QED
  BY <1>2, <1>7, <1>9, <1>10, <1>16, <1>17, LocalStep

\* So does the commit that creates a job (agent-worker.ts:229).
LEMMA CreateStep == ASSUME Inv, NEW c \in Clients, Create(c) PROVE Inv'
<1> USE DEF Inv, ConvInv
<1> DEFINE b == Budget(c, 0)
           tb == TokenBudget(c, DefaultTokens)
           t == [NewTask EXCEPT !.n = 1, !.state = "ready", !.budget = b, !.tokenBudget = tb]
<1>1. PICK v \in Convs \ UsedConvs :
         /\ task' = [task EXCEPT ![v] = t]
         /\ doc' = [doc EXCEPT ![v].status = "running"]
         /\ sub' = [sub EXCEPT ![c].pc = "register", ![c].conv = v, ![c].n = 1]
  BY DEF Create
<1>2. UNCHANGED <<saved, phase, credential, job, owner, signal, cleanup, cancelReq, spent>>
  BY DEF Create
<1>3. v \in Convs /\ task[v] \in Task /\ task[v].n = 0 /\ doc[v] = NewDoc /\ frame[v].pc = "off"
  <2>1. task[v].n = 0 /\ task[v] \in Task
    BY DEF UsedConvs, TypeOK, Task
  <2> QED
    BY <2>1 DEF DocInPhase
<1>4. b \in Nat /\ tb \in Nat
  <2>1. sub[c].budget \in Nat \cup {None} /\ sub[c].tokenBudget \in Nat \cup {None}
        /\ DefaultTokens \in Nat
    BY ConstantsOK DEF TypeOK, Sub
  <2> QED
    BY <2>1 DEF Budget, TokenBudget
<1> HIDE DEF b, tb
<1>5. t \in Task /\ t.n = 1 /\ t.state = "ready" /\ t.work = InitialWork /\ t.budget = b
  <2>1. [NewTask EXCEPT !.n = 1, !.state = "ready"] \in Task
    BY TaskFields
  <2>2. [NewTask EXCEPT !.n = 1, !.state = "ready", !.budget = b] \in Task
    BY <1>4, <2>1, TaskFields
  <2>3. t \in Task
    BY <1>4, <2>2, TaskFields
  <2>4. t.n = 1 /\ t.state = "ready" /\ t.work = InitialWork /\ t.budget = b
    BY DEF NewTask
  <2> QED
    BY <2>3, <2>4
<1> HIDE DEF t
<1>6. /\ task'[v] = t /\ saved'[v] = saved[v] /\ frame'[v] = frame[v]
      /\ doc'[v].status = "running" /\ ~doc'[v].cancelled /\ ~doc'[v].published
      /\ doc'[v].attempts = 0
      /\ agent'[v] = agent[v] /\ saves'[v] = saves[v]
      /\ \A u \in Convs : u # v => doc'[u] = doc[u] /\ task'[u] = task[u]
  BY <1>1, <1>2, <1>3 DEF TypeOK, phase, NewDoc
<1>7. /\ sub'[c].conv = v /\ \A e \in Clients : e # c => sub'[e] = sub[e]
  BY <1>1 DEF TypeOK, Sub
<1>8. TypeOK'
  <2>1. sub' \in [Clients -> Sub]
    BY <1>1, SubFields DEF TypeOK
  <2>2. doc' \in [Convs -> Doc] /\ task' \in [Convs -> Task]
    BY <1>1, <1>5, DocFields DEF TypeOK, Statuses
  <2> QED
    BY <1>2, <2>1, <2>2 DEF TypeOK, phase
<1>9. SubmissionHasConv'
  BY <1>3, <1>7 DEF SubmissionHasConv
<1>10. FrameInPhase(v)'
  BY <1>3, <1>6 DEF FrameInPhase
<1>11. WorksWhole(v)'
  BY <1>3, <1>5, <1>6, WorkWhole DEF WorksWhole
<1>12. DocInPhase(v)'
  BY <1>4, <1>5, <1>6 DEF DocInPhase
<1>13. AgentsInPhase(v)' /\ SavesInPhase(v)'
  BY <1>3, <1>6, PhaseKept
<1>14. ConvInv(v)'
  BY <1>10, <1>11, <1>12, <1>13
<1>15. UNCHANGED <<saved, frame, agent, saves>>
  BY <1>2 DEF phase
<1> HIDE DEF Inv, ConvInv
<1> QED
  BY <1>3, <1>6, <1>8, <1>9, <1>14, <1>15, LocalStep

\* So does a restart of the worker.
LEMMA RestartStep == ASSUME Inv, Restart PROVE Inv'
<1> USE DEF Inv, ConvInv
<1>1. TypeOK'
  <2>1. /\ frame' \in [Convs -> Frame] /\ sub' \in [Clients -> Sub]
        /\ doc' \in [Convs -> Doc] /\ saved' \in [Convs -> Work \cup {None}]
    BY FrameFields, SubFields DEF Restart, TypeOK
  <2>2. task' \in [Convs -> Task]
    BY TaskFields DEF Restart, TypeOK
  <2>3. agent' \in [Convs -> [Agents -> {"off", "idle", "calling", "saving"}]]
    BY DEF Restart, NoAgents
  <2>4. saves' \in [Convs -> Seq([agent: Agents, work: Work])]
    BY EmptySeq DEF Restart
  <2>5. signal' \in [Convs -> {"clear", "aborted", "handling"}]
    BY DEF Restart
  <2>6. cancelReq' \in [Convs -> [state: {"none", "waiting", "acked"}, n: Nat]]
    BY DEF Restart, TypeOK
  <2>7. spent' \in [submits: Nat, aborts: Nat, crashes: Nat]
    <3>1. spent \in [submits: Nat, aborts: Nat, crashes: Nat]
          /\ spent' = [spent EXCEPT !.crashes = @ + 1]
      BY DEF TypeOK, Restart
    <3> QED
      BY ONLY <3>1
  <2>8. credential' \in BOOLEAN /\ job' = None /\ owner' = None /\ cleanup' = {}
    BY DEF Restart
  <2> QED
    BY <2>1, <2>2, <2>3, <2>4, <2>5, <2>6, <2>7, <2>8 DEF TypeOK
<1>2. SubmissionHasConv'
  BY DEF Restart, SubmissionHasConv, NoSub
<1>3. ASSUME NEW v \in Convs PROVE ConvInv(v)'
  <2>1. /\ doc'[v] = doc[v] /\ saved'[v] = saved[v] /\ frame'[v] = NoFrame
        /\ agent'[v] = NoAgents /\ saves'[v] = << >>
        /\ task'[v] = IF task[v].state = "running" THEN [task[v] EXCEPT !.state = "ready"]
                                                   ELSE task[v]
    BY DEF Restart
  <2>2. /\ task'[v].n = task[v].n /\ task'[v].work = task[v].work
        /\ task'[v].budget = task[v].budget
        /\ \/ task'[v].state = task[v].state
           \/ task[v].state = "running" /\ task'[v].state = "ready"
    <3>1. task[v] \in Task
      BY DEF TypeOK
    <3> HIDE DEF Inv, ConvInv
    <3>2. CASE task[v].state = "running"
      <4>1. task'[v] = [task[v] EXCEPT !.state = "ready"]
        BY <2>1, <3>2
      <4> QED
        BY ONLY <3>1, <3>2, <4>1 DEF Task
    <3>3. CASE task[v].state # "running"
      BY <2>1, <3>3
    <3> QED
      BY <3>2, <3>3
  <2>3. AgentsInPhase(v)'
    BY <2>1 DEF AgentsInPhase, Active, NoAgents, Agents
  <2>4. SavesInPhase(v)' /\ FrameInPhase(v)'
    BY <2>1 DEF SavesInPhase, FrameInPhase, NoFrame
  <2>5. WorksWhole(v)'
    BY <2>1, <2>2, WorkWhole DEF WorksWhole, NoFrame
  <2>6. DocInPhase(v)'
    BY <2>1, <2>2 DEF DocInPhase, Live, NoFrame
  <2> QED
    BY <2>3, <2>4, <2>5, <2>6
<1> QED
  BY <1>1, <1>2, <1>3

-----------------------------------------------------------------------------
(* The inductive invariant, and what follows from it. *)

\* The invariant holds initially: nothing has been submitted.
LEMMA InitInv == Init => Inv
<1> SUFFICES ASSUME Init PROVE Inv
  OBVIOUS
<1> USE DEF Init
<1>1. TypeOK
  <2>1. /\ doc \in [Convs -> Doc] /\ task \in [Convs -> Task]
        /\ frame \in [Convs -> Frame] /\ sub \in [Clients -> Sub]
    BY DocFields, TaskFields, FrameFields, SubFields
  <2>2. /\ agent \in [Convs -> [Agents -> {"off", "idle", "calling", "saving"}]]
        /\ saves \in [Convs -> Seq([agent: Agents, work: Work])]
    BY EmptySeq DEF NoAgents
  <2> QED
    BY <2>1, <2>2 DEF TypeOK
<1>2. SubmissionHasConv
  BY DEF SubmissionHasConv, NoSub
<1>3. ASSUME NEW v \in Convs PROVE ConvInv(v)
  <2>1. AgentsInPhase(v)
    BY DEF AgentsInPhase, Active, NoAgents, Agents
  <2>2. SavesInPhase(v) /\ FrameInPhase(v)
    BY DEF SavesInPhase, FrameInPhase, NoFrame
  <2>3. WorksWhole(v)
    BY WorkWhole DEF WorksWhole, NoFrame, NewTask
  <2>4. DocInPhase(v)
    BY DEF DocInPhase, NewTask, NewDoc, NoFrame
  <2> QED
    BY <2>1, <2>2, <2>3, <2>4 DEF ConvInv
<1> QED
  BY <1>1, <1>2, <1>3 DEF Inv

\* Every step of the system preserves the invariant.
LEMMA NextInv == Inv /\ [Next]_vars => Inv'
<1> SUFFICES ASSUME Inv, [Next]_vars PROVE Inv'
  OBVIOUS
<1>1. CASE UNCHANGED vars
  <2>1. TypeOK' /\ SubmissionHasConv' /\ UNCHANGED <<durable, phase>>
    BY <1>1 DEF Inv, TypeOK, SubmissionHasConv, vars, durable, phase
  <2> QED
    BY <2>1, QuietStep
<1>2. ASSUME NEW c \in Clients, Submission(c) PROVE Inv'
  BY <1>2, LookupStep, SubmissionStep, ResumeStep, CreateStep DEF Submission
<1>3. ASSUME NEW v \in Convs, NEW a \in Agents, AgentStep(v, a) PROVE Inv'
  BY <1>3, ReserveStep, RefuseStep, AgentStopsStep, AnswerStep, FailStep DEF AgentStep
<1>4. ASSUME NEW v \in Convs, TaskStep(v) PROVE Inv'
  <2>1. CASE Restore(v) \/ BeginRun(v) \/ Wake(v) \/ Advance(v)
    BY <2>1, RestoreStep, BeginRunStep, WakeStep, AdvanceStep
  <2>2. CASE Publish(v) \/ AwaitCredentials(v) \/ Backoff(v) \/ FailTask(v)
    BY <2>2, PublishStep, SleepStep, FailTaskStep
  <2>3. CASE Join(v) \/ SaveCommit(v) \/ PhaseAborted(v) \/ Boundary(v) \/ DropKey(v)
    BY <2>3, JoinStep, SaveCommitStep, PhaseAbortedStep, BoundaryStep, QuietTaskStep
  <2>4. CASE \E state \in {"ready", "sleeping"} : RetryPhase(v, state)
    BY <2>4, RetryStep
  <2>5. CASE \E cost \in TokenCosts : Stall(v, cost)
    BY <2>5, StallStep
  <2> QED
    BY <1>3, <1>4, <2>1, <2>2, <2>3, <2>4, <2>5 DEF TaskStep
<1>5. ASSUME NEW v \in Convs, Cancellation(v) \/ AbortJob(v) \/ Observe(v) PROVE Inv'
  BY <1>5, AbortCommitStep, QuietTaskStep DEF Cancellation
<1> QED
  BY <1>1, <1>2, <1>4, <1>5, SubmitStep, RestartStep DEF Next

\* The inductive invariant holds throughout every behaviour.
THEOREM Invariance == Spec => []Inv
<1> QED
  BY InitInv, NextInv, PTL DEF Spec

\* Every variable keeps its type: type correctness.
THEOREM TypeCorrect == Spec => []TypeOK
<1>1. Inv => TypeOK
  BY DEF Inv
<1> QED
  BY <1>1, Invariance, PTL

\* However the agents' calls, the retries, the restarts and the continuations
\* interleave, the requests counted never pass the budget (document-task.ts:125).
THEOREM RequestBudgetIsKept == Spec => []RequestBudgetHolds
<1>1. Inv => RequestBudgetHolds
  BY DEF Inv, ConvInv, DocInPhase, RequestBudgetHolds
<1> QED
  BY <1>1, Invariance, PTL

\* What is published was translated whole, and it is final (document-task.ts:85).
THEOREM PublicationWhole == Spec => []PublicationIsWhole
<1>1. Inv => PublicationIsWhole
  BY DEF Inv, ConvInv, DocInPhase, PublicationIsWhole
<1> QED
  BY <1>1, Invariance, PTL

\* Once cancelled, a job keeps nothing and its task is over (document-task.ts:171).
THEOREM CancellationFinal == Spec => []CancellationIsFinal
<1>1. Inv => CancellationIsFinal
  BY DEF Inv, ConvInv, DocInPhase, CancellationIsFinal
<1> QED
  BY <1>1, Invariance, PTL

\* A job that failed kept the workspace to continue from (document-task.ts:156).
THEOREM FailureKeepsTheDraft == Spec => []FailureKeepsDraft
<1>1. Inv => FailureKeepsDraft
  BY DEF Inv, ConvInv, DocInPhase, FailureKeepsDraft
<1> QED
  BY <1>1, Invariance, PTL
=============================================================================
