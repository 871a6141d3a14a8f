------------------------ MODULE JobDurability_proofs ------------------------
(***************************************************************************)
(* What a document job keeps: its preview is always the submitted part of  *)
(* the workspace it would go on from, no turn that was ever saved is lost, *)
(* token budgets are overrun by the calls in flight only, and one document *)
(* never has two jobs.  For every number of callers, children,             *)
(* conversations, turns, retries and budgets.                              *)
(*                                                                         *)
(* Inv of DocumentJob_proofs says where a phase stands.  Durable adds how  *)
(* its copies of the workspace are ordered: the checkpoint, the last save, *)
(* the snapshots queued for saving in their order, and the live workspace  *)
(* each have every turn of the one before.  InFlight adds what the calls   *)
(* that were let through may still cost.                                   *)
(***************************************************************************)
EXTENDS DocumentJob_proofs, FiniteSetTheorems

\* The copies of the workspace that a phase holds only grow towards the live one.
CopiesGrow(v) ==
    /\ AtLeast(frame[v].live, frame[v].latest)
    /\ \A i \in 1 .. Len(saves[v]) :
          /\ AtLeast(frame[v].live, saves[v][i].work)
          /\ AtLeast(saves[v][i].work, frame[v].latest)
          /\ \A j \in 1 .. Len(saves[v]) :
                i < j => AtLeast(saves[v][j].work, saves[v][i].work)

\* The status in the document follows the task, and the checkpoint the phase.
StatusInPhase(v) ==
    /\ doc[v].status = "running" <=> Live(v)
    /\ doc[v].status = "none" <=> task[v].n = 0
    /\ doc[v].status = "succeeded" => doc[v].published
    /\ doc[v].status = "cancelled" => doc[v].cancelled
    /\ frame[v].pc # "off" => task[v].phase = "run"
    /\ frame[v].pc # "off" /\ Live(v) => frame[v].latest = task[v].work
    /\ Live(v) /\ task[v].phase = "restore" => saved[v] # None

PreviewInPhase(v) ==
    doc[v].status \in {"running", "failed"} => doc[v].previews = Submitted(DurableWork(v))

DurableConv(v) == CopiesGrow(v) /\ StatusInPhase(v) /\ PreviewInPhase(v)
Durable == \A v \in Convs : DurableConv(v)

\* The calls in flight were let through while the allowance was not used up.
Calling(v) == {a \in Agents : agent[v][a] = "calling"}
InFlight(v) ==
    \A most \in TokenCosts :
        (\A cost \in TokenCosts : cost <= most) /\ task[v].tokenBudget > 0
        => TokensUsed(v) + most * Cardinality(Calling(v))
              < task[v].tokenBudget + most * Cardinality(Children)

-----------------------------------------------------------------------------
(* Workspaces ordered by the turns they have. *)

\* AtLeast orders workspaces, and what is submitted stays submitted.
LEMMA WorkOrder ==
    /\ \A w \in Work : AtLeast(w, w)
    /\ \A w, u, x \in Work : AtLeast(w, u) /\ AtLeast(u, x) => AtLeast(w, x)
    /\ \A w, u \in Work : AtLeast(w, u) => Submitted(u) \subseteq Submitted(w)
<1> USE ConstantsOK DEF Work, AtLeast
<1>1. \A w \in Work : AtLeast(w, w)
    OBVIOUS
<1>2. \A w, u, x \in Work : AtLeast(w, u) /\ AtLeast(u, x) => AtLeast(w, x)
    OBVIOUS
<1>3. ASSUME NEW w \in Work, NEW u \in Work, AtLeast(w, u)
      PROVE  Submitted(u) \subseteq Submitted(w)
    BY <1>3 DEF Submitted
<1> QED BY <1>1, <1>2, <1>3

\* No operation of a turn takes a turn away; a resumed workspace has the same.
LEMMA TurnsKept ==
    \A w \in Work :
        /\ AtLeast(Resumed(w), w) /\ AtLeast(w, Resumed(w))
        /\ Submitted(Resumed(w)) = Submitted(w)
        /\ AtLeast(MainTurn(w), w)
        /\ AtLeast([w EXCEPT !.stalled = @ + 1], w)
        /\ \A c \in RunningChildren(w), g \in {0, 1} : AtLeast(ChildTurn(w, c, g), w)
        /\ \A c \in Children : \A p \in BOOLEAN : AtLeast(ChildError(w, c, p), w)
<1> SUFFICES ASSUME NEW w \in Work
             PROVE  /\ AtLeast(Resumed(w), w) /\ AtLeast(w, Resumed(w))
                    /\ Submitted(Resumed(w)) = Submitted(w)
                    /\ AtLeast(MainTurn(w), w)
                    /\ AtLeast([w EXCEPT !.stalled = @ + 1], w)
                    /\ \A c \in RunningChildren(w), g \in {0, 1} : AtLeast(ChildTurn(w, c, g), w)
                    /\ \A c \in Children : \A p \in BOOLEAN : AtLeast(ChildError(w, c, p), w)
    OBVIOUS
<1> USE ConstantsOK DEF Work, AtLeast
<1>1. /\ AtLeast(Resumed(w), w) /\ AtLeast(w, Resumed(w))
      /\ Submitted(Resumed(w)) = Submitted(w)
    BY DEF Resumed, Submitted
<1>2. AtLeast(MainTurn(w), w)
    BY DEF MainTurn
<1>3. AtLeast([w EXCEPT !.stalled = @ + 1], w)
    OBVIOUS
<1>4. ASSUME NEW c \in RunningChildren(w), NEW g \in {0, 1} PROVE AtLeast(ChildTurn(w, c, g), w)
    BY DEF ChildTurn, RunningChildren
<1>5. ASSUME NEW c \in Children, NEW p \in BOOLEAN PROVE AtLeast(ChildError(w, c, p), w)
    BY DEF ChildError
<1> QED BY <1>1, <1>2, <1>3, <1>4, <1>5

\* The invariant types every copy of the workspace.
LEMMA Copies ==
    ASSUME Inv, NEW v \in Convs
    PROVE  /\ task[v] \in Task /\ task[v].work \in Work
           /\ frame[v] \in Frame /\ frame[v].live \in Work /\ frame[v].latest \in Work
           /\ doc[v] \in Doc /\ doc[v].tokens \in Nat /\ doc[v].tokenStart \in Nat
           /\ doc[v].attempts \in Nat
           /\ saved[v] # None => saved[v] \in Work
           /\ saves[v] \in Seq([agent: Agents, work: Work])
           /\ \A i \in 1 .. Len(saves[v]) : saves[v][i].work \in Work
           /\ agent[v] \in [Agents -> {"off", "idle", "calling", "saving"}]
<1>1. /\ task[v] \in Task /\ frame[v] \in Frame /\ doc[v] \in Doc
      /\ saved[v] # None => saved[v] \in Work
      /\ saves[v] \in Seq([agent: Agents, work: Work])
      /\ agent[v] \in [Agents -> {"off", "idle", "calling", "saving"}]
    BY DEF Inv, TypeOK
<1>2. \A i \in 1 .. Len(saves[v]) : saves[v][i].work \in Work
    <2>1. \A i \in 1 .. Len(saves[v]) : saves[v][i] \in [agent: Agents, work: Work]
        BY ONLY <1>1, ElementOfSeq
    <2> QED BY <2>1
<1> QED BY <1>1, <1>2 DEF Task, Frame, Doc

-----------------------------------------------------------------------------
(* Steps that touch little. *)

\* A conversation that a step leaves alone stays durable.
LEMMA SameConv ==
    ASSUME NEW v \in Convs, DurableConv(v),
           doc'[v] = doc[v], saved'[v] = saved[v], task'[v] = task[v],
           frame'[v] = frame[v], saves'[v] = saves[v]
    PROVE  DurableConv(v)'
<1> USE DEF DurableConv
<1>1. CopiesGrow(v)'
    BY DEF CopiesGrow
<1>2. StatusInPhase(v)'
    BY DEF StatusInPhase, Live
<1>3. PreviewInPhase(v)'
    BY DEF PreviewInPhase, DurableWork
<1> QED BY <1>1, <1>2, <1>3

\* So does one of which only the counters change.
LEMMA CountersOnly ==
    ASSUME NEW v \in Convs, DurableConv(v),
           doc'[v].status = doc[v].status, doc'[v].previews = doc[v].previews,
           doc'[v].published = doc[v].published, doc'[v].cancelled = doc[v].cancelled,
           saved'[v] = saved[v], task'[v] = task[v],
           frame'[v] = frame[v], saves'[v] = saves[v]
    PROVE  DurableConv(v)'
<1> USE DEF DurableConv
<1>1. CopiesGrow(v)'
    BY DEF CopiesGrow
<1>2. StatusInPhase(v)'
    BY DEF StatusInPhase, Live
<1>3. PreviewInPhase(v)'
    BY DEF PreviewInPhase, DurableWork
<1> QED BY <1>1, <1>2, <1>3

\* A phase that is over holds no copies.
LEMMA NoCopies ==
    ASSUME NEW v \in Convs, Inv', frame'[v] = NoFrame
    PROVE  CopiesGrow(v)'
<1>1. saves'[v] = << >>
    BY DEF Inv, ConvInv, SavesInPhase, NoFrame
<1>2. frame'[v].live = frame'[v].latest /\ frame'[v].latest \in Work
    BY WorkTypes DEF NoFrame
<1>3. AtLeast(frame'[v].live, frame'[v].latest)
    BY <1>2, WorkOrder
<1> QED BY <1>1, <1>3 DEF CopiesGrow, AtLeast

-----------------------------------------------------------------------------
(* The steps of a task, one by one. *)

\* The three commits that end a task: publication, failure and cancellation
\* (document-task.ts:85, :156, :171).
LEMMA TaskEndsDurable ==
    ASSUME Inv, Inv', NEW v \in Convs, DurableConv(v),
           Publish(v) \/ FailTask(v) \/ AbortCommit(v)
    PROVE  DurableConv(v)'
<1>1. doc[v] \in Doc /\ task[v] \in Task /\ frame[v].latest \in Work
    BY Copies
<1>2. /\ doc \in [Convs -> Doc] /\ task \in [Convs -> Task]
      /\ saved \in [Convs -> Work \cup {None}] /\ frame \in [Convs -> Frame]
    BY DEF Inv, TypeOK
<1>3. task[v].n # 0 /\ Live(v)
    BY DEF Publish, FailTask, AbortCommit, Inv, ConvInv, DocInPhase, Live
<1>4. CASE Publish(v)
    <2>1. /\ doc'[v].status = "succeeded" /\ doc'[v].published
          /\ task'[v].state = "terminal" /\ task'[v].n = task[v].n
          /\ frame'[v] = NoFrame
        BY <1>1, <1>2, <1>4 DEF Publish, Doc, Task
    <2>2. StatusInPhase(v)'
        BY <1>3, <2>1 DEF StatusInPhase, Live, NoFrame
    <2>3. PreviewInPhase(v)'
        BY <2>1 DEF PreviewInPhase
    <2> QED BY <2>1, <2>2, <2>3, NoCopies DEF DurableConv
<1>5. CASE FailTask(v)
    <2>1. /\ doc'[v].status = "failed" /\ doc'[v].previews = doc[v].previews
          /\ task'[v].state = "terminal" /\ task'[v].n = task[v].n
          /\ frame'[v] = NoFrame /\ saved'[v] = frame[v].latest
        BY <1>1, <1>2, <1>5 DEF FailTask, FailedDoc, Remember, Doc, Task
    <2>2. StatusInPhase(v)'
        BY <1>3, <2>1 DEF StatusInPhase, Live, NoFrame
    <2>3. frame[v].latest = task[v].work /\ task[v].phase = "run" /\ doc[v].status = "running"
        BY <1>3, <1>5 DEF FailTask, DurableConv, StatusInPhase
    <2>4. DurableWork(v) = task[v].work /\ doc[v].previews = Submitted(DurableWork(v))
        BY <2>3 DEF DurableWork, DurableConv, PreviewInPhase
    <2>5. saved'[v] # None
        BY <1>1, <2>1, NoneIsNoWork
    <2>6. DurableWork(v)' = saved'[v]
        BY <2>1, <2>5 DEF DurableWork
    <2>7. PreviewInPhase(v)'
        BY <2>1, <2>3, <2>4, <2>6 DEF PreviewInPhase, Submitted
    <2> QED BY <2>1, <2>2, <2>7, NoCopies DEF DurableConv
<1>6. CASE AbortCommit(v)
    <2>1. /\ doc'[v].status = "cancelled" /\ doc'[v].cancelled
          /\ task'[v].state = "terminal" /\ task'[v].n = task[v].n
          /\ task'[v].phase = task[v].phase
          /\ frame'[v] = frame[v] /\ saves'[v] = saves[v]
        BY <1>1, <1>2, <1>6 DEF AbortCommit, Doc, Task, phase
    <2>2. StatusInPhase(v)'
        BY <1>3, <2>1 DEF StatusInPhase, Live, DurableConv
    <2>3. PreviewInPhase(v)' /\ CopiesGrow(v)'
        BY <2>1 DEF PreviewInPhase, CopiesGrow, DurableConv
    <2> QED BY <2>2, <2>3 DEF DurableConv
<1> QED BY <1>4, <1>5, <1>6

\* A phase that leaves its checkpoint as it is: sleeping and waking, retrying,
\* starting a phase (document-task.ts:55, :102, :145).
LEMMA CheckpointKept ==
    ASSUME Inv, Inv', NEW v \in Convs, DurableConv(v),
           \/ AwaitCredentials(v) \/ Backoff(v) \/ Wake(v) \/ BeginRun(v)
           \/ \E state \in {"ready", "sleeping"} : RetryPhase(v, state)
    PROVE  DurableConv(v)'
<1>1. doc[v] \in Doc /\ task[v] \in Task /\ frame[v].latest \in Work /\ frame[v] \in Frame
    BY Copies
<1>2. /\ doc \in [Convs -> Doc] /\ task \in [Convs -> Task] /\ frame \in [Convs -> Frame]
    BY DEF Inv, TypeOK
<1>3. Live(v) /\ doc[v].status = "running" /\ task[v].n # 0
    BY DEF AwaitCredentials, Backoff, Wake, BeginRun, RetryPhase, Live, DurableConv,
           StatusInPhase, Inv, ConvInv, DocInPhase
<1>4. /\ doc'[v].status = "running" /\ doc'[v].previews = doc[v].previews
      /\ saved'[v] = saved[v]
      /\ task'[v].state \in {"ready", "sleeping", "running"}
      /\ task'[v].n = task[v].n /\ task'[v].phase = task[v].phase
    BY <1>1, <1>2, <1>3
       DEF AwaitCredentials, Backoff, Wake, BeginRun, RetryPhase, Doc, Task, durable, phase
<1>5. task'[v].work = task[v].work
    <2>1. CASE \E state \in {"ready", "sleeping"} : RetryPhase(v, state)
        <3>1. task'[v].work = frame[v].latest
            BY <1>1, <1>2, <2>1 DEF RetryPhase, Task
        <3> QED BY <1>3, <2>1, <3>1 DEF RetryPhase, DurableConv, StatusInPhase
    <2>2. CASE AwaitCredentials(v) \/ Backoff(v) \/ Wake(v) \/ BeginRun(v)
        BY <1>1, <1>2, <2>2 DEF AwaitCredentials, Backoff, Wake, BeginRun, Task
    <2> QED BY <2>1, <2>2
<1>6. PreviewInPhase(v)'
    BY <1>3, <1>4, <1>5 DEF PreviewInPhase, DurableWork, DurableConv, Submitted
<1>7. StatusInPhase(v)' /\ CopiesGrow(v)'
    <2>1. CASE Wake(v)
        <3>1. frame'[v] = frame[v] /\ saves'[v] = saves[v]
            BY <2>1 DEF Wake, phase
        <3>2. StatusInPhase(v)'
            BY <1>3, <1>4, <1>5, <3>1 DEF StatusInPhase, Live, DurableConv
        <3>3. CopiesGrow(v)'
            BY <3>1 DEF CopiesGrow, DurableConv
        <3> QED BY <3>2, <3>3
    <2>2. CASE BeginRun(v)
        <3>1. /\ frame'[v].live = task[v].work /\ frame'[v].latest = task[v].work
              /\ frame'[v].pc = "begin" /\ saves'[v] = saves[v] /\ task[v].phase = "run"
            BY <1>2, <2>2 DEF BeginRun
        <3>2. saves'[v] = << >>
            BY <3>1 DEF Inv, ConvInv, SavesInPhase
        <3>3. StatusInPhase(v)'
            BY <1>3, <1>4, <1>5, <3>1 DEF StatusInPhase, Live
        <3>4. AtLeast(frame'[v].live, frame'[v].latest)
            BY <1>1, <3>1, WorkOrder DEF Task
        <3>5. CopiesGrow(v)'
            BY <3>2, <3>4 DEF CopiesGrow, AtLeast
        <3> QED BY <3>3, <3>5
    <2>3. CASE AwaitCredentials(v) \/ Backoff(v)
                \/ \E state \in {"ready", "sleeping"} : RetryPhase(v, state)
        <3>1. frame'[v] = NoFrame /\ task[v].phase = "run"
            BY <1>2, <2>3 DEF AwaitCredentials, Backoff, RetryPhase, DurableConv, StatusInPhase
        <3>2. StatusInPhase(v)'
            BY <1>3, <1>4, <3>1 DEF StatusInPhase, Live, NoFrame
        <3> QED BY <3>1, <3>2, NoCopies
    <2> QED BY <2>1, <2>2, <2>3
<1> QED BY <1>6, <1>7 DEF DurableConv

\* A restored checkpoint has every turn of the saved workspace (document-task.ts:47).
LEMMA RestoreDurable ==
    ASSUME Inv, Inv', NEW v \in Convs, DurableConv(v), Restore(v)
    PROVE  DurableConv(v)'
<1>1. task[v] \in Task /\ saved[v] \in Work
    BY Copies DEF Restore
<1>2. task \in [Convs -> Task]
    BY DEF Inv, TypeOK
<1>3. Live(v) /\ doc[v].status = "running"
    BY DEF Restore, Live, DurableConv, StatusInPhase
<1>4. /\ task'[v].n = task[v].n /\ task'[v].state = task[v].state
      /\ task'[v].phase = "run" /\ task'[v].work = Resumed(saved[v])
      /\ doc'[v] = doc[v] /\ saved'[v] = saved[v] /\ frame'[v] = frame[v]
      /\ saves'[v] = saves[v]
    BY <1>1, <1>2 DEF Restore, Task, phase
<1>5. frame[v].pc = "off"
    BY DEF Restore, DurableConv, StatusInPhase
<1>6. StatusInPhase(v)'
    BY <1>3, <1>4, <1>5 DEF StatusInPhase, Live, DurableConv
<1>7. doc[v].previews = Submitted(saved[v])
    BY <1>3 DEF Restore, DurableConv, PreviewInPhase, DurableWork
<1>8. DurableWork(v)' = Resumed(saved[v])
    BY <1>3, <1>4 DEF DurableWork
<1>9. PreviewInPhase(v)'
    BY <1>1, <1>4, <1>7, <1>8, TurnsKept, ZenonT(30) DEF PreviewInPhase, Submitted
<1>10. CopiesGrow(v)'
    BY <1>4 DEF CopiesGrow, DurableConv
<1> QED BY <1>6, <1>9, <1>10 DEF DurableConv

\* Moving a phase on without touching its copies: starting the loops, the
\* task boundary, an error of the main agent.
LEMMA PhaseMoves ==
    ASSUME Inv, NEW v \in Convs, DurableConv(v), frame[v].pc # "off",
           doc'[v].status = doc[v].status, doc'[v].previews = doc[v].previews,
           doc'[v].published = doc[v].published, doc'[v].cancelled = doc[v].cancelled,
           saved'[v] = saved[v], task'[v] = task[v], saves'[v] = saves[v],
           frame'[v].live = frame[v].live, frame'[v].latest = frame[v].latest
    PROVE  DurableConv(v)'
<1> USE DEF DurableConv
<1>1. CopiesGrow(v)'
    BY DEF CopiesGrow
<1>2. StatusInPhase(v)'
    BY DEF StatusInPhase, Live
<1>3. PreviewInPhase(v)'
    BY DEF PreviewInPhase, DurableWork
<1> QED BY <1>1, <1>2, <1>3

\* Starting the loops and leaving them keep the copies as they are.
LEMMA MovesDurable ==
    ASSUME Inv, Inv', NEW v \in Convs, DurableConv(v), Advance(v) \/ Boundary(v)
    PROVE  DurableConv(v)'
<1>1. frame \in [Convs -> Frame] /\ doc \in [Convs -> Doc] /\ frame[v] \in Frame /\ doc[v] \in Doc
    BY Copies DEF Inv, TypeOK
<1>2. frame'[v].live = frame[v].live /\ frame'[v].latest = frame[v].latest
    BY <1>1 DEF Advance, Boundary, Frame
<1>3. CASE Advance(v)
    <2>1. doc[v].status = "running" /\ frame[v].pc # "off"
        BY <1>3 DEF Advance, DurableConv, StatusInPhase
    <2>2. /\ doc'[v].status = "running" /\ doc'[v].previews = doc[v].previews
          /\ doc'[v].published = doc[v].published /\ doc'[v].cancelled = doc[v].cancelled
        BY <1>1, <1>3 DEF Advance, Doc
    <2>3. saved'[v] = saved[v] /\ task'[v] = task[v] /\ saves'[v] = saves[v]
        BY <1>3 DEF Advance
    <2> QED BY <1>2, <2>1, <2>2, <2>3, PhaseMoves
<1>4. CASE Boundary(v)
    BY <1>2, <1>4, PhaseMoves DEF Boundary, durable
<1> QED BY <1>3, <1>4

\* A cancelled phase returns and leaves no copies (document-task.ts:138).
LEMMA AbortedDurable ==
    ASSUME Inv, Inv', NEW v \in Convs, DurableConv(v), PhaseAborted(v)
    PROVE  DurableConv(v)'
<1>1. /\ doc'[v] = doc[v] /\ task'[v] = task[v] /\ saved'[v] = saved[v]
      /\ frame'[v] = NoFrame
    BY DEF PhaseAborted, durable, Inv, TypeOK
<1>2. StatusInPhase(v)' /\ PreviewInPhase(v)'
    BY <1>1 DEF StatusInPhase, PreviewInPhase, Live, DurableWork, NoFrame, DurableConv
<1> QED BY <1>1, <1>2, NoCopies DEF DurableConv

-----------------------------------------------------------------------------
(* The agents' loops and the queue of saves. *)

\* A call's reservation, the end of a loop and an interrupted call only count.
LEMMA CallsDurable ==
    ASSUME Inv, NEW v \in Convs, DurableConv(v), NEW a \in Agents,
           \/ Reserve(v, a) \/ LoopEnds(v, a)
           \/ \E cost \in TokenCosts : Interrupted(v, a, cost)
    PROVE  DurableConv(v)'
<1>1. doc \in [Convs -> Doc] /\ doc[v] \in Doc
    BY Copies DEF Inv, TypeOK
<1>2. CASE Reserve(v, a) \/ LoopEnds(v, a)
    BY <1>1, <1>2, CountersOnly DEF Reserve, LoopEnds, durable, Doc
<1>3. ASSUME NEW cost \in TokenCosts, Interrupted(v, a, cost) PROVE DurableConv(v)'
    BY <1>1, <1>3, CountersOnly DEF Interrupted, Doc
<1> QED BY <1>2, <1>3

\* A snapshot joins the queue behind those it grew from (document-task.ts:63).
LEMMA QueueGrows ==
    ASSUME Inv, NEW v \in Convs, CopiesGrow(v), NEW a, NEW w \in Work,
           [agent |-> a, work |-> w] \in [agent: Agents, work: Work],
           saves'[v] = Append(saves[v], [agent |-> a, work |-> w]),
           frame'[v].live = w, frame'[v].latest = frame[v].latest,
           AtLeast(w, frame[v].live)
    PROVE  CopiesGrow(v)'
<1> DEFINE n == Len(saves[v])
           save == [agent |-> a, work |-> w]
<1>1. /\ frame[v].live \in Work /\ frame[v].latest \in Work
      /\ saves[v] \in Seq([agent: Agents, work: Work])
      /\ \A i \in 1 .. n : saves[v][i].work \in Work
    BY Copies
<1>2. n \in Nat /\ save.work = w
    BY <1>1
<1>3. /\ Len(saves'[v]) = n + 1 /\ saves'[v][n + 1].work = w
      /\ \A i \in 1 .. n : saves'[v][i] = saves[v][i]
    BY <1>1, <1>2, AppendProperties
<1>4. AtLeast(w, frame[v].latest) /\ AtLeast(w, w)
    BY <1>1, WorkOrder DEF CopiesGrow
<1>5. \A i \in 1 .. n : AtLeast(w, saves[v][i].work)
    BY <1>1, WorkOrder DEF CopiesGrow
<1> HIDE DEF n, save
<1>6. ASSUME NEW i \in 1 .. n + 1
      PROVE  AtLeast(w, saves'[v][i].work) /\ AtLeast(saves'[v][i].work, frame[v].latest)
    <2>1. CASE i = n + 1
        BY <1>3, <1>4, <2>1
    <2>2. CASE i # n + 1
        <3>1. i \in 1 .. n
            BY <1>2, <2>2
        <3> QED BY <1>3, <1>5, <3>1 DEF CopiesGrow, n
    <2> QED BY <2>1, <2>2
<1>7. ASSUME NEW i \in 1 .. n + 1, NEW j \in 1 .. n + 1, i < j
      PROVE  AtLeast(saves'[v][j].work, saves'[v][i].work)
    <2>1. i \in 1 .. n
        BY <1>2, <1>7
    <2>2. CASE j = n + 1
        BY <1>3, <1>5, <2>1, <2>2
    <2>3. CASE j # n + 1
        <3>1. j \in 1 .. n
            BY <1>2, <2>3
        <3> QED BY <1>3, <1>7, <2>1, <3>1 DEF CopiesGrow, n
    <2> QED BY <2>2, <2>3
<1> QED
    <2>1. AtLeast(w, frame[v].latest)' <=> AtLeast(w, frame'[v].latest)
        BY DEF AtLeast
    <2> QED BY <1>3, <1>4, <1>6, <1>7 DEF CopiesGrow, AtLeast

\* The document apart from its counters.
SameDoc(v) ==
    /\ doc'[v].status = doc[v].status /\ doc'[v].previews = doc[v].previews
    /\ doc'[v].published = doc[v].published /\ doc'[v].cancelled = doc[v].cancelled

\* A queued save leaves what is durable as it was.
LEMMA QueuedDurable ==
    ASSUME Inv, NEW v \in Convs, DurableConv(v), CopiesGrow(v)', frame[v].pc # "off",
           SameDoc(v), saved'[v] = saved[v], task'[v] = task[v],
           frame'[v].latest = frame[v].latest
    PROVE  DurableConv(v)'
<1> USE DEF DurableConv, SameDoc
<1>1. StatusInPhase(v)'
    BY DEF StatusInPhase, Live
<1>2. PreviewInPhase(v)'
    BY DEF PreviewInPhase, DurableWork
<1> QED BY <1>1, <1>2

\* A turn that went well or badly, of whatever agent, keeps the order of the copies.
LEMMA EnqueueDurable ==
    ASSUME Inv, NEW v \in Convs, DurableConv(v), NEW a \in Agents, NEW w \in Work,
           Enqueue(v, a, w), AtLeast(w, frame[v].live), frame[v].pc # "off",
           SameDoc(v), saved' = saved, task' = task
    PROVE  DurableConv(v)'
<1>1. frame \in [Convs -> Frame] /\ saves \in [Convs -> Seq([agent: Agents, work: Work])]
    BY DEF Inv, TypeOK
<1>2. /\ frame'[v].live = w /\ frame'[v].latest = frame[v].latest
      /\ saves'[v] = Append(saves[v], [agent |-> a, work |-> w])
    BY <1>1 DEF Enqueue, Chain, Frame
<1>3. [agent |-> a, work |-> w] \in [agent: Agents, work: Work]
    OBVIOUS
<1>4. CopiesGrow(v)'
    BY <1>2, <1>3, QueueGrows DEF DurableConv
<1> QED BY <1>2, <1>4, QueuedDurable

\* A call in flight or about to be made belongs to a phase that is running.
LEMMA ActiveInPhase ==
    ASSUME Inv, NEW v \in Convs, NEW a \in Agents, Active(v, a)
    PROVE  /\ frame[v].pc \in {"main", "children"}
           /\ a = Main => RunningChildren(frame[v].live) = {}
           /\ a # Main => a \in Children
           /\ a # Main /\ agent[v][a] = "calling" => a \in RunningChildren(frame[v].live)
BY DEF Inv, ConvInv, AgentsInPhase, FrameInPhase, Agents

\* Charging a call touches no other field of the document.
LEMMA ChargeSame ==
    ASSUME Inv, NEW v \in Convs, NEW cost, Charge(v, cost)
    PROVE  SameDoc(v)
<1>1. doc \in [Convs -> Doc] /\ doc[v] \in Doc
    BY Copies DEF Inv, TypeOK
<1> QED BY <1>1 DEF Charge, SameDoc, Doc

\* A failed turn keeps the order of the copies, whoever's turn it is.
LEMMA TurnFailsDurable ==
    ASSUME Inv, NEW v \in Convs, DurableConv(v), NEW a \in Agents, NEW p \in BOOLEAN,
           Active(v, a), TurnFails(v, a, p), a # Main => frame[v].live.bad[a] <= Retries,
           SameDoc(v), saved' = saved, task' = task
    PROVE  DurableConv(v)'
<1>1. frame[v].pc # "off" /\ (a # Main => a \in Children) /\ frame[v].live \in Work
    BY ActiveInPhase, Copies
<1>2. CASE a = Main
    <2>1. frame \in [Convs -> Frame]
        BY DEF Inv, TypeOK
    <2>2. /\ frame'[v].live = frame[v].live /\ frame'[v].latest = frame[v].latest
          /\ saves'[v] = saves[v]
        BY <1>2, <2>1 DEF TurnFails, Frame
    <2> QED BY <1>1, <2>2, PhaseMoves DEF SameDoc
<1>3. CASE a # Main
    <2>1. AtLeast(ChildError(frame[v].live, a, p), frame[v].live)
        BY <1>1, <1>3, TurnsKept
    <2>2. ChildError(frame[v].live, a, p) \in Work
        BY <1>1, <1>3, WorkTypes
    <2>3. Enqueue(v, a, ChildError(frame[v].live, a, p))
        BY <1>3 DEF TurnFails
    <2> QED BY <1>1, <2>1, <2>2, <2>3, EnqueueDurable
<1> QED BY <1>2, <1>3

\* The outcome of one turn: an answer, a turn that gets nowhere, an error, a refusal.
LEMMA TurnsDurable ==
    ASSUME Inv, NEW v \in Convs, DurableConv(v), NEW a \in Agents,
           \/ \E cost \in TokenCosts :
                 \/ \E g \in {0, 1} : Answer(v, a, cost, g)
                 \/ Stall(v, cost)
                 \/ \E p \in BOOLEAN : Fail(v, a, cost, p)
           \/ Refuse(v, a)
    PROVE  DurableConv(v)'
<1>1. frame[v].live \in Work /\ Main \in Agents
    BY Copies DEF Agents
<1>2. ASSUME NEW cost \in TokenCosts, NEW g \in {0, 1}, Answer(v, a, cost, g) PROVE DurableConv(v)'
    <2>1. frame[v].pc # "off" /\ (a # Main => a \in RunningChildren(frame[v].live))
        BY <1>2, ActiveInPhase DEF Answer, Active
    <2>2. SameDoc(v) /\ saved' = saved /\ task' = task
        BY <1>2, ChargeSame DEF Answer
    <2>3. PICK w \in {MainTurn(frame[v].live), ChildTurn(frame[v].live, a, g)} :
             Enqueue(v, a, w) /\ w \in Work /\ AtLeast(w, frame[v].live)
        BY <1>1, <1>2, <2>1, WorkTypes, TurnsKept DEF Answer
    <2> QED BY <2>1, <2>2, <2>3, EnqueueDurable
<1>3. ASSUME NEW cost \in TokenCosts, Stall(v, cost) PROVE DurableConv(v)'
    <2>1. frame[v].pc # "off"
        BY <1>1, <1>3, ActiveInPhase DEF Stall, Active
    <2>2. SameDoc(v) /\ saved' = saved /\ task' = task
        BY <1>3, ChargeSame DEF Stall
    <2>3. PICK w \in {[frame[v].live EXCEPT !.stalled = @ + 1]} :
             Enqueue(v, Main, w) /\ w \in Work /\ AtLeast(w, frame[v].live)
        BY <1>1, <1>3, WorkTypes, TurnsKept DEF Stall
    <2> QED BY <1>1, <2>1, <2>2, <2>3, EnqueueDurable
<1>4. ASSUME NEW cost \in TokenCosts, NEW p \in BOOLEAN, Fail(v, a, cost, p)
      PROVE  DurableConv(v)'
    <2>1. Active(v, a) /\ (a # Main => frame[v].live.bad[a] <= Retries)
        BY <1>4 DEF Inv, ConvInv, AgentsInPhase, Agents, Fail, Active
    <2>2. SameDoc(v) /\ saved' = saved /\ task' = task
        BY <1>4, ChargeSame DEF Fail
    <2> QED BY <1>4, <2>1, <2>2, TurnFailsDurable DEF Fail
<1>5. CASE Refuse(v, a)
    <2>1. Active(v, a) /\ (a # Main => a \in Children)
        BY <1>5, ActiveInPhase DEF Refuse, Active
    <2>2. ASSUME a # Main PROVE frame[v].live.bad[a] <= Retries
        <3>1. ~(frame[v].live.bad[a] > Retries)
            BY <1>5, <2>2 DEF Refuse, Wanted, FailedChild
        <3>2. frame[v].live.bad[a] \in Int /\ Retries \in Int
            BY <1>1, <2>1, <2>2, ConstantsOK DEF Work
        <3> QED BY <3>1, <3>2
    <2>3. SameDoc(v) /\ saved' = saved /\ task' = task /\ TurnFails(v, a, TRUE)
        BY <1>5 DEF Refuse, SameDoc, durable
    <2>4. TRUE \in BOOLEAN
        BY Zenon
    <2> QED BY <2>1, <2>2, <2>3, <2>4, TurnFailsDurable
<1> QED BY <1>2, <1>3, <1>4, <1>5

\* All loops have ended: the phase's last save is the live workspace.
LEMMA JoinDurable ==
    ASSUME Inv, NEW v \in Convs, DurableConv(v), Join(v)
    PROVE  DurableConv(v)'
<1>1. frame \in [Convs -> Frame] /\ saves \in [Convs -> Seq([agent: Agents, work: Work])]
    BY DEF Inv, TypeOK
<1>2. frame[v].live \in Work /\ Main \in Agents /\ frame[v].pc # "off"
    BY Copies DEF Agents, Join
<1>3. /\ frame'[v].live = frame[v].live /\ frame'[v].latest = frame[v].latest
      /\ doc' = doc /\ saved' = saved /\ task' = task
    BY <1>1 DEF Join, Frame, durable
<1>4. CASE FailedChild(frame[v].live)
    <2>1. saves'[v] = saves[v]
        BY <1>4 DEF Join
    <2> QED BY <1>2, <1>3, <2>1, PhaseMoves
<1>5. CASE ~FailedChild(frame[v].live)
    <2>1. saves'[v] = Append(saves[v], [agent |-> Main, work |-> frame[v].live])
        BY <1>1, <1>5 DEF Join, Chain
    <2>2. AtLeast(frame[v].live, frame[v].live)
        BY <1>2, WorkOrder
    <2>3. CopiesGrow(v)'
        BY <1>2, <1>3, <2>1, <2>2, QueueGrows DEF DurableConv
    <2> QED BY <1>2, <1>3, <2>3, QueuedDurable DEF SameDoc
<1> QED BY <1>4, <1>5

\* What the next save in the queue is, and that it takes no turn away.
LEMMA NextSave ==
    ASSUME Inv, NEW v \in Convs, saves[v] # << >>
    PROVE  /\ Len(saves[v]) \in Nat \ {0} /\ Head(saves[v]) = saves[v][1]
           /\ Head(saves[v]).work \in Work /\ Head(saves[v]).agent \in Agents
           /\ Len(Tail(saves[v])) = Len(saves[v]) - 1
           /\ \A i \in 1 .. Len(saves[v]) - 1 : Tail(saves[v])[i] = saves[v][i + 1]
<1>1. saves[v] \in Seq([agent: Agents, work: Work])
    BY Copies
<1>2. Len(saves[v]) \in Nat \ {0} /\ Head(saves[v]) = saves[v][1]
    BY <1>1, EmptySeq
<1>3. Head(saves[v]) \in [agent: Agents, work: Work]
    <2>1. 1 \in 1 .. Len(saves[v])
        BY <1>2
    <2>2. saves[v][1] \in [agent: Agents, work: Work]
        BY ONLY <1>1, <2>1, ElementOfSeq
    <2> QED BY <1>2, <2>2
<1>4. /\ Len(Tail(saves[v])) = Len(saves[v]) - 1
      /\ \A i \in 1 .. Len(saves[v]) - 1 : Tail(saves[v])[i] = saves[v][i + 1]
    BY <1>1, HeadTailProperties
<1> QED BY <1>2, <1>3, <1>4

\* The commit of a save: the checkpoint and the preview move on together, and
\* only forward (document-task.ts:63).
LEMMA SaveDurable ==
    ASSUME Inv, Inv', NEW v \in Convs, DurableConv(v), SaveCommit(v)
    PROVE  /\ DurableConv(v)'
           /\ task[v].phase = "run" /\ doc[v].status = "running" /\ Live(v)
           /\ task'[v].work = Head(saves[v]).work /\ task'[v].phase = "run"
           /\ AtLeast(task'[v].work, task[v].work)
<1> DEFINE n == Len(saves[v])
           save == Head(saves[v])
<1>1. /\ doc \in [Convs -> Doc] /\ task \in [Convs -> Task] /\ frame \in [Convs -> Frame]
      /\ saves \in [Convs -> Seq([agent: Agents, work: Work])]
      /\ doc[v] \in Doc /\ task[v] \in Task /\ frame[v] \in Frame
    BY Copies DEF Inv, TypeOK
<1>2. saves[v] # << >> /\ Live(v) /\ frame[v].pc \in {"children", "finish"}
    BY DEF SaveCommit, Inv, ConvInv, SavesInPhase
<1>3. /\ doc[v].status = "running" /\ task[v].phase = "run"
      /\ frame[v].latest = task[v].work /\ task[v].n # 0
    BY <1>2 DEF DurableConv, StatusInPhase, Inv, ConvInv, DocInPhase, Live
<1>4. /\ n \in Nat \ {0} /\ save = saves[v][1] /\ save.work \in Work
      /\ Len(Tail(saves[v])) = n - 1
      /\ \A i \in 1 .. n - 1 : Tail(saves[v])[i] = saves[v][i + 1]
    BY <1>2, NextSave
<1>5. AtLeast(save.work, frame[v].latest) /\ AtLeast(frame[v].live, save.work)
    <2>1. 1 \in 1 .. n
        BY <1>4
    <2> QED BY <1>4, <2>1 DEF DurableConv, CopiesGrow
<1>6. /\ doc'[v].status = "running" /\ doc'[v].previews = Submitted(save.work)
      /\ saved'[v] = saved[v] /\ saves'[v] = Tail(saves[v])
      /\ doc'[v].published = doc[v].published /\ doc'[v].cancelled = doc[v].cancelled
    BY <1>1, <1>3 DEF SaveCommit, Preview, Doc
<1>7. /\ task'[v].work = save.work /\ task'[v].phase = "run" /\ task'[v].n = task[v].n
      /\ task'[v].state \in {task[v].state, "ready"}
      /\ \/ frame'[v] = NoFrame
         \/ /\ frame'[v].pc = frame[v].pc /\ frame'[v].live = frame[v].live
            /\ frame'[v].latest = save.work
    <2>1. CASE frame[v].pc = "finish"
        BY <1>1, <1>3, <2>1 DEF SaveCommit, Task
    <2>2. CASE frame[v].pc # "finish"
        BY <1>1, <1>3, <2>2 DEF SaveCommit, Task, Frame
    <2> QED BY <2>1, <2>2
<1> HIDE DEF n, save
<1>8. StatusInPhase(v)'
    BY <1>2, <1>3, <1>6, <1>7 DEF StatusInPhase, Live, NoFrame
<1>9. DurableWork(v)' = save.work
    BY <1>6, <1>7 DEF DurableWork
<1>10. PreviewInPhase(v)'
    BY <1>6, <1>9 DEF PreviewInPhase, Submitted
<1>11. ASSUME frame'[v].live = frame[v].live, frame'[v].latest = save.work
       PROVE  CopiesGrow(v)'
    <2>1. ASSUME NEW i \in 1 .. n - 1
          PROVE  /\ saves'[v][i] = saves[v][i + 1] /\ i + 1 \in 1 .. n
                 /\ AtLeast(frame[v].live, saves'[v][i].work)
                 /\ AtLeast(saves'[v][i].work, save.work)
        <3>1. saves'[v][i] = saves[v][i + 1]
            BY <1>4, <1>6
        <3>2. i + 1 \in 1 .. n /\ 1 \in 1 .. n /\ 1 < i + 1
            BY <1>4
        <3> QED BY <1>4, <3>1, <3>2 DEF DurableConv, CopiesGrow, n
    <2>2. ASSUME NEW i \in 1 .. n - 1, NEW j \in 1 .. n - 1, i < j
          PROVE  AtLeast(saves'[v][j].work, saves'[v][i].work)
        <3>1. i + 1 < j + 1
            BY <2>2
        <3> QED BY <2>1, <3>1 DEF DurableConv, CopiesGrow, n
    <2>3. Len(saves'[v]) = n - 1
        BY <1>4, <1>6
    <2> QED BY <1>5, <1>11, <2>1, <2>2, <2>3 DEF CopiesGrow, AtLeast
<1>12. CopiesGrow(v)'
    BY <1>7, <1>11, NoCopies
<1> QED BY <1>2, <1>3, <1>5, <1>7, <1>8, <1>10, <1>12 DEF DurableConv, save

-----------------------------------------------------------------------------
(* Submissions and restarts. *)

\* A continuation starts from what the failed task saved (agent-worker.ts:271).
LEMMA ResumeDurable ==
    ASSUME Inv, NEW c \in Clients, Resume(c), NEW v \in Convs, v = sub[c].conv, DurableConv(v)
    PROVE  /\ DurableConv(v)'
           /\ task[v].state = "terminal" /\ doc[v].status = "failed"
           /\ frame[v].pc = "off" /\ saved[v] # None /\ task'[v].phase = "restore"
<1>1. /\ doc \in [Convs -> Doc] /\ task \in [Convs -> Task] /\ doc[v] \in Doc /\ task[v] \in Task
    BY Copies DEF Inv, TypeOK
<1>2. /\ doc[v].status = "failed" /\ frame[v].pc = "off" /\ saved[v] # None
      /\ task[v].state = "terminal"
    BY DEF Resume, Resumable, Inv, ConvInv, DocInPhase
<1>3. /\ doc'[v].status = "running" /\ doc'[v].previews = doc[v].previews
      /\ task'[v].n = task[v].n + 1 /\ task'[v].state = "ready"
      /\ task'[v].phase = "restore" /\ saved'[v] = saved[v]
      /\ frame'[v] = frame[v] /\ saves'[v] = saves[v]
    BY <1>1 DEF Resume, ContinuedDoc, NewTask, Doc, phase
<1>4. task[v].n + 1 # 0
    BY <1>1 DEF Task
<1>5. StatusInPhase(v)'
    BY <1>2, <1>3, <1>4 DEF StatusInPhase, Live
<1>6. DurableWork(v) = saved[v] /\ DurableWork(v)' = saved[v]
    BY <1>2, <1>3 DEF DurableWork
<1>7. doc[v].previews = Submitted(saved[v])
    BY <1>2, <1>6 DEF DurableConv, PreviewInPhase
<1>8. PreviewInPhase(v)'
    BY <1>3, <1>6, <1>7 DEF PreviewInPhase, Submitted
<1>9. CopiesGrow(v)'
    BY <1>3 DEF CopiesGrow, DurableConv
<1> QED BY <1>2, <1>3, <1>5, <1>8, <1>9 DEF DurableConv

\* A new job has an empty workspace and an empty preview (agent-worker.ts:229).
LEMMA CreateDurable ==
    ASSUME Inv, NEW c \in Clients, NEW v \in Convs \ UsedConvs, DurableConv(v),
           task' = [task EXCEPT ![v] =
                     [NewTask EXCEPT !.n = 1, !.state = "ready", !.budget = Budget(c, 0),
                                     !.tokenBudget = TokenBudget(c, DefaultTokens)]],
           doc' = [doc EXCEPT ![v].status = "running"],
           saved'[v] = saved[v], frame'[v] = frame[v], saves'[v] = saves[v]
    PROVE  DurableConv(v)' /\ doc[v] = NewDoc /\ frame[v].pc = "off"
<1>1. /\ doc \in [Convs -> Doc] /\ task \in [Convs -> Task] /\ doc[v] \in Doc /\ task[v] \in Task
    BY Copies DEF Inv, TypeOK
<1>2. task[v].n = 0
    BY <1>1 DEF UsedConvs, Task
<1>3. doc[v] = NewDoc /\ frame[v].pc = "off"
    BY <1>2 DEF Inv, ConvInv, DocInPhase
<1>4. /\ doc'[v].status = "running" /\ doc'[v].previews = {}
      /\ task'[v].n = 1 /\ task'[v].state = "ready" /\ task'[v].phase = "run"
      /\ task'[v].work = InitialWork
    BY <1>1, <1>3 DEF NewTask, NewDoc
<1>5. StatusInPhase(v)'
    BY <1>3, <1>4 DEF StatusInPhase, Live
<1>6. Submitted(InitialWork) = {}
    BY DEF Submitted, InitialWork
<1>7. DurableWork(v)' = InitialWork
    BY <1>4 DEF DurableWork
<1>8. PreviewInPhase(v)'
    BY <1>4, <1>6, <1>7 DEF PreviewInPhase, Submitted
<1>9. CopiesGrow(v)'
    BY DEF CopiesGrow, DurableConv
<1> QED BY <1>3, <1>5, <1>8, <1>9 DEF DurableConv

\* A restart loses the copies in memory, and none of what is durable.
LEMMA RestartDurable ==
    ASSUME Inv, Inv', Restart, NEW v \in Convs, DurableConv(v)
    PROVE  DurableConv(v)'
<1>1. task \in [Convs -> Task] /\ task[v] \in Task
    BY Copies DEF Inv, TypeOK
<1>2. /\ doc'[v] = doc[v] /\ saved'[v] = saved[v] /\ frame'[v] = NoFrame
    BY DEF Restart
<1>3. /\ task'[v].n = task[v].n /\ task'[v].work = task[v].work
      /\ task'[v].phase = task[v].phase
      /\ \/ task'[v].state = task[v].state
         \/ task[v].state = "running" /\ task'[v].state = "ready"
    <2>1. CASE task[v].state = "running"
        <3>1. task'[v] = [task[v] EXCEPT !.state = "ready"]
            BY <2>1 DEF Restart
        <3> QED BY <1>1, <2>1, <3>1 DEF Task
    <2>2. CASE task[v].state # "running"
        <3>1. task'[v] = task[v]
            BY <2>2 DEF Restart
        <3> QED BY <1>1, <3>1 DEF Task
    <2> QED BY <2>1, <2>2
<1>4. StatusInPhase(v)'
    BY <1>2, <1>3 DEF StatusInPhase, DurableConv, Live, NoFrame
<1>5. PreviewInPhase(v)'
    BY <1>2, <1>3 DEF PreviewInPhase, DurableWork, DurableConv, Submitted
<1> QED BY <1>2, <1>4, <1>5, NoCopies DEF DurableConv

\* A conversation that a step does not touch.
Untouched(u) ==
    /\ doc'[u] = doc[u] /\ saved'[u] = saved[u] /\ task'[u] = task[u]
    /\ frame'[u] = frame[u] /\ agent'[u] = agent[u] /\ saves'[u] = saves[u]

\* The steps of one conversation's task leave the others alone.
LEMMA TaskStepLocal ==
    ASSUME Inv, NEW v \in Convs,
           TaskStep(v) \/ Cancellation(v) \/ AbortJob(v) \/ Observe(v)
    PROVE  \A u \in Convs : u # v => Untouched(u)
<1> SUFFICES ASSUME NEW u \in Convs, u # v PROVE Untouched(u)
    OBVIOUS
<1> USE DEF Untouched
<1>1. /\ doc \in [Convs -> Doc] /\ saved \in [Convs -> Work \cup {None}]
      /\ task \in [Convs -> Task] /\ frame \in [Convs -> Frame]
      /\ agent \in [Convs -> [Agents -> {"off", "idle", "calling", "saving"}]]
      /\ saves \in [Convs -> Seq([agent: Agents, work: Work])]
    BY DEF Inv, TypeOK
<1>2. CASE Cancellation(v) \/ AbortJob(v) \/ Observe(v) \/ DropKey(v)
    BY <1>1, <1>2 DEF Cancellation, AbortDone, AbortDropKey, AbortCommit, Forget,
                      AbortJob, Observe, DropKey, durable, phase
<1>3. CASE Restore(v) \/ BeginRun(v) \/ Wake(v) \/ Advance(v)
    BY <1>1, <1>3 DEF Restore, BeginRun, Wake, Advance, phase
<1>4. CASE Publish(v) \/ AwaitCredentials(v) \/ Backoff(v) \/ FailTask(v)
    BY <1>1, <1>4 DEF Publish, AwaitCredentials, Backoff, FailTask, Forget, Remember
<1>5. CASE Join(v)
    BY <1>1, <1>5 DEF Join, durable
<1>6. CASE PhaseAborted(v) \/ Boundary(v)
    BY <1>1, <1>6 DEF PhaseAborted, Boundary, durable
<1>7. CASE SaveCommit(v)
    <2>1. doc'[u] = doc[u] /\ saves'[u] = saves[u] /\ saved'[u] = saved[u]
        BY <1>1, <1>7 DEF SaveCommit
    <2>2. task'[u] = task[u] /\ frame'[u] = frame[u] /\ agent'[u] = agent[u]
        <3>1. CASE frame[v].pc = "finish"
            BY <1>1, <1>7, <3>1 DEF SaveCommit
        <3>2. CASE frame[v].pc # "finish"
            BY <1>1, <1>7, <3>2 DEF SaveCommit
        <3> QED BY <3>1, <3>2
    <2> QED BY <2>1, <2>2
<1>8. ASSUME NEW state \in {"ready", "sleeping"}, RetryPhase(v, state) PROVE Untouched(u)
    BY <1>1, <1>8 DEF RetryPhase
<1>9. ASSUME NEW cost \in TokenCosts, Stall(v, cost) PROVE Untouched(u)
    BY <1>1, <1>9 DEF Stall, Charge, Enqueue
<1>10. ASSUME NEW a \in Agents, AgentStep(v, a) PROVE Untouched(u)
    <2>1. ASSUME NEW p, TurnFails(v, a, p)
          PROVE  frame'[u] = frame[u] /\ agent'[u] = agent[u] /\ saves'[u] = saves[u]
        BY <1>1, <2>1 DEF TurnFails, Enqueue
    <2>2. CASE Reserve(v, a) \/ LoopEnds(v, a)
        BY <1>1, <2>2 DEF Reserve, LoopEnds, durable
    <2>3. CASE Refuse(v, a)
        BY <2>1, <2>3 DEF Refuse, durable
    <2>4. ASSUME NEW cost \in TokenCosts, NEW g \in {0, 1}, Answer(v, a, cost, g) PROVE Untouched(u)
        BY <1>1, <2>4 DEF Answer, Charge, Enqueue
    <2>5. ASSUME NEW cost \in TokenCosts, NEW p \in BOOLEAN, Fail(v, a, cost, p)
          PROVE  Untouched(u)
        BY <1>1, <2>1, <2>5 DEF Fail, Charge
    <2>6. ASSUME NEW cost \in TokenCosts, Interrupted(v, a, cost) PROVE Untouched(u)
        BY <1>1, <2>6 DEF Interrupted
    <2> QED BY <1>10, <2>2, <2>3, <2>4, <2>5, <2>6 DEF AgentStep
<1> QED
    BY <1>2, <1>3, <1>4, <1>5, <1>6, <1>7, <1>8, <1>9, <1>10 DEF TaskStep

\* A submission that neither creates nor continues a job leaves them all alone.
LEMMA SubmissionLocal ==
    ASSUME NEW c \in Clients, Submission(c), ~Resume(c), ~Create(c)
    PROVE  UNCHANGED <<durable, phase>>
BY DEF Submission, Lookup, SyncAttach, SyncCancelled, SyncFailed, ReadSaved, RejectKeyless,
       RejectResume, CheckKey, Register, Reject, durable, phase

\* A continuation touches only the conversation it continues.
LEMMA ResumeLocal ==
    ASSUME Inv, NEW c \in Clients, Resume(c)
    PROVE  \A u \in Convs : u # sub[c].conv => Untouched(u)
<1>1. /\ doc \in [Convs -> Doc] /\ task \in [Convs -> Task]
    BY DEF Inv, TypeOK
<1> QED BY <1>1 DEF Resume, Untouched, phase

\* So does the creation of a job.
LEMMA CreateLocal ==
    ASSUME Inv, NEW c \in Clients, Create(c)
    PROVE  \E v \in Convs \ UsedConvs :
              /\ \A u \in Convs \ UsedConvs : v <= u
              /\ task' = [task EXCEPT ![v] =
                           [NewTask EXCEPT !.n = 1, !.state = "ready", !.budget = Budget(c, 0),
                                           !.tokenBudget = TokenBudget(c, DefaultTokens)]]
              /\ doc' = [doc EXCEPT ![v].status = "running"]
              /\ sub' = [sub EXCEPT ![c].pc = "register", ![c].conv = v, ![c].n = 1]
              /\ \A u \in Convs : u # v => Untouched(u)
              /\ saved' = saved /\ frame' = frame /\ saves' = saves /\ agent' = agent
<1>1. /\ doc \in [Convs -> Doc] /\ task \in [Convs -> Task]
    BY DEF Inv, TypeOK
<1> QED BY <1>1 DEF Create, Untouched, phase

\* One conversation at a time.
LEMMA DurableLocal ==
    ASSUME Durable, NEW v \in Convs, DurableConv(v)',
           \A u \in Convs : u # v => Untouched(u)
    PROVE  Durable'
<1> SUFFICES ASSUME NEW u \in Convs, u # v PROVE DurableConv(u)'
    BY DEF Durable
<1> QED BY SameConv DEF Durable, Untouched

\* The steps of a task, and its cancellation.
LEMMA TaskStepDurable ==
    ASSUME Inv, Inv', NEW v \in Convs, DurableConv(v),
           TaskStep(v) \/ Cancellation(v) \/ AbortJob(v) \/ Observe(v)
    PROVE  DurableConv(v)'
<1>1. ASSUME NEW a \in Agents, AgentStep(v, a) PROVE DurableConv(v)'
    BY <1>1, CallsDurable, TurnsDurable DEF AgentStep
<1>2. ASSUME NEW cost \in TokenCosts, Stall(v, cost) PROVE DurableConv(v)'
    <2>1. Main \in Agents
        BY DEF Agents
    <2> QED BY <1>2, <2>1, TurnsDurable
<1>3. CASE Restore(v) \/ Advance(v) \/ Boundary(v) \/ PhaseAborted(v) \/ Join(v) \/ SaveCommit(v)
    BY <1>3, RestoreDurable, MovesDurable, AbortedDurable, JoinDurable, SaveDurable
<1>4. CASE Publish(v) \/ FailTask(v) \/ AbortCommit(v)
    BY <1>4, TaskEndsDurable
<1>5. CASE \/ AwaitCredentials(v) \/ Backoff(v) \/ Wake(v) \/ BeginRun(v)
           \/ \E state \in {"ready", "sleeping"} : RetryPhase(v, state)
    BY <1>5, CheckpointKept
<1>6. CASE AbortDone(v) \/ AbortDropKey(v) \/ AbortJob(v) \/ Observe(v) \/ DropKey(v)
    BY <1>6, SameConv DEF AbortDone, AbortDropKey, AbortJob, Observe, DropKey, durable, phase
<1> QED BY <1>1, <1>2, <1>3, <1>4, <1>5, <1>6 DEF TaskStep, Cancellation

\* Nothing is durable before the first submission.
LEMMA InitDurable == Init => Durable
<1> SUFFICES ASSUME Init, NEW v \in Convs PROVE DurableConv(v)
    BY DEF Durable
<1>1. doc[v] = NewDoc /\ task[v] = NewTask /\ frame[v] = NoFrame /\ saves[v] = << >>
    BY DEF Init
<1>2. CopiesGrow(v)
    BY <1>1, WorkTypes, WorkOrder DEF CopiesGrow, NoFrame
<1>3. StatusInPhase(v) /\ PreviewInPhase(v)
    BY <1>1 DEF StatusInPhase, PreviewInPhase, NewDoc, NewTask, NoFrame, Live
<1> QED BY <1>2, <1>3 DEF DurableConv

\* Every step keeps what is durable in order.
LEMMA NextDurable == Inv /\ Inv' /\ Durable /\ [Next]_vars => Durable'
<1> SUFFICES ASSUME Inv, Inv', Durable, [Next]_vars PROVE Durable'
    OBVIOUS
<1>1. ASSUME UNCHANGED <<durable, phase>> PROVE Durable'
    <2> SUFFICES ASSUME NEW v \in Convs PROVE DurableConv(v)'
        BY DEF Durable
    <2> QED BY <1>1, SameConv DEF Durable, durable, phase
<1>2. CASE UNCHANGED vars
    BY <1>1, <1>2 DEF vars, durable, phase
<1>3. ASSUME NEW c \in Clients, Submission(c) PROVE Durable'
    <2>1. CASE Resume(c)
        <3>1. PICK v \in Convs : v = sub[c].conv
            BY <2>1 DEF Resume, Inv, SubmissionHasConv
        <3>2. DurableConv(v)'
            BY <2>1, <3>1, ResumeDurable DEF Durable
        <3> QED BY <2>1, <3>1, <3>2, ResumeLocal, DurableLocal
    <2>2. CASE Create(c)
        <3>1. PICK v \in Convs \ UsedConvs :
                /\ task' = [task EXCEPT ![v] =
                             [NewTask EXCEPT !.n = 1, !.state = "ready", !.budget = Budget(c, 0),
                                             !.tokenBudget = TokenBudget(c, DefaultTokens)]]
                /\ doc' = [doc EXCEPT ![v].status = "running"]
                /\ \A u \in Convs : u # v => Untouched(u)
                /\ saved' = saved /\ frame' = frame /\ saves' = saves
            BY <2>2, CreateLocal
        <3>2. DurableConv(v)'
            BY <3>1, CreateDurable DEF Durable
        <3> QED BY <3>1, <3>2, DurableLocal
    <2>3. CASE ~Resume(c) /\ ~Create(c)
        BY <1>1, <1>3, <2>3, SubmissionLocal
    <2> QED BY <2>1, <2>2, <2>3
<1>4. ASSUME NEW v \in Convs, TaskStep(v) \/ Cancellation(v) \/ AbortJob(v) \/ Observe(v)
      PROVE  Durable'
    <2>1. DurableConv(v)'
        BY <1>4, TaskStepDurable DEF Durable
    <2> QED BY <1>4, <2>1, TaskStepLocal, DurableLocal
<1>5. ASSUME NEW c \in Clients, NEW keyed \in BOOLEAN, NEW b \in Budgets \cup {None},
             NEW t \in TokenBudgets \cup {None}, Submit(c, keyed, b, t)
      PROVE  Durable'
    BY <1>1, <1>5 DEF Submit, durable, phase
<1>6. CASE Restart
    BY <1>6, RestartDurable DEF Durable
<1> QED BY <1>2, <1>3, <1>4, <1>5, <1>6 DEF Next

\* The copies of the workspace stay in order throughout every behaviour.
THEOREM DurableHolds == Spec => []Durable
<1>1. Inv /\ Durable /\ [Next]_vars => Durable'
    BY NextInv, NextDurable
<1> QED BY <1>1, InitDurable, Invariance, PTL DEF Spec

\* The preview is always the submitted part of the workspace the job would go
\* on from: during a phase, between phases, and after a failure (translation-team.ts:384).
THEOREM PreviewDurable == Spec => []PreviewIsDurable
<1>1. Durable => PreviewIsDurable
    BY DEF Durable, DurableConv, PreviewInPhase, PreviewIsDurable
<1> QED BY <1>1, DurableHolds, PTL

-----------------------------------------------------------------------------
(* No turn is lost. *)

WorkKept(v) ==
    doc[v].status \in {"running", "failed"} /\ ~doc'[v].cancelled
        => AtLeast(DurableWork(v)', DurableWork(v))

\* A step that changes neither the status nor any durable copy.
LEMMA SameWork ==
    ASSUME Inv, NEW v \in Convs, doc'[v].status = doc[v].status, saved'[v] = saved[v],
           task'[v].work = task[v].work, task'[v].phase = task[v].phase
    PROVE  WorkKept(v)
<1>1. DurableWork(v)' = DurableWork(v)
    BY DEF DurableWork
<1>2. DurableWork(v) \in Work
    BY Copies DEF DurableWork
<1> QED BY <1>1, <1>2, WorkOrder DEF WorkKept

\* The commits that replace a durable copy by another one.
LEMMA ReplacedWork ==
    ASSUME Inv, Inv', NEW v \in Convs, DurableConv(v),
           \/ Publish(v) \/ FailTask(v) \/ AbortCommit(v) \/ Restore(v) \/ SaveCommit(v)
           \/ \E state \in {"ready", "sleeping"} : RetryPhase(v, state)
    PROVE  WorkKept(v)
<1>1. /\ doc[v] \in Doc /\ task[v] \in Task /\ frame[v].latest \in Work /\ task[v].work \in Work
      /\ saved[v] # None => saved[v] \in Work
    BY Copies
<1>2. /\ doc \in [Convs -> Doc] /\ task \in [Convs -> Task]
      /\ saved \in [Convs -> Work \cup {None}]
    BY DEF Inv, TypeOK
<1>3. AtLeast(task[v].work, task[v].work)
    BY <1>1, WorkOrder
<1>4. ASSUME frame[v].pc # "off", Live(v)
      PROVE  /\ DurableWork(v) = task[v].work /\ frame[v].latest = task[v].work
             /\ task[v].phase = "run"
    BY <1>4 DEF DurableConv, StatusInPhase, DurableWork
<1>5. CASE Publish(v)
    <2>1. doc'[v].status = "succeeded" /\ task'[v].work = task[v].work /\ task'[v].phase = task[v].phase
        BY <1>1, <1>2, <1>5 DEF Publish, Doc, Task
    <2>2. frame[v].pc # "off" /\ Live(v)
        BY <1>5 DEF Publish
    <2>3. DurableWork(v)' = task[v].work /\ DurableWork(v) = task[v].work
        BY <1>4, <2>1, <2>2 DEF DurableWork
    <2> QED BY <1>3, <2>3 DEF WorkKept
<1>6. CASE FailTask(v)
    <2>1. doc'[v].status = "failed" /\ saved'[v] = frame[v].latest
        BY <1>1, <1>2, <1>6 DEF FailTask, FailedDoc, Remember, Doc
    <2>2. frame[v].pc # "off" /\ Live(v) /\ saved'[v] # None
        BY <1>1, <1>6, <2>1, NoneIsNoWork DEF FailTask
    <2>3. DurableWork(v)' = task[v].work /\ DurableWork(v) = task[v].work
        BY <1>4, <2>1, <2>2 DEF DurableWork
    <2> QED BY <1>3, <2>3 DEF WorkKept
<1>7. CASE AbortCommit(v)
    <2>1. doc'[v].cancelled
        BY <1>1, <1>2, <1>7 DEF AbortCommit, Doc
    <2> QED BY <2>1 DEF WorkKept
<1>8. CASE Restore(v)
    <2>1. /\ task'[v].phase = "run" /\ task'[v].work = Resumed(saved[v])
          /\ doc'[v] = doc[v] /\ saved[v] # None /\ task[v].phase = "restore"
          /\ task[v].state = "ready"
        BY <1>1, <1>2, <1>8 DEF Restore, Task
    <2>2. doc[v].status = "running"
        BY <2>1 DEF DurableConv, StatusInPhase, Live
    <2>3. DurableWork(v)' = Resumed(saved[v]) /\ DurableWork(v) = saved[v]
        BY <2>1, <2>2 DEF DurableWork
    <2> QED BY <1>1, <2>1, <2>3, TurnsKept DEF WorkKept
<1>9. CASE SaveCommit(v)
    <2>1. /\ task[v].phase = "run" /\ doc[v].status = "running" /\ task'[v].phase = "run"
          /\ AtLeast(task'[v].work, task[v].work)
        BY <1>9, SaveDurable
    <2>2. doc'[v].status = "running"
        BY <1>1, <1>2, <1>9, <2>1 DEF SaveCommit, Doc
    <2>3. DurableWork(v)' = task'[v].work /\ DurableWork(v) = task[v].work
        BY <2>1, <2>2 DEF DurableWork
    <2> QED BY <2>1, <2>3 DEF WorkKept
<1>10. ASSUME NEW state \in {"ready", "sleeping"}, RetryPhase(v, state) PROVE WorkKept(v)
    <2>1. /\ task'[v].work = frame[v].latest /\ task'[v].phase = task[v].phase
          /\ doc'[v] = doc[v] /\ saved'[v] = saved[v]
        BY <1>1, <1>2, <1>10 DEF RetryPhase, Task
    <2>2. frame[v].latest = task[v].work
        BY <1>4, <1>10 DEF RetryPhase
    <2> QED BY <2>1, <2>2, SameWork
<1> QED BY <1>5, <1>6, <1>7, <1>8, <1>9, <1>10

\* Every step keeps every durable turn of every conversation.
LEMMA NextKeepsWork ==
    ASSUME Inv, Inv', Durable, [Next]_vars, NEW v \in Convs
    PROVE  WorkKept(v)
<1>1. /\ doc[v] \in Doc /\ task[v] \in Task /\ doc \in [Convs -> Doc] /\ task \in [Convs -> Task]
    BY Copies DEF Inv, TypeOK
<1>2. ASSUME UNCHANGED <<durable, phase>> PROVE WorkKept(v)
    BY <1>2, SameWork DEF durable
<1>3. ASSUME Untouched(v) PROVE WorkKept(v)
    BY <1>3, SameWork DEF Untouched
<1>4. ASSUME NEW c \in Clients, Submission(c) PROVE WorkKept(v)
    <2>1. CASE Resume(c) /\ v = sub[c].conv
        <3>1. doc[v].status = "failed" /\ saved[v] # None /\ task'[v].phase = "restore"
            BY <2>1, ResumeDurable DEF Durable
        <3>2. saved'[v] = saved[v]
            BY <2>1 DEF Resume
        <3>3. DurableWork(v)' = saved[v] /\ DurableWork(v) = saved[v]
            BY <3>1, <3>2 DEF DurableWork
        <3> QED BY <3>1, <3>3, Copies, WorkOrder DEF WorkKept
    <2>2. CASE Create(c)
        <3>1. PICK u \in Convs \ UsedConvs :
                    \A w \in Convs : w # u => Untouched(w)
            BY <2>2, CreateLocal
        <3>2. ASSUME v = u PROVE doc[v].status = "none"
            <4>1. task[v].n = 0
                BY <1>1, <3>2 DEF UsedConvs, Task
            <4> QED BY <4>1 DEF Inv, ConvInv, DocInPhase, NewDoc
        <3> QED BY <1>3, <3>1, <3>2 DEF WorkKept
    <2>3. CASE Resume(c) /\ v # sub[c].conv
        BY <1>3, <2>3, ResumeLocal
    <2>4. CASE ~Resume(c) /\ ~Create(c)
        BY <1>2, <1>4, <2>4, SubmissionLocal
    <2> QED BY <2>1, <2>2, <2>3, <2>4
<1>5. ASSUME TaskStep(v) \/ Cancellation(v) \/ AbortJob(v) \/ Observe(v) PROVE WorkKept(v)
    <2>1. CASE \/ Publish(v) \/ FailTask(v) \/ AbortCommit(v) \/ Restore(v) \/ SaveCommit(v)
               \/ \E state \in {"ready", "sleeping"} : RetryPhase(v, state)
        BY <2>1, ReplacedWork DEF Durable
    <2>2. CASE AwaitCredentials(v) \/ Wake(v) \/ BeginRun(v)
        BY <1>1, <2>2, SameWork DEF AwaitCredentials, Wake, BeginRun, Task
    <2>3. CASE Backoff(v) \/ Advance(v)
        <3>1. doc[v].status = "running"
            BY <2>3 DEF Backoff, Advance, Durable, DurableConv, StatusInPhase
        <3>2. /\ doc'[v].status = "running" /\ saved'[v] = saved[v]
              /\ task'[v].work = task[v].work /\ task'[v].phase = task[v].phase
            BY <1>1, <2>3 DEF Backoff, Advance, Doc, Task
        <3> QED BY <3>1, <3>2, SameWork
    <2>4. CASE Join(v) \/ PhaseAborted(v) \/ Boundary(v) \/ DropKey(v)
        BY <2>4, SameWork DEF Join, PhaseAborted, Boundary, DropKey, durable
    <2>5. CASE AbortDone(v) \/ AbortDropKey(v) \/ AbortJob(v) \/ Observe(v)
        BY <2>5, SameWork DEF AbortDone, AbortDropKey, AbortJob, Observe, durable
    <2>6. ASSUME NEW cost \in TokenCosts, Stall(v, cost) PROVE WorkKept(v)
        BY <2>6, ChargeSame, SameWork DEF Stall, SameDoc
    <2>7. ASSUME NEW a \in Agents, AgentStep(v, a) PROVE WorkKept(v)
        <3>1. CASE Reserve(v, a) \/ LoopEnds(v, a) \/ Refuse(v, a)
            BY <1>1, <3>1, SameWork DEF Reserve, LoopEnds, Refuse, durable, Doc
        <3>2. ASSUME NEW cost \in TokenCosts, NEW g \in {0, 1}, Answer(v, a, cost, g) PROVE WorkKept(v)
            BY <3>2, ChargeSame, SameWork DEF Answer, SameDoc
        <3>3. ASSUME NEW cost \in TokenCosts, NEW p \in BOOLEAN, Fail(v, a, cost, p)
              PROVE  WorkKept(v)
            BY <3>3, ChargeSame, SameWork DEF Fail, SameDoc
        <3>4. ASSUME NEW cost \in TokenCosts, Interrupted(v, a, cost) PROVE WorkKept(v)
            BY <1>1, <3>4, SameWork DEF Interrupted, Doc
        <3> QED BY <2>7, <3>1, <3>2, <3>3, <3>4 DEF AgentStep
    <2> QED BY <1>5, <2>1, <2>2, <2>3, <2>4, <2>5, <2>6, <2>7 DEF TaskStep, Cancellation
<1>6. ASSUME NEW u \in Convs, u # v,
             TaskStep(u) \/ Cancellation(u) \/ AbortJob(u) \/ Observe(u)
      PROVE  WorkKept(v)
    BY <1>3, <1>6, TaskStepLocal
<1>7. ASSUME NEW c \in Clients, NEW keyed \in BOOLEAN, NEW b \in Budgets \cup {None},
             NEW t \in TokenBudgets \cup {None}, Submit(c, keyed, b, t)
      PROVE  WorkKept(v)
    BY <1>2, <1>7 DEF Submit, durable, phase
<1>8. CASE Restart
    <2>1. doc'[v] = doc[v] /\ saved'[v] = saved[v]
        BY <1>8 DEF Restart
    <2>2. task'[v].work = task[v].work /\ task'[v].phase = task[v].phase
        <3>1. CASE task[v].state = "running"
            <4>1. task'[v] = [task[v] EXCEPT !.state = "ready"]
                BY <1>8, <3>1 DEF Restart
            <4> QED BY <1>1, <4>1 DEF Task
        <3>2. CASE task[v].state # "running"
            BY <1>8, <3>2 DEF Restart
        <3> QED BY <3>1, <3>2
    <2> QED BY <2>1, <2>2, SameWork
<1>9. CASE UNCHANGED vars
    BY <1>2, <1>9 DEF vars, durable, phase
<1> QED BY <1>4, <1>5, <1>6, <1>7, <1>8, <1>9 DEF Next

\* No turn that was ever saved is lost: not to a sibling's older snapshot, an
\* automatic retry, a failure, a continuation or a restart (document-task.ts:61).
THEOREM TurnsAreKept == Spec => NoTurnLost
<1>1. Inv /\ Inv' /\ Durable /\ [Next]_vars =>
          [\A v \in Convs : doc[v].status \in {"running", "failed"} /\ ~doc'[v].cancelled
              => AtLeast(DurableWork(v)', DurableWork(v))]_vars
    BY NextKeepsWork DEF WorkKept
<1> QED BY <1>1, Invariance, DurableHolds, PTL DEF Spec, NoTurnLost

-----------------------------------------------------------------------------
(* The token budget. *)

\* The agents of a job are finitely many, so are the calls in flight.
LEMMA CallingFinite ==
    ASSUME NEW v \in Convs
    PROVE  /\ IsFiniteSet(Calling(v)) /\ Cardinality(Calling(v)) \in Nat
           /\ Cardinality(Children) \in Nat \ {0}
<1>1. IsFiniteSet(Agents)
    BY ConstantsOK, FS_AddElement DEF Agents
<1>2. IsFiniteSet(Calling(v))
    BY <1>1, FS_Subset DEF Calling
<1>3. Cardinality(Children) \in Nat \ {0}
    BY ConstantsOK, FS_CardinalityType, FS_EmptySet
<1> QED BY <1>2, <1>3, FS_CardinalityType

\* A phase calls the main agent or the children, never both, hence at most as
\* many calls at once as there are children.
LEMMA CallsAtOnce ==
    ASSUME Inv, NEW v \in Convs, NEW a \in Agents, Active(v, a)
    PROVE  Cardinality(Calling(v) \cup {a}) <= Cardinality(Children)
<1>1. \/ Calling(v) \cup {a} \subseteq Children
      \/ Calling(v) \cup {a} \subseteq {Main}
    BY DEF Inv, ConvInv, AgentsInPhase, Active, Calling, Agents
<1>2. CASE Calling(v) \cup {a} \subseteq Children
    BY <1>2, ConstantsOK, FS_Subset
<1>3. CASE Calling(v) \cup {a} \subseteq {Main}
    <2>1. /\ Cardinality(Calling(v) \cup {a}) <= Cardinality({Main})
          /\ IsFiniteSet(Calling(v) \cup {a})
        BY <1>3, FS_Singleton, FS_Subset
    <2>2. Cardinality({Main}) = 1 /\ Cardinality(Children) \in Nat \ {0}
          /\ Cardinality(Calling(v) \cup {a}) \in Nat
        BY <2>1, FS_Singleton, CallingFinite, FS_CardinalityType
    <2> QED BY <2>1, <2>2
<1> QED BY <1>1, <1>2, <1>3

\* A cost is bounded by the dearest call, and so is any number of them.
LEMMA Times ==
    ASSUME NEW m \in Nat, NEW i \in Nat, NEW k \in Nat
    PROVE  /\ m * i \in Nat /\ i <= k => m * i <= m * k
           /\ m * (i + 1) = m * i + m
OBVIOUS

\* The figures of the invariant are numbers.
LEMMA Figures ==
    ASSUME Inv, NEW v \in Convs
    PROVE  /\ TokensUsed(v) \in Int /\ task[v].tokenBudget \in Nat
           /\ TokenCosts \subseteq Nat
<1>1. doc[v].tokens \in Nat /\ doc[v].tokenStart \in Nat /\ task[v] \in Task
    BY Copies
<1> QED BY <1>1, ConstantsOK DEF TokensUsed, Task

\* Nothing is spent and no call is added.
LEMMA NothingSpent ==
    ASSUME Inv, NEW v \in Convs, InFlight(v), Calling(v)' \subseteq Calling(v),
           TokensUsed(v)' = TokensUsed(v), task'[v].tokenBudget = task[v].tokenBudget
    PROVE  InFlight(v)'
<1> SUFFICES ASSUME NEW most \in TokenCosts, \A cost \in TokenCosts : cost <= most,
                    task'[v].tokenBudget > 0
             PROVE  TokensUsed(v)' + most * Cardinality(Calling(v)')
                       < task'[v].tokenBudget + most * Cardinality(Children)
    BY DEF InFlight, Calling
<1> DEFINE i == Cardinality(Calling(v))
           k == Cardinality(Calling(v)')
           n == Cardinality(Children)
<1>1. i \in Nat /\ k \in Nat /\ k <= i /\ n \in Nat
    BY CallingFinite, FS_Subset, FS_CardinalityType
<1>2. most \in Nat /\ TokensUsed(v) \in Int /\ task[v].tokenBudget \in Nat
    BY Figures
<1>3. TokensUsed(v) + most * i < task[v].tokenBudget + most * n
    BY DEF InFlight
<1> HIDE DEF i, k, n
<1>4. most * k <= most * i /\ most * k \in Nat /\ most * i \in Nat /\ most * n \in Nat
    BY <1>1, <1>2, Times
<1> HIDE DEF TokensUsed
<1>5. TokensUsed(v) + most * k < task[v].tokenBudget + most * n
    BY <1>2, <1>3, <1>4
<1> QED BY <1>5 DEF k, n

\* A call that ends is charged at most what was kept back for it.
LEMMA CallCharged ==
    ASSUME Inv, NEW v \in Convs, InFlight(v), NEW a \in Calling(v), NEW cost \in TokenCosts,
           Calling(v)' = Calling(v) \ {a}, TokensUsed(v)' = TokensUsed(v) + cost,
           task'[v].tokenBudget = task[v].tokenBudget
    PROVE  InFlight(v)'
<1> SUFFICES ASSUME NEW most \in TokenCosts, \A c \in TokenCosts : c <= most,
                    task'[v].tokenBudget > 0
             PROVE  TokensUsed(v)' + most * Cardinality(Calling(v)')
                       < task'[v].tokenBudget + most * Cardinality(Children)
    BY DEF InFlight, Calling
<1> DEFINE k == Cardinality(Calling(v)')
           n == Cardinality(Children)
<1>1. k \in Nat /\ Cardinality(Calling(v)) = k + 1 /\ n \in Nat
    <2>1. Cardinality(Calling(v)') = Cardinality(Calling(v)) - 1 /\ Cardinality(Calling(v)') \in Nat
        BY CallingFinite, FS_RemoveElement, FS_CardinalityType
    <2> QED BY <2>1, CallingFinite
<1>2. /\ most \in Nat /\ cost \in Nat /\ cost <= most /\ TokensUsed(v) \in Int
      /\ task[v].tokenBudget \in Nat
    BY Figures
<1>3. TokensUsed(v) + most * (k + 1) < task[v].tokenBudget + most * n
    BY <1>1 DEF InFlight
<1> HIDE DEF k, n
<1>4. most * (k + 1) = most * k + most /\ most * k \in Nat /\ most * n \in Nat
    BY <1>1, <1>2, Times
<1>5. TokensUsed(v) + cost + most * k < task[v].tokenBudget + most * n
    BY <1>2, <1>3, <1>4
<1> QED BY <1>5 DEF k, n

\* A call is let through only while the allowance is not used up.
LEMMA CallReserved ==
    ASSUME Inv, NEW v \in Convs, NEW a \in Agents, Active(v, a), Affordable(v),
           Calling(v)' = Calling(v) \cup {a}, TokensUsed(v)' = TokensUsed(v),
           task'[v].tokenBudget = task[v].tokenBudget
    PROVE  InFlight(v)'
<1> SUFFICES ASSUME NEW most \in TokenCosts, task'[v].tokenBudget > 0
             PROVE  TokensUsed(v)' + most * Cardinality(Calling(v)')
                       < task'[v].tokenBudget + most * Cardinality(Children)
    BY DEF InFlight, Calling
<1> DEFINE k == Cardinality(Calling(v)')
           n == Cardinality(Children)
<1>1. k \in Nat /\ k <= n /\ n \in Nat
    BY CallsAtOnce, CallingFinite, FS_AddElement, FS_CardinalityType
<1>2. most \in Nat /\ TokensUsed(v) \in Int /\ task[v].tokenBudget \in Nat
    BY Figures
<1>3. TokensUsed(v) < task[v].tokenBudget
    BY DEF Affordable
<1> HIDE DEF k, n
<1>4. most * k <= most * n /\ most * k \in Nat /\ most * n \in Nat
    BY <1>1, <1>2, Times
<1>5. TokensUsed(v) + most * k < task[v].tokenBudget + most * n
    BY <1>2, <1>3, <1>4
<1> QED BY <1>5 DEF k, n

\* A job starts, or is continued, with nothing spent and no calls.
LEMMA FreshAllowance ==
    ASSUME NEW v \in Convs, Calling(v)' = {}, TokensUsed(v)' = 0,
           task'[v].tokenBudget \in Nat
    PROVE  InFlight(v)'
<1> SUFFICES ASSUME NEW most \in TokenCosts, task'[v].tokenBudget > 0
             PROVE  0 + most * Cardinality({}) < task'[v].tokenBudget + most * Cardinality(Children)
    BY DEF InFlight, Calling
<1>1. Cardinality({}) = 0 /\ most \in Nat
    BY ConstantsOK, FS_EmptySet
<1>2. most * Cardinality(Children) \in Nat /\ most * 0 = 0
    BY <1>1, CallingFinite, Times
<1> QED BY <1>1, <1>2

\* Nothing is added to what a job has counted or may still have to count.
Settled(v) ==
    /\ doc'[v].attempts = doc[v].attempts /\ doc'[v].tokens = doc[v].tokens
    /\ doc'[v].tokenStart = doc[v].tokenStart
    /\ task'[v].tokenBudget = task[v].tokenBudget
    /\ Calling(v)' \subseteq Calling(v)

\* A call is counted before it is sent, and charged when it ends.
Counted(v, a) ==
    /\ agent[v][a] = "idle" /\ Affordable(v)
    /\ doc'[v].attempts = doc[v].attempts + 1 /\ doc'[v].tokens = doc[v].tokens
    /\ doc'[v].tokenStart = doc[v].tokenStart
    /\ task'[v].tokenBudget = task[v].tokenBudget
    /\ Calling(v)' = Calling(v) \cup {a}
ChargedFor(v, a, cost) ==
    /\ a \in Calling(v)
    /\ doc'[v].attempts = doc[v].attempts /\ doc'[v].tokens = doc[v].tokens + cost
    /\ doc'[v].tokenStart = doc[v].tokenStart
    /\ task'[v].tokenBudget = task[v].tokenBudget
    /\ Calling(v)' = Calling(v) \ {a}

\* The loops between two calls, and the phases, count nothing.
LEMMA PhasesSettled ==
    ASSUME Inv, NEW v \in Convs,
           \/ Restore(v) \/ BeginRun(v) \/ Publish(v) \/ AwaitCredentials(v) \/ Backoff(v)
           \/ Wake(v) \/ Advance(v) \/ Join(v) \/ SaveCommit(v) \/ PhaseAborted(v)
           \/ Boundary(v) \/ FailTask(v) \/ DropKey(v) \/ AbortCommit(v) \/ AbortDone(v)
           \/ AbortDropKey(v) \/ AbortJob(v) \/ Observe(v)
           \/ \E state \in {"ready", "sleeping"} : RetryPhase(v, state)
    PROVE  Settled(v)
<1>1. /\ doc[v] \in Doc /\ task[v] \in Task /\ doc \in [Convs -> Doc] /\ task \in [Convs -> Task]
      /\ agent \in [Convs -> [Agents -> {"off", "idle", "calling", "saving"}]]
      /\ agent[v] \in [Agents -> {"off", "idle", "calling", "saving"}]
    BY Copies DEF Inv, TypeOK
<1>2. CASE BeginRun(v) \/ Publish(v) \/ AwaitCredentials(v) \/ Backoff(v)
    <2>1. CASE BeginRun(v)
        BY <1>1, <2>1 DEF BeginRun, Settled, Calling, Task
    <2>2. CASE Publish(v)
        BY <1>1, <2>2 DEF Publish, Settled, Calling, Doc, Task
    <2>3. CASE AwaitCredentials(v)
        BY <1>1, <2>3 DEF AwaitCredentials, Settled, Calling, Task
    <2>4. CASE Backoff(v)
        BY <1>1, <2>4 DEF Backoff, Settled, Calling, Doc, Task
    <2> QED BY <1>2, <2>1, <2>2, <2>3, <2>4
<1>3. CASE \/ Restore(v) \/ Wake(v) \/ FailTask(v) \/ AbortCommit(v)
           \/ \E state \in {"ready", "sleeping"} : RetryPhase(v, state)
    BY <1>1, <1>3 DEF Restore, Wake, FailTask, FailedDoc, AbortCommit, RetryPhase, Settled,
                      Calling, Doc, Task, phase
<1>4. CASE Advance(v)
    <2>1. \A a \in Agents : agent'[v][a] # "calling"
        BY <1>1, <1>4 DEF Advance
    <2> QED BY <1>1, <1>4, <2>1 DEF Advance, Settled, Calling, Doc
<1>5. CASE PhaseAborted(v)
    BY <1>1, <1>5 DEF PhaseAborted, NoAgents, Settled, Calling, durable
<1>6. CASE SaveCommit(v)
    <2>1. /\ doc'[v].attempts = doc[v].attempts /\ doc'[v].tokens = doc[v].tokens
          /\ doc'[v].tokenStart = doc[v].tokenStart
        BY <1>1, <1>6 DEF SaveCommit, Doc
    <2>2. task'[v].tokenBudget = task[v].tokenBudget /\ Calling(v)' \subseteq Calling(v)
        <3>1. CASE frame[v].pc = "finish"
            BY <1>1, <1>6, <3>1 DEF SaveCommit, Task, Calling, NoAgents
        <3>2. CASE frame[v].pc # "finish"
            BY <1>1, <1>6, <3>2 DEF SaveCommit, Task, Calling
        <3> QED BY <3>1, <3>2
    <2> QED BY <2>1, <2>2 DEF Settled
<1>7. CASE Join(v) \/ Boundary(v) \/ DropKey(v)
    BY <1>7 DEF Join, Boundary, DropKey, Settled, Calling, durable, phase
<1>8. CASE AbortDone(v) \/ AbortDropKey(v) \/ AbortJob(v) \/ Observe(v)
    BY <1>8 DEF AbortDone, AbortDropKey, AbortJob, Observe, Settled, Calling, durable, phase
<1> QED BY <1>2, <1>3, <1>4, <1>5, <1>6, <1>7, <1>8

\* What an agent's step counts, charges, or leaves alone.
LEMMA AgentsCount ==
    ASSUME Inv, NEW v \in Convs, NEW a \in Agents,
           AgentStep(v, a) \/ (a = Main /\ \E cost \in TokenCosts : Stall(v, cost))
    PROVE  Settled(v) \/ Counted(v, a) \/ \E cost \in TokenCosts : ChargedFor(v, a, cost)
<1>1. /\ doc[v] \in Doc /\ task[v] \in Task /\ doc \in [Convs -> Doc] /\ task \in [Convs -> Task]
      /\ agent \in [Convs -> [Agents -> {"off", "idle", "calling", "saving"}]]
      /\ agent[v] \in [Agents -> {"off", "idle", "calling", "saving"}]
    BY Copies DEF Inv, TypeOK
<1>2. CASE Reserve(v, a)
    BY <1>1, <1>2 DEF Reserve, Counted, Calling, Doc
<1>3. CASE LoopEnds(v, a)
    BY <1>1, <1>3 DEF LoopEnds, Settled, Calling, durable
<1>4. ASSUME NEW p, TurnFails(v, a, p)
      PROVE  \E s \in {"off", "saving"} : agent' = [agent EXCEPT ![v][a] = s]
    BY <1>4 DEF TurnFails, Enqueue
<1>5. CASE Refuse(v, a)
    <2>1. PICK s \in {"off", "saving"} : agent' = [agent EXCEPT ![v][a] = s]
        BY <1>4, <1>5 DEF Refuse
    <2> QED BY <1>1, <1>5, <2>1 DEF Refuse, Settled, Calling, durable
<1>6. ASSUME NEW cost \in TokenCosts, NEW s \in {"off", "saving"},
             agent[v][a] = "calling", agent' = [agent EXCEPT ![v][a] = s],
             doc' = [doc EXCEPT ![v].tokens = @ + cost], task' = task
      PROVE  ChargedFor(v, a, cost)
    BY <1>1, <1>6 DEF ChargedFor, Calling, Doc
<1>7. ASSUME NEW cost \in TokenCosts, NEW g \in {0, 1}, Answer(v, a, cost, g) PROVE ChargedFor(v, a, cost)
    BY <1>6, <1>7 DEF Answer, Charge, Enqueue
<1>8. ASSUME a = Main, NEW cost \in TokenCosts, Stall(v, cost) PROVE ChargedFor(v, a, cost)
    BY <1>6, <1>8 DEF Stall, Charge, Enqueue
<1>9. ASSUME NEW cost \in TokenCosts, NEW p \in BOOLEAN, Fail(v, a, cost, p)
      PROVE  ChargedFor(v, a, cost)
    BY <1>4, <1>6, <1>9 DEF Fail, Charge
<1>10. ASSUME NEW cost \in TokenCosts, Interrupted(v, a, cost)
       PROVE  Settled(v) \/ ChargedFor(v, a, cost)
    <2>1. CASE Live(v)
        BY <1>6, <1>10, <2>1 DEF Interrupted
    <2>2. CASE ~Live(v)
        BY <1>1, <1>10, <2>2 DEF Interrupted, Settled, Calling
    <2> QED BY <2>1, <2>2
<1> QED BY <1>2, <1>3, <1>5, <1>7, <1>8, <1>9, <1>10 DEF AgentStep

\* A continuation, or a new job, has its allowance whole and no calls.
Granted(v) ==
    /\ doc'[v].attempts = doc[v].attempts /\ doc'[v].tokens = doc[v].tokens
    /\ doc'[v].tokenStart = doc[v].tokens
    /\ task'[v].tokenBudget \in Nat
    /\ Calling(v)' = {}

\* A continuation starts its account anew, and only that of a failed job.
LEMMA ContinuationGrants ==
    ASSUME Inv, Inv', NEW c \in Clients, Resume(c), NEW v \in Convs, v = sub[c].conv
    PROVE  Granted(v) /\ doc[v].status = "failed" /\ task'[v].n = task[v].n + 1
<1>1. /\ doc[v] \in Doc /\ task[v] \in Task /\ doc \in [Convs -> Doc] /\ task \in [Convs -> Task]
      /\ agent[v] \in [Agents -> {"off", "idle", "calling", "saving"}]
      /\ task' \in [Convs -> Task]
    BY Copies DEF Inv, TypeOK
<1>2. doc[v].status = "failed" /\ frame[v].pc = "off"
    BY DEF Resume, Resumable, Inv, ConvInv, DocInPhase
<1>3. Calling(v) = {} /\ agent' = agent
    BY <1>2 DEF Inv, ConvInv, AgentsInPhase, Active, Calling, Agents, Resume, phase
<1>4. /\ doc'[v].attempts = doc[v].attempts /\ doc'[v].tokens = doc[v].tokens
      /\ doc'[v].tokenStart = doc[v].tokens /\ task'[v].n = task[v].n + 1
    BY <1>1 DEF Resume, ContinuedDoc, Doc, NewTask
<1>5. task'[v].tokenBudget \in Nat
    BY <1>1 DEF Task
<1> QED BY <1>2, <1>3, <1>4, <1>5 DEF Granted, Calling

\* A new job has spent nothing.
LEMMA CreationGrants ==
    ASSUME Inv, Inv', NEW v \in Convs \ UsedConvs,
           doc' = [doc EXCEPT ![v].status = "running"], agent' = agent
    PROVE  Granted(v) /\ doc'[v].tokenStart = doc[v].tokenStart
<1>1. /\ doc[v] \in Doc /\ task[v] \in Task /\ doc \in [Convs -> Doc] /\ task' \in [Convs -> Task]
    BY Copies DEF Inv, TypeOK
<1>2. task[v].n = 0
    BY <1>1 DEF UsedConvs, Task
<1>3. doc[v] = NewDoc /\ frame[v].pc = "off"
    BY <1>2 DEF Inv, ConvInv, DocInPhase
<1>4. Calling(v) = {}
    BY <1>3 DEF Inv, ConvInv, AgentsInPhase, Active, Calling, Agents
<1>5. /\ doc'[v].attempts = doc[v].attempts /\ doc'[v].tokens = doc[v].tokens
      /\ doc'[v].tokenStart = doc[v].tokens /\ doc'[v].tokenStart = doc[v].tokenStart
    BY <1>1, <1>3 DEF NewDoc
<1>6. task'[v].tokenBudget \in Nat
    BY <1>1 DEF Task
<1> QED BY <1>4, <1>5, <1>6 DEF Granted, Calling

\* Everything a step may do to a job's account.
Account(v) ==
    \/ Settled(v)
    \/ \E a \in Agents : Counted(v, a)
    \/ \E a \in Agents, cost \in TokenCosts : ChargedFor(v, a, cost)
    \/ /\ Granted(v)
       /\ \/ doc[v].status = "failed" /\ task'[v].n = task[v].n + 1
          \/ doc'[v].tokenStart = doc[v].tokenStart

\* Every step does one of these to a job's account, or leaves it alone.
LEMMA NextAccounts ==
    ASSUME Inv, Inv', [Next]_vars, NEW v \in Convs
    PROVE  Account(v)
<1>1. /\ doc[v] \in Doc /\ task[v] \in Task /\ doc \in [Convs -> Doc] /\ task \in [Convs -> Task]
    BY Copies DEF Inv, TypeOK
<1>2. ASSUME UNCHANGED <<durable, phase>> PROVE Account(v)
    BY <1>2 DEF Account, Settled, Calling, durable, phase
<1>3. ASSUME Untouched(v) PROVE Account(v)
    BY <1>3 DEF Account, Settled, Calling, Untouched
<1>4. ASSUME NEW c \in Clients, Submission(c) PROVE Account(v)
    <2>1. CASE Resume(c) /\ v = sub[c].conv
        BY <2>1, ContinuationGrants DEF Account
    <2>2. CASE Create(c)
        <3>1. PICK u \in Convs \ UsedConvs :
                /\ doc' = [doc EXCEPT ![u].status = "running"] /\ agent' = agent
                /\ \A w \in Convs : w # u => Untouched(w)
            BY <2>2, CreateLocal
        <3>2. CASE v = u
            BY <3>1, <3>2, CreationGrants DEF Account
        <3>3. CASE v # u
            BY <1>3, <3>1, <3>3
        <3> QED BY <3>2, <3>3
    <2>3. CASE Resume(c) /\ v # sub[c].conv
        BY <1>3, <2>3, ResumeLocal
    <2>4. CASE ~Resume(c) /\ ~Create(c)
        BY <1>2, <1>4, <2>4, SubmissionLocal
    <2> QED BY <2>1, <2>2, <2>3, <2>4
<1>5. ASSUME TaskStep(v) \/ Cancellation(v) \/ AbortJob(v) \/ Observe(v) PROVE Account(v)
    <2>1. ASSUME NEW a \in Agents, AgentStep(v, a) PROVE Account(v)
        BY <2>1, AgentsCount DEF Account
    <2>2. ASSUME NEW cost \in TokenCosts, Stall(v, cost) PROVE Account(v)
        <3>1. Main \in Agents
            BY DEF Agents
        <3> QED BY <2>2, <3>1, AgentsCount DEF Account
    <2> QED BY <1>5, <2>1, <2>2, PhasesSettled DEF Account, TaskStep, Cancellation
<1>6. ASSUME NEW u \in Convs, u # v,
             TaskStep(u) \/ Cancellation(u) \/ AbortJob(u) \/ Observe(u)
      PROVE  Account(v)
    BY <1>3, <1>6, TaskStepLocal
<1>7. ASSUME NEW c \in Clients, NEW keyed \in BOOLEAN, NEW b \in Budgets \cup {None},
             NEW t \in TokenBudgets \cup {None}, Submit(c, keyed, b, t)
      PROVE  Account(v)
    BY <1>2, <1>7 DEF Submit, durable, phase
<1>8. CASE Restart
    <2>1. task'[v].tokenBudget = task[v].tokenBudget
        <3>1. CASE task[v].state = "running"
            <4>1. task'[v] = [task[v] EXCEPT !.state = "ready"]
                BY <1>8, <3>1 DEF Restart
            <4> QED BY <1>1, <4>1 DEF Task
        <3>2. CASE task[v].state # "running"
            BY <1>8, <3>2 DEF Restart
        <3> QED BY <3>1, <3>2
    <2>2. Calling(v)' = {}
        BY <1>8 DEF Restart, Calling, NoAgents
    <2> QED BY <1>8, <2>1, <2>2 DEF Restart, Account, Settled
<1>9. CASE UNCHANGED vars
    BY <1>2, <1>9 DEF vars, durable, phase
<1> QED BY <1>4, <1>5, <1>6, <1>7, <1>8, <1>9 DEF Next

\* Hence every step keeps within the allowance what is in flight.
LEMMA NextInFlight ==
    ASSUME Inv, Inv', [Next]_vars, NEW v \in Convs, InFlight(v)
    PROVE  InFlight(v)'
<1>1. doc[v].tokens \in Nat /\ doc[v].tokenStart \in Nat
    BY Copies
<1>2. CASE Settled(v)
    BY <1>2, NothingSpent DEF Settled, TokensUsed
<1>3. ASSUME NEW a \in Agents, Counted(v, a) PROVE InFlight(v)'
    BY <1>3, CallReserved DEF Counted, TokensUsed, Active
<1>4. ASSUME NEW a \in Agents, NEW cost \in TokenCosts, ChargedFor(v, a, cost)
      PROVE  InFlight(v)'
    <2>1. TokensUsed(v)' = TokensUsed(v) + cost
        BY <1>1, <1>4, Figures DEF ChargedFor, TokensUsed
    <2> QED BY <1>4, <2>1, CallCharged DEF ChargedFor
<1>5. CASE Granted(v)
    <2>1. TokensUsed(v)' = 0
        BY <1>1, <1>5 DEF Granted, TokensUsed
    <2> QED BY <1>5, <2>1, FreshAllowance DEF Granted
<1> QED BY <1>2, <1>3, <1>4, <1>5, NextAccounts DEF Account

\* Nothing is in flight before the first submission.
LEMMA InitInFlight == Init => \A v \in Convs : InFlight(v)
<1> SUFFICES ASSUME Init, NEW v \in Convs PROVE InFlight(v)
    OBVIOUS
<1>1. task[v].tokenBudget = 0
    BY DEF Init, NewTask
<1> QED BY <1>1 DEF InFlight

\* However many agents call at once, a token budget is overrun by less than
\* one call per child: the check comes before the call, the charge after it
\* (token-budget.ts:14, document-task.ts:126).
THEOREM TokensAreBounded == Spec => []TokenOverrunBounded
<1> DEFINE All == \A v \in Convs : InFlight(v)
<1>1. Inv /\ Inv' /\ All /\ [Next]_vars => All'
    BY NextInFlight
<1>2. Inv /\ All => TokenOverrunBounded
    <2> SUFFICES ASSUME Inv, All, NEW v \in Convs, NEW most \in TokenCosts,
                        \A cost \in TokenCosts : cost <= most, task[v].tokenBudget > 0
                 PROVE  TokensUsed(v) < task[v].tokenBudget + most * Cardinality(Children)
        BY DEF TokenOverrunBounded
    <2>1. TokensUsed(v) + most * Cardinality(Calling(v))
             < task[v].tokenBudget + most * Cardinality(Children)
        BY DEF InFlight
    <2>2. /\ most \in Nat /\ TokensUsed(v) \in Int /\ task[v].tokenBudget \in Nat
          /\ Cardinality(Calling(v)) \in Nat /\ Cardinality(Children) \in Nat
        BY Figures, CallingFinite
    <2>3. most * Cardinality(Calling(v)) \in Nat /\ most * Cardinality(Children) \in Nat
        BY <2>2, Times
    <2> QED BY <2>1, <2>2, <2>3
<1>3. Init => All
    BY InitInFlight
<1> HIDE DEF All
<1> QED BY <1>1, <1>2, <1>3, Invariance, PTL DEF Spec

\* Requests and tokens are never forgotten, and only the explicit continuation
\* of a failed job gets a fresh token allowance (agent-worker.ts:279).
THEOREM AllowanceIsExplicit == Spec => AllowanceOnlyByContinuation
<1>1. ASSUME Inv, Inv', [Next]_vars, NEW v \in Convs
      PROVE  /\ doc'[v].attempts >= doc[v].attempts /\ doc'[v].tokens >= doc[v].tokens
             /\ doc'[v].tokenStart # doc[v].tokenStart =>
                   doc[v].status = "failed" /\ task'[v].n = task[v].n + 1
    <2>1. doc[v].attempts \in Nat /\ doc[v].tokens \in Nat /\ TokenCosts \subseteq Nat
        BY <1>1, Copies, ConstantsOK
    <2> QED BY <1>1, <2>1, NextAccounts DEF Account, Settled, Counted, ChargedFor, Granted
<1>2. Inv /\ Inv' /\ [Next]_vars =>
        [\A v \in Convs :
          /\ doc'[v].attempts >= doc[v].attempts /\ doc'[v].tokens >= doc[v].tokens
          /\ doc'[v].tokenStart # doc[v].tokenStart =>
                doc[v].status = "failed" /\ task'[v].n = task[v].n + 1]_vars
    BY <1>1
<1> QED BY <1>2, Invariance, PTL DEF Spec, AllowanceOnlyByContinuation

-----------------------------------------------------------------------------
(* One document never has two jobs, and DocumentJob implements JobPromise,
   as long as callers only ask for the newest job (the run "staleread" shows
   that reading an older one breaks it).

   A new job is created only by a submission that found every earlier one
   cancelled.  What makes that finding hold until the commit: submissions run
   one at a time, the record in memory names the newest conversation, and a
   cancelled conversation never comes back. *)

Busy(c) == sub[c].pc \notin {"idle", "waiting"}
Newest(v) == v \in UsedConvs /\ \A u \in UsedConvs : u <= v

\* The submission whose promise is shared is the only one under way.
OneSubmission == \A c \in Clients : Busy(c) => owner = c

\* Conversations are created in order, each after the one before was cancelled.
EarlierCancelled ==
    \A u, v \in Convs : u < v /\ v \in UsedConvs =>
        u \in UsedConvs /\ doc[u].status = "cancelled"

\* What a submission has found is still so.
FindingsHold ==
    \A c \in Clients :
        /\ sub[c].pc \in {"sync", "saved", "resume", "register"} => Newest(sub[c].conv)
        /\ sub[c].pc = "saved" => doc[sub[c].conv].status = "failed"
        /\ sub[c].pc \in {"key", "create"} => \A u \in UsedConvs : doc[u].status = "cancelled"

\* The record in memory names the newest job, unless one is being registered.
RecordIsNewest ==
    job # None /\ (\A c \in Clients : sub[c].pc # "register") => Newest(job.conv)

Single == OneSubmission /\ EarlierCancelled /\ FindingsHold /\ RecordIsNewest

\* What a step of a task may do to the document of its conversation.
Moves(v) ==
    \/ doc'[v].status = doc[v].status /\ doc'[v].previews = doc[v].previews
    \/ /\ doc[v].status = "running" /\ doc'[v].status = "running"
       /\ doc[v].previews \subseteq doc'[v].previews /\ doc'[v].previews \subseteq Children
    \/ /\ doc[v].status = "running" /\ doc'[v].status = "succeeded"
       /\ doc[v].previews = Children
    \/ /\ doc[v].status = "running" /\ doc'[v].status = "failed"
       /\ doc'[v].previews = doc[v].previews
    \/ /\ doc[v].status = "running" /\ doc'[v].status = "cancelled"
       /\ doc'[v].previews = {}

-----------------------------------------------------------------------------
(* What the steps of a task do. *)

\* Publishing, failing and being cancelled end a job that runs, each in its way.
LEMMA EndsMove ==
    ASSUME Inv, Inv', NEW v \in Convs, DurableConv(v),
           Publish(v) \/ FailTask(v) \/ AbortCommit(v)
    PROVE  Moves(v)
<1>1. /\ doc[v] \in Doc /\ task[v] \in Task /\ doc \in [Convs -> Doc] /\ task \in [Convs -> Task]
    BY Copies DEF Inv, TypeOK
<1>2. Live(v) /\ doc[v].status = "running"
    BY DEF Publish, FailTask, AbortCommit, DurableConv, StatusInPhase
<1>3. CASE Publish(v)
    <2>1. doc'[v].status = "succeeded"
        BY <1>1, <1>3 DEF Publish, Doc
    <2>2. frame[v].latest = task[v].work /\ task[v].phase = "run"
        BY <1>2, <1>3 DEF Publish, DurableConv, StatusInPhase
    <2>3. doc[v].previews = Submitted(task[v].work)
        BY <1>2, <2>2 DEF DurableConv, PreviewInPhase, DurableWork
    <2>4. Submitted(task[v].work) = Children
        BY <1>3, <2>2 DEF Publish, Inv, ConvInv, WorksWhole, Whole
    <2> QED BY <1>2, <2>1, <2>3, <2>4 DEF Moves
<1>4. CASE FailTask(v)
    BY <1>1, <1>2, <1>4 DEF FailTask, FailedDoc, Moves, Doc
<1>5. CASE AbortCommit(v)
    BY <1>1, <1>2, <1>5 DEF AbortCommit, Moves, Doc
<1> QED BY <1>3, <1>4, <1>5

\* A save adds sections to the preview and takes none away.
LEMMA SaveMoves ==
    ASSUME Inv, Inv', NEW v \in Convs, DurableConv(v), SaveCommit(v)
    PROVE  Moves(v)
<1>1. /\ doc[v] \in Doc /\ doc \in [Convs -> Doc] /\ task[v].work \in Work /\ task'[v].work \in Work
    BY Copies DEF Inv, TypeOK, Task
<1>2. /\ task[v].phase = "run" /\ doc[v].status = "running"
      /\ task'[v].work = Head(saves[v]).work /\ AtLeast(task'[v].work, task[v].work)
    BY SaveDurable
<1>3. doc[v].previews = Submitted(task[v].work)
    BY <1>2 DEF DurableConv, PreviewInPhase, DurableWork
<1>4. doc'[v].status = "running" /\ doc'[v].previews = Submitted(task'[v].work)
    BY <1>1, <1>2 DEF SaveCommit, Preview, Doc
<1>5. Submitted(task[v].work) \subseteq Submitted(task'[v].work)
    BY <1>1, <1>2, WorkOrder
<1> QED BY <1>2, <1>3, <1>4, <1>5 DEF Moves, Submitted

\* All other steps leave status and preview as they are.
LEMMA TaskStepMoves ==
    ASSUME Inv, Inv', NEW v \in Convs, DurableConv(v),
           TaskStep(v) \/ Cancellation(v) \/ AbortJob(v) \/ Observe(v)
    PROVE  Moves(v) /\ task'[v].n = task[v].n
<1>1. /\ doc[v] \in Doc /\ task[v] \in Task /\ doc \in [Convs -> Doc] /\ task \in [Convs -> Task]
    BY Copies DEF Inv, TypeOK
<1>2. CASE Publish(v) \/ FailTask(v) \/ AbortCommit(v)
    BY <1>1, <1>2, EndsMove DEF Publish, FailTask, AbortCommit, Task
<1>3. CASE SaveCommit(v)
    <2>1. task'[v].n = task[v].n
        <3>1. CASE frame[v].pc = "finish"
            BY <1>1, <1>3, <3>1 DEF SaveCommit, Task
        <3>2. CASE frame[v].pc # "finish"
            BY <1>1, <1>3, <3>2 DEF SaveCommit, Task
        <3> QED BY <3>1, <3>2
    <2> QED BY <1>3, <2>1, SaveMoves
<1>4. CASE Backoff(v) \/ Advance(v)
    <2>1. doc[v].status = "running"
        BY <1>4 DEF Backoff, Advance, DurableConv, StatusInPhase
    <2> QED BY <1>1, <1>4, <2>1 DEF Backoff, Advance, Moves, Doc, Task
<1>5. CASE \/ AwaitCredentials(v) \/ Wake(v) \/ BeginRun(v) \/ Restore(v)
           \/ \E state \in {"ready", "sleeping"} : RetryPhase(v, state)
    BY <1>1, <1>5 DEF AwaitCredentials, Wake, BeginRun, Restore, RetryPhase, Moves, Task
<1>6. CASE Join(v) \/ PhaseAborted(v) \/ Boundary(v) \/ DropKey(v)
    BY <1>6 DEF Join, PhaseAborted, Boundary, DropKey, Moves, durable
<1>7. CASE AbortDone(v) \/ AbortDropKey(v) \/ AbortJob(v) \/ Observe(v)
    BY <1>7 DEF AbortDone, AbortDropKey, AbortJob, Observe, Moves, durable
<1>8. ASSUME SameDoc(v), task' = task PROVE Moves(v) /\ task'[v].n = task[v].n
    BY <1>8 DEF SameDoc, Moves
<1>9. ASSUME NEW cost \in TokenCosts, Stall(v, cost) PROVE Moves(v) /\ task'[v].n = task[v].n
    BY <1>8, <1>9, ChargeSame DEF Stall
<1>10. ASSUME NEW a \in Agents, AgentStep(v, a) PROVE Moves(v) /\ task'[v].n = task[v].n
    <2>1. CASE Reserve(v, a) \/ LoopEnds(v, a) \/ Refuse(v, a)
        BY <1>1, <1>8, <2>1 DEF Reserve, LoopEnds, Refuse, durable, Doc, SameDoc
    <2>2. ASSUME NEW cost \in TokenCosts, NEW g \in {0, 1}, Answer(v, a, cost, g) PROVE SameDoc(v) /\ task' = task
        BY <2>2, ChargeSame DEF Answer
    <2>3. ASSUME NEW cost \in TokenCosts, NEW p \in BOOLEAN, Fail(v, a, cost, p)
          PROVE  SameDoc(v) /\ task' = task
        BY <2>3, ChargeSame DEF Fail
    <2>4. ASSUME NEW cost \in TokenCosts, Interrupted(v, a, cost)
          PROVE  SameDoc(v) /\ task' = task
        BY <1>1, <2>4 DEF Interrupted, Doc, SameDoc
    <2> QED BY <1>8, <1>10, <2>1, <2>2, <2>3, <2>4 DEF AgentStep
<1> QED BY <1>2, <1>3, <1>4, <1>5, <1>6, <1>7, <1>9, <1>10 DEF TaskStep, Cancellation

\* A job that is over stays as it ended, whatever the tasks do.
LEMMA TasksKeepFindings ==
    ASSUME Inv, Inv', Durable, NEW v \in Convs,
           TaskStep(v) \/ Cancellation(v) \/ AbortJob(v) \/ Observe(v)
    PROVE  \A u \in Convs :
              /\ task'[u].n = task[u].n
              /\ doc[u].status \in {"failed", "cancelled"} => doc'[u].status = doc[u].status
<1>1. Moves(v) /\ task'[v].n = task[v].n
    BY TaskStepMoves DEF Durable
<1>2. doc[v].status \in {"failed", "cancelled"} => doc'[v].status = doc[v].status
    BY <1>1 DEF Moves
<1> QED BY <1>1, <1>2, TaskStepLocal DEF Untouched

-----------------------------------------------------------------------------
(* One submission at a time. *)

\* While one submission is under way no other is.
LEMMA Alone ==
    ASSUME Single, NEW c \in Clients, NEW d \in Clients, Busy(c), d # c
    PROVE  ~Busy(d)
BY DEF Single, OneSubmission

\* Used conversations and findings, when no task is created or continued.
LEMMA SingleKept ==
    ASSUME Single, sub' = sub, owner' = owner,
           \A u \in Convs :
              /\ task'[u].n = task[u].n
              /\ doc[u].status \in {"failed", "cancelled"} => doc'[u].status = doc[u].status,
           job' = job \/ Newest(job'.conv), Inv
    PROVE  Single'
<1>1. UsedConvs' = UsedConvs
    BY DEF UsedConvs
<1>2. OneSubmission'
    BY DEF Single, OneSubmission, Busy
<1>3. EarlierCancelled'
    <2>1. UsedConvs \subseteq Convs
        BY DEF UsedConvs
    <2> QED BY <1>1, <2>1 DEF Single, EarlierCancelled
<1>4. FindingsHold'
    <2>1. \A c \in Clients : sub[c].pc = "saved" => sub[c].conv \in Convs
        BY DEF Inv, SubmissionHasConv
    <2>2. UsedConvs \subseteq Convs
        BY DEF UsedConvs
    <2> QED BY <1>1, <2>1, <2>2 DEF Single, FindingsHold, Newest
<1>5. RecordIsNewest'
    BY <1>1 DEF Single, RecordIsNewest, Newest
<1> QED BY <1>2, <1>3, <1>4, <1>5 DEF Single

\* The end of a submission answers everyone who waited for it.
LEMMA SettleSingle ==
    ASSUME Single, NEW c \in Clients, Busy(c), Settle(c), doc' = doc, task' = task,
           (job' = job /\ sub[c].pc # "register") \/ Newest(job'.conv)
    PROVE  Single'
<1>1. UsedConvs' = UsedConvs
    BY DEF UsedConvs
<1>2. ASSUME NEW d \in Clients PROVE ~Busy(d)' /\ sub'[d].pc \in {"idle", "waiting"}
    <2>1. CASE d = c
        BY <2>1 DEF Settle, Answered, NoSub, Busy
    <2>2. CASE d # c
        <3>1. ~Busy(d)
            BY <2>2, Alone
        <3>2. sub'[d] = NoSub \/ sub'[d] = sub[d]
            BY DEF Settle
        <3> QED BY <3>1, <3>2 DEF NoSub, Busy
    <2> QED BY <2>1, <2>2
<1>3. OneSubmission' /\ FindingsHold'
    BY <1>2 DEF OneSubmission, FindingsHold
<1>4. EarlierCancelled'
    BY <1>1 DEF Single, EarlierCancelled
<1>5. RecordIsNewest'
    <2>1. CASE Newest(job'.conv)
        BY <1>1, <2>1 DEF RecordIsNewest, Newest
    <2>2. CASE job' = job /\ sub[c].pc # "register"
        <3>1. \A d \in Clients : sub[d].pc # "register"
            BY <2>2, Alone DEF Busy
        <3> QED BY <1>1, <2>2, <3>1 DEF Single, RecordIsNewest, Newest
    <2> QED BY <2>1, <2>2
<1> QED BY <1>3, <1>4, <1>5 DEF Single

\* A submission that goes on.
LEMMA GoesOnSingle ==
    ASSUME Single, NEW c \in Clients, Busy(c), owner' = owner, doc' = doc, task' = task,
           \A d \in Clients : d # c => sub'[d] = sub[d],
           sub'[c].pc \in {"sync", "saved", "resume"} => Newest(sub'[c].conv),
           sub'[c].pc = "saved" => doc[sub'[c].conv].status = "failed",
           sub'[c].pc \in {"key", "create"} => \A u \in UsedConvs : doc[u].status = "cancelled",
           sub'[c].pc # "register" /\ sub[c].pc # "register",
           job' = job \/ job' = None \/ Newest(job'.conv)
    PROVE  Single'
<1>1. UsedConvs' = UsedConvs
    BY DEF UsedConvs
<1>2. \A d \in Clients : d # c => sub[d].pc \in {"idle", "waiting"} /\ sub'[d].pc = sub[d].pc
    BY Alone DEF Busy
<1>3. OneSubmission'
    BY <1>2 DEF Single, OneSubmission, Busy
<1>4. EarlierCancelled'
    BY <1>1 DEF Single, EarlierCancelled
<1>5. ASSUME NEW d \in Clients
      PROVE  /\ sub'[d].pc \in {"sync", "saved", "resume", "register"} => Newest(sub[d].conv)'
             /\ sub'[d].pc = "saved" => doc'[sub'[d].conv].status = "failed"
             /\ sub'[d].pc \in {"key", "create"} => \A u \in UsedConvs' : doc'[u].status = "cancelled"
    <2>1. CASE d = c
        BY <1>1, <2>1 DEF Newest
    <2>2. CASE d # c
        BY <1>2, <2>2
    <2> QED BY <2>1, <2>2
<1>6. FindingsHold'
    BY <1>5 DEF FindingsHold
<1>7. RecordIsNewest'
    <2>1. \A d \in Clients : sub[d].pc # "register"
        BY <1>2
    <2> QED BY <1>1, <2>1 DEF Single, RecordIsNewest, Newest
<1> QED BY <1>3, <1>4, <1>6, <1>7 DEF Single

\* Looking the job up finds the newest one, in memory or in storage.
LEMMA LookupSingle ==
    ASSUME Inv, Single, NEW c \in Clients, Lookup(c)
    PROVE  Single'
<1>1. Busy(c) /\ sub \in [Clients -> Sub] /\ sub[c] \in Sub
    BY DEF Lookup, Busy, Inv, TypeOK
<1>2. \A d \in Clients : sub[d].pc # "register"
    BY <1>1, Alone DEF Busy, Lookup
<1>3. owner' = owner /\ doc' = doc /\ task' = task
    BY DEF Lookup, durable
<1>4. CASE /\ job # None
           /\ sub' = [sub EXCEPT ![c].pc = "sync", ![c].conv = job.conv, ![c].n = job.n]
           /\ UNCHANGED job
    <2>1. Newest(job.conv)
        BY <1>2, <1>4 DEF Single, RecordIsNewest
    <2>2. sub'[c].pc = "sync" /\ sub'[c].conv = job.conv /\ \A d \in Clients : d # c => sub'[d] = sub[d]
        BY <1>1, <1>4 DEF Sub
    <2> QED BY <1>1, <1>3, <1>4, <2>1, <2>2, GoesOnSingle DEF Lookup
<1>5. ASSUME NEW v \in UsedConvs, \A u \in UsedConvs : u <= v,
             job' = [conv |-> v, n |-> task[v].n],
             sub' = [sub EXCEPT ![c].pc = "sync", ![c].conv = v, ![c].n = task[v].n]
      PROVE  Single'
    <2>1. Newest(v) /\ job'.conv = v
        BY <1>5 DEF Newest
    <2>2. sub'[c].pc = "sync" /\ sub'[c].conv = v /\ \A d \in Clients : d # c => sub'[d] = sub[d]
        BY <1>1, <1>5 DEF Sub
    <2> QED BY <1>1, <1>3, <2>1, <2>2, GoesOnSingle DEF Lookup
<1>6. CASE UsedConvs = {} /\ sub' = [sub EXCEPT ![c].pc = "key"] /\ UNCHANGED job
    <2>1. sub'[c].pc = "key" /\ \A d \in Clients : d # c => sub'[d] = sub[d]
        BY <1>1, <1>6 DEF Sub
    <2> QED BY <1>1, <1>3, <1>6, <2>1, GoesOnSingle DEF Lookup
<1> QED BY <1>4, <1>5, <1>6 DEF Lookup

\* The steps of a submission up to its commit, and its end.
LEMMA SubmissionSingle ==
    ASSUME Inv, Single, NEW c \in Clients,
           \/ SyncAttach(c) \/ SyncCancelled(c) \/ SyncFailed(c) \/ ReadSaved(c)
           \/ RejectKeyless(c) \/ RejectResume(c) \/ CheckKey(c) \/ Register(c)
    PROVE  Single'
<1>1. Busy(c) /\ sub \in [Clients -> Sub] /\ sub[c] \in Sub
    BY DEF SyncAttach, SyncCancelled, SyncFailed, ReadSaved, RejectKeyless, RejectResume,
           CheckKey, Register, Busy, Inv, TypeOK
<1>2. doc' = doc /\ task' = task
    BY DEF SyncAttach, SyncCancelled, SyncFailed, ReadSaved, RejectKeyless, RejectResume,
           CheckKey, Register, Reject, durable
<1>3. ASSUME NEW pc, Step(c, pc)
      PROVE  /\ owner' = owner /\ sub'[c].pc = pc /\ sub'[c].conv = sub[c].conv
             /\ \A d \in Clients : d # c => sub'[d] = sub[d]
    BY <1>1, <1>3 DEF Step, Sub
<1>4. CASE SyncAttach(c)
    BY <1>1, <1>2, <1>4, SettleSingle DEF SyncAttach
<1>5. CASE RejectKeyless(c) \/ RejectResume(c)
    BY <1>1, <1>2, <1>5, SettleSingle DEF RejectKeyless, RejectResume, Reject
<1>6. CASE Register(c)
    <2>1. Newest(sub[c].conv) /\ job'.conv = sub[c].conv
        BY <1>6 DEF Register, Single, FindingsHold
    <2> QED BY <1>1, <1>2, <1>6, <2>1, SettleSingle DEF Register
<1>7. CASE SyncCancelled(c)
    <2>1. Newest(sub[c].conv) /\ doc[sub[c].conv].status = "cancelled"
        BY <1>7 DEF SyncCancelled, Single, FindingsHold
    <2>2. ASSUME NEW u \in UsedConvs PROVE doc[u].status = "cancelled"
        <3>1. u \in Convs /\ sub[c].conv \in Convs /\ (u = sub[c].conv \/ u < sub[c].conv)
            BY <2>1 DEF Newest, UsedConvs, Convs
        <3> QED BY <2>1, <3>1 DEF Newest, Single, EarlierCancelled
    <2>3. Step(c, "key") /\ job' = None /\ sub[c].pc = "sync"
        BY <1>7 DEF SyncCancelled
    <2> QED BY <1>1, <1>2, <1>3, <2>2, <2>3, GoesOnSingle
<1>8. CASE SyncFailed(c)
    <2>1. Newest(sub[c].conv) /\ doc[sub[c].conv].status = "failed"
        BY <1>8 DEF SyncFailed, Single, FindingsHold
    <2>2. Step(c, "saved") /\ job' = job /\ sub[c].pc = "sync"
        BY <1>8 DEF SyncFailed
    <2> QED BY <1>1, <1>2, <1>3, <2>1, <2>2, GoesOnSingle
<1>9. CASE ReadSaved(c)
    <2>1. Newest(sub[c].conv) /\ doc[sub[c].conv].status = "failed" /\ sub[c].conv \in Convs
        BY <1>9 DEF ReadSaved, Single, FindingsHold, Newest, UsedConvs
    <2>2. saved[sub[c].conv] # None
        BY <2>1 DEF Inv, ConvInv, DocInPhase
    <2>3. Step(c, "resume") /\ job' = job /\ sub[c].pc = "saved"
        BY <1>9, <2>2 DEF ReadSaved
    <2> QED BY <1>1, <1>2, <1>3, <2>1, <2>3, GoesOnSingle
<1>10. CASE CheckKey(c)
    <2>1. \A u \in UsedConvs : doc[u].status = "cancelled"
        BY <1>10 DEF CheckKey, Single, FindingsHold
    <2>2. Step(c, "create") /\ job' = job /\ sub[c].pc = "key"
        BY <1>10 DEF CheckKey
    <2> QED BY <1>1, <1>2, <1>3, <2>1, <2>2, GoesOnSingle
<1> QED BY <1>4, <1>5, <1>6, <1>7, <1>8, <1>9, <1>10

\* A new call starts the only submission, or waits for it.
LEMMA SubmitSingle ==
    ASSUME Inv, Single, NEW c \in Clients, NEW keyed, NEW b, NEW t, Submit(c, keyed, b, t)
    PROVE  Single'
<1>1. sub \in [Clients -> Sub]
    BY DEF Inv, TypeOK
<1>2. /\ sub'[c].pc = Entry /\ sub[c].pc = "idle" /\ doc' = doc /\ task' = task /\ job' = job
      /\ owner' = IF owner = None THEN c ELSE owner
      /\ \A d \in Clients : d # c => sub'[d] = sub[d]
    BY <1>1 DEF Submit, NoSub, durable
<1>3. Entry \in {"lookup", "waiting"} /\ (owner # None => Entry = "waiting")
    BY DEF Entry
<1>4. UsedConvs' = UsedConvs
    BY <1>2 DEF UsedConvs
<1>5. OneSubmission'
    <2>1. ASSUME NEW d \in Clients, Busy(d)' PROVE owner' = d
        <3>1. CASE d = c
            BY <1>2, <1>3, <2>1, <3>1 DEF Busy
        <3>2. CASE d # c
            <4>1. Busy(d)
                BY <1>2, <2>1, <3>2 DEF Busy
            <4>2. owner = d /\ d # None
                BY <4>1, ConstantsOK DEF Single, OneSubmission
            <4> QED BY <1>2, <4>2
        <3> QED BY <3>1, <3>2
    <2> QED BY <2>1 DEF OneSubmission
<1>6. EarlierCancelled'
    BY <1>2, <1>4 DEF Single, EarlierCancelled
<1>7. FindingsHold'
    BY <1>2, <1>3, <1>4 DEF Single, FindingsHold, Newest
<1>8. RecordIsNewest'
    <2>1. (\A d \in Clients : sub'[d].pc # "register") => \A d \in Clients : sub[d].pc # "register"
        BY <1>2
    <2> QED BY <1>2, <1>4, <2>1 DEF Single, RecordIsNewest, Newest
<1> QED BY <1>5, <1>6, <1>7, <1>8 DEF Single

\* The commit of a continuation is of the newest conversation, which had failed.
LEMMA ResumeSingle ==
    ASSUME Inv, Single, NEW c \in Clients, Resume(c), NEW v \in Convs, v = sub[c].conv
    PROVE  /\ Single' /\ Newest(v)
           /\ doc[v].status = "failed" /\ doc'[v].status = "running"
           /\ doc'[v].previews = doc[v].previews
<1>1. /\ sub \in [Clients -> Sub] /\ task \in [Convs -> Task] /\ task[v] \in Task
      /\ doc \in [Convs -> Doc] /\ doc[v] \in Doc
    BY Copies DEF Inv, TypeOK
<1>2. Busy(c) /\ Newest(v) /\ doc[v].status = "failed"
    BY DEF Resume, Resumable, Busy, Single, FindingsHold
<1>3. /\ owner' = owner /\ job' = job /\ sub'[c].pc = "register" /\ sub'[c].conv = v
      /\ \A d \in Clients : d # c => sub'[d] = sub[d]
    BY <1>1 DEF Resume, Sub
<1>4. /\ \A u \in Convs : u # v => doc'[u] = doc[u] /\ task'[u] = task[u]
      /\ task'[v].n = task[v].n + 1 /\ doc'[v].status = "running"
      /\ doc'[v].previews = doc[v].previews
    BY <1>1 DEF Resume, ContinuedDoc, NewTask, Doc
<1>5. task[v].n \in Nat /\ task[v].n > 0
    BY <1>1, <1>2 DEF Task, Newest, UsedConvs
<1>6. UsedConvs' = UsedConvs
    BY <1>4, <1>5 DEF UsedConvs
<1>7. \A d \in Clients : d # c => sub[d].pc \in {"idle", "waiting"} /\ sub'[d].pc = sub[d].pc
    BY <1>2, <1>3, Alone DEF Busy
<1>8. OneSubmission'
    BY <1>2, <1>3, <1>7 DEF Single, OneSubmission, Busy
<1>9. EarlierCancelled'
    <2>1. ASSUME NEW u \in Convs, NEW w \in Convs, u < w, w \in UsedConvs
          PROVE  u \in UsedConvs /\ doc'[u].status = "cancelled"
        <3>1. u \in UsedConvs /\ doc[u].status = "cancelled"
            BY <2>1 DEF Single, EarlierCancelled
        <3>2. u # v
            BY <1>2, <3>1
        <3> QED BY <1>4, <3>1, <3>2
    <2> QED BY <1>6, <2>1 DEF EarlierCancelled
<1>10. Newest(v)'
    BY <1>2, <1>6 DEF Newest
<1>11. FindingsHold'
    <2>1. ASSUME NEW d \in Clients, sub'[d].pc \in {"sync", "saved", "resume", "register", "key", "create"}
          PROVE  d = c
        BY <1>7, <2>1
    <2> QED BY <1>3, <1>10, <2>1 DEF FindingsHold
<1>12. RecordIsNewest'
    BY <1>3 DEF RecordIsNewest
<1> QED BY <1>2, <1>4, <1>8, <1>9, <1>11, <1>12 DEF Single

\* A job is created when every earlier one is cancelled.
LEMMA CreateSingle ==
    ASSUME Inv, Single, NEW c \in Clients, Create(c)
    PROVE  /\ Single'
           /\ \E v \in Convs :
                 /\ \A u \in Convs : u # v => Untouched(u)
                 /\ v \notin UsedConvs /\ \A u \in UsedConvs : doc[u].status = "cancelled"
                 /\ doc[v] = NewDoc /\ doc' = [doc EXCEPT ![v].status = "running"]
<1>1. sub \in [Clients -> Sub] /\ task \in [Convs -> Task] /\ doc \in [Convs -> Doc]
    BY DEF Inv, TypeOK
<1>2. PICK v \in Convs \ UsedConvs :
              /\ \A u \in Convs \ UsedConvs : v <= u
              /\ task' = [task EXCEPT ![v] =
                           [NewTask EXCEPT !.n = 1, !.state = "ready", !.budget = Budget(c, 0),
                                           !.tokenBudget = TokenBudget(c, DefaultTokens)]]
              /\ doc' = [doc EXCEPT ![v].status = "running"]
              /\ sub' = [sub EXCEPT ![c].pc = "register", ![c].conv = v, ![c].n = 1]
              /\ \A u \in Convs : u # v => Untouched(u)
    BY CreateLocal
<1>3. /\ Busy(c) /\ owner' = owner /\ job' = job
      /\ \A u \in UsedConvs : doc[u].status = "cancelled"
    BY DEF Create, Busy, Single, FindingsHold
<1>4. /\ sub'[c].pc = "register" /\ sub'[c].conv = v
      /\ \A d \in Clients : d # c => sub'[d] = sub[d]
    BY <1>1, <1>2 DEF Sub
<1>5. UsedConvs' = UsedConvs \cup {v}
    <2>1. task'[v].n = 1
        BY <1>1, <1>2 DEF NewTask
    <2> QED BY <1>2, <2>1 DEF UsedConvs, Untouched
<1>6. \A d \in Clients : d # c => sub[d].pc \in {"idle", "waiting"} /\ sub'[d].pc = sub[d].pc
    BY <1>3, <1>4, Alone DEF Busy
<1>7. OneSubmission'
    BY <1>3, <1>4, <1>6 DEF Single, OneSubmission, Busy
<1>8. v \in Int /\ \A u \in Convs : u \in Int
    BY DEF Convs
<1>9. EarlierCancelled'
    <2>1. ASSUME NEW u \in Convs, NEW w \in Convs, u < w, w \in UsedConvs \cup {v}
          PROVE  u \in UsedConvs /\ doc'[u].status = "cancelled"
        <3>1. u \in UsedConvs
            BY <1>2, <1>8, <2>1 DEF Single, EarlierCancelled
        <3>2. u # v
            BY <1>2, <3>1
        <3> QED BY <1>2, <1>3, <3>1, <3>2 DEF Untouched
    <2> QED BY <1>5, <2>1 DEF EarlierCancelled
<1>10. Newest(v)'
    <2>1. ASSUME NEW u \in UsedConvs PROVE u <= v
        <3>1. u \in Convs
            BY DEF UsedConvs
        <3>2. ~(v < u)
            BY <1>2, <3>1 DEF Single, EarlierCancelled
        <3> QED BY <1>8, <3>1, <3>2
    <2> QED BY <1>5, <1>8, <2>1 DEF Newest
<1>11. FindingsHold'
    <2>1. ASSUME NEW d \in Clients, sub'[d].pc \in {"sync", "saved", "resume", "register", "key", "create"}
          PROVE  d = c
        BY <1>6, <2>1
    <2> QED BY <1>4, <1>10, <2>1 DEF FindingsHold
<1>12. RecordIsNewest'
    BY <1>4 DEF RecordIsNewest
<1>13. doc[v] = NewDoc
    <2>1. task[v].n = 0
        BY <1>1, <1>2 DEF UsedConvs, Task
    <2> QED BY <2>1 DEF Inv, ConvInv, DocInPhase
<1> QED BY <1>2, <1>3, <1>7, <1>9, <1>11, <1>12, <1>13 DEF Single

\* After a restart nobody is submitting and nothing is remembered.
LEMMA RestartSingle ==
    ASSUME Inv, Single, Restart
    PROVE  Single'
<1>1. doc' = doc /\ job' = None /\ \A c \in Clients : sub'[c] = NoSub
    BY DEF Restart
<1>2. UsedConvs' = UsedConvs
    <2>1. ASSUME NEW v \in Convs PROVE task'[v].n = task[v].n
        <3>1. task[v] \in Task
            BY Copies
        <3>2. CASE task[v].state = "running"
            <4>1. task'[v] = [task[v] EXCEPT !.state = "ready"]
                BY <3>2 DEF Restart
            <4> QED BY <3>1, <4>1 DEF Task
        <3>3. CASE task[v].state # "running"
            BY <3>3 DEF Restart
        <3> QED BY <3>2, <3>3
    <2> QED BY <2>1 DEF UsedConvs
<1>3. OneSubmission' /\ FindingsHold' /\ RecordIsNewest'
    BY <1>1 DEF OneSubmission, FindingsHold, RecordIsNewest, Busy, NoSub
<1>4. EarlierCancelled'
    BY <1>1, <1>2 DEF Single, EarlierCancelled
<1> QED BY <1>3, <1>4 DEF Single

\* Every step keeps it to one submission and one live job, as long as callers
\* do not ask for older ones.
LEMMA NextSingle ==
    ASSUME Inv, Inv', Durable, Single, [Next]_vars, ReadOld = FALSE
    PROVE  Single'
<1>1. CASE UNCHANGED vars
    BY <1>1, SingleKept DEF vars
<1>2. ASSUME NEW c \in Clients, Submission(c) PROVE Single'
    <2>1. ASSUME Resume(c) PROVE Single'
        <3>1. sub[c].conv \in Convs
            BY <2>1 DEF Resume, Inv, SubmissionHasConv
        <3> QED BY <2>1, <3>1, ResumeSingle
    <2> QED BY <1>2, <2>1, LookupSingle, SubmissionSingle, CreateSingle DEF Submission
<1>3. ASSUME NEW v \in Convs, TaskStep(v) \/ Cancellation(v) \/ AbortJob(v) \/ Observe(v)
      PROVE  Single'
    <2>1. sub' = sub /\ owner' = owner
        <3>1. CASE AbortJob(v) \/ Observe(v) \/ Cancellation(v)
            BY <3>1 DEF AbortJob, Observe, Cancellation, AbortDone, AbortDropKey, AbortCommit, api
        <3>2. ASSUME NEW a \in Agents, AgentStep(v, a) PROVE sub' = sub /\ owner' = owner
            BY <3>2 DEF AgentStep, Reserve, Refuse, LoopEnds, Answer, Fail, Interrupted, api
        <3>3. CASE TaskStep(v)
            BY <3>2, <3>3 DEF TaskStep, Restore, BeginRun, Publish, AwaitCredentials, Backoff, Wake,
                   Advance, Join, SaveCommit, PhaseAborted, Boundary, FailTask, DropKey, RetryPhase,
                   Stall, api
        <3> QED BY <1>3, <3>1, <3>2, <3>3
    <2>2. job' = job \/ Newest(job'.conv)
        <3>1. CASE Observe(v)
            BY <3>1 DEF Observe, Newest
        <3>2. CASE AbortJob(v) \/ Cancellation(v)
            BY <3>2 DEF AbortJob, Cancellation, AbortDone, AbortDropKey, AbortCommit, api
        <3>3. ASSUME NEW a \in Agents, AgentStep(v, a) PROVE job' = job
            BY <3>3 DEF AgentStep, Reserve, Refuse, LoopEnds, Answer, Fail, Interrupted, api
        <3>4. CASE TaskStep(v)
            BY <3>3, <3>4 DEF TaskStep, Restore, BeginRun, Publish, AwaitCredentials, Backoff, Wake,
                   Advance, Join, SaveCommit, PhaseAborted, Boundary, FailTask, DropKey, RetryPhase,
                   Stall, api
        <3> QED BY <1>3, <3>1, <3>2, <3>3, <3>4
    <2> QED BY <1>3, <2>1, <2>2, TasksKeepFindings, SingleKept
<1> QED BY <1>1, <1>2, <1>3, SubmitSingle, RestartSingle DEF Next

\* Nothing is submitted or remembered at first.
LEMMA InitSingle == Init => Single
BY DEF Init, Single, OneSubmission, EarlierCancelled, FindingsHold, RecordIsNewest, Busy,
       NoSub, UsedConvs, NewTask

\* Submissions, continuations, cancellations and restarts never leave two
\* conversations translating the same document (agent-worker.ts:198), when
\* callers only ask for the newest job.
THEOREM OneJobAtATime ==
    ASSUME ReadOld = FALSE
    PROVE  Spec => []OneLiveJob
<1>1. Inv /\ Inv' /\ Durable /\ Single /\ [Next]_vars => Single'
    BY NextSingle
<1>2. Inv /\ Durable /\ Single => OneLiveJob
    <2> SUFFICES ASSUME Inv, Durable, Single, NEW u \in Convs, NEW v \in Convs,
                        doc[u].status = "running", doc[v].status = "running", u < v
                 PROVE  FALSE
        BY DEF OneLiveJob, Convs
    <2>1. task[v].n > 0
        <3>1. Live(v) /\ task[v] \in Task
            BY Copies DEF Durable, DurableConv, StatusInPhase
        <3>2. task[v].n # 0
            BY <3>1 DEF Live, Inv, ConvInv, DocInPhase
        <3> QED BY <3>1, <3>2 DEF Task
    <2>2. v \in UsedConvs
        BY <2>1 DEF UsedConvs
    <2> QED BY <2>2 DEF Single, EarlierCancelled
<1> QED BY <1>1, <1>2, InitSingle, Invariance, DurableHolds, PTL DEF Spec

-----------------------------------------------------------------------------
(* The refinement of JobPromise. *)

\* The promise's view of a job: what was submitted is the preview, and all of
\* it once the job is published.
View(v) == IF doc[v].status = "succeeded" THEN Children ELSE doc[v].previews

\* The invariants make the two views of a job one.
LEMMA ViewIsSubmitted ==
    ASSUME Inv, Durable
    PROVE  SubmittedSections = [v \in Convs |-> View(v)]
<1> SUFFICES ASSUME NEW v \in Convs
             PROVE  (IF doc[v].status \in {"none", "cancelled"} THEN {}
                     ELSE Submitted(DurableWork(v))) = View(v)
    BY DEF SubmittedSections
<1>1. doc[v].status \in {"none", "running", "failed", "succeeded", "cancelled"}
    BY Copies DEF Doc, Statuses
<1>2. CASE doc[v].status = "none"
    BY <1>2 DEF View, Durable, DurableConv, StatusInPhase, Inv, ConvInv, DocInPhase, NewDoc
<1>3. CASE doc[v].status = "cancelled"
    BY <1>3 DEF View, Durable, DurableConv, StatusInPhase, Inv, ConvInv, DocInPhase
<1>4. CASE doc[v].status \in {"running", "failed"}
    BY <1>4 DEF View, Durable, DurableConv, PreviewInPhase
<1>5. CASE doc[v].status = "succeeded"
    <2>1. saved[v] = None /\ Submitted(task[v].work) = Children
        BY <1>5 DEF Durable, DurableConv, StatusInPhase, Inv, ConvInv, DocInPhase
    <2> QED BY <1>5, <2>1 DEF View, DurableWork
<1> QED BY <1>1, <1>2, <1>3, <1>4, <1>5

\* The variables of the promise, when one conversation's document changes.
StatusOf == [v \in Convs |-> doc[v].status]
ViewOf == [v \in Convs |-> View(v)]


\* A step of one conversation changes one entry of each.
LEMMA OneView ==
    ASSUME NEW v \in Convs, \A u \in Convs : u # v => doc'[u] = doc[u]
    PROVE  /\ StatusOf' = [StatusOf EXCEPT ![v] = doc'[v].status]
           /\ ViewOf' = [ViewOf EXCEPT ![v] = View(v)']
           /\ \A u \in Convs : StatusOf[u] = doc[u].status /\ ViewOf[u] = View(u)
BY DEF StatusOf, ViewOf, View

\* A step of the promise, in the variables of the job.
PromiseStep ==
    \/ UNCHANGED <<StatusOf, ViewOf>>
    \/ \E v \in Convs :
         \/ /\ \A u \in Convs : StatusOf[u] # "running"
            /\ StatusOf[v] \in {"none", "failed"}
            /\ StatusOf' = [StatusOf EXCEPT ![v] = "running"] /\ ViewOf' = ViewOf
         \/ /\ StatusOf[v] = "running" /\ StatusOf' = StatusOf
            /\ \E more \in SUBSET Children : ViewOf' = [ViewOf EXCEPT ![v] = @ \cup more]
         \/ /\ StatusOf[v] = "running" /\ ViewOf' = ViewOf
            /\ StatusOf' = [StatusOf EXCEPT ![v] = "failed"]
         \/ /\ StatusOf[v] = "running" /\ ViewOf[v] = Children /\ ViewOf' = ViewOf
            /\ StatusOf' = [StatusOf EXCEPT ![v] = "succeeded"]
         \/ /\ StatusOf[v] = "running" /\ ViewOf' = [ViewOf EXCEPT ![v] = {}]
            /\ StatusOf' = [StatusOf EXCEPT ![v] = "cancelled"]

\* The view is what is submitted, in every state and in the next one.
LEMMA ViewNow == Inv /\ Durable => SubmittedSections = ViewOf
BY ViewIsSubmitted DEF ViewOf

\* The same of the next state.
LEMMA ViewNext == (Inv /\ Durable => SubmittedSections = ViewOf)'
BY ViewNow, PTL

\* Such a step is a step of JobPromise.
LEMMA PromiseStepIsNext ==
    ASSUME Inv, Inv', Durable, Durable', PromiseStep
    PROVE  [Promise!Next]_Promise!vars
<1>1. SubmittedSections = ViewOf /\ SubmittedSections' = ViewOf'
    BY ViewNow, ViewNext
<1>2. [v \in Convs |-> doc[v].status] = StatusOf
    BY DEF StatusOf
<1> QED
    BY <1>1, <1>2
       DEF PromiseStep, StatusOf, Promise!Next, Promise!vars, Promise!Start, Promise!SubmitSections,
           Promise!Fail, Promise!Continue, Promise!Publish, Promise!Cancel, Promise!Become

\* A step of a task is a step of the promise.
LEMMA MovesPromised ==
    ASSUME Inv, NEW v \in Convs, Moves(v), \A u \in Convs : u # v => doc'[u] = doc[u]
    PROVE  PromiseStep
<1>1. /\ StatusOf' = [StatusOf EXCEPT ![v] = doc'[v].status]
      /\ ViewOf' = [ViewOf EXCEPT ![v] = View(v)']
      /\ StatusOf[v] = doc[v].status /\ ViewOf[v] = View(v)
    BY OneView
<1>2. \A w : (w = StatusOf[v] => [StatusOf EXCEPT ![v] = w] = StatusOf)
             /\ (w = ViewOf[v] => [ViewOf EXCEPT ![v] = w] = ViewOf)
    BY DEF StatusOf, ViewOf
<1>3. View(v)' = IF doc'[v].status = "succeeded" THEN Children ELSE doc'[v].previews
    BY DEF View
<1>4. CASE doc'[v].status = doc[v].status /\ doc'[v].previews = doc[v].previews
    <2>1. View(v)' = View(v)
        BY <1>3, <1>4 DEF View
    <2> QED BY <1>1, <1>2, <1>4, <2>1 DEF PromiseStep
<1>5. CASE /\ doc[v].status = "running" /\ doc'[v].status = "running"
           /\ doc[v].previews \subseteq doc'[v].previews /\ doc'[v].previews \subseteq Children
    <2>1. View(v)' = View(v) \cup doc'[v].previews /\ doc'[v].previews \in SUBSET Children
        BY <1>3, <1>5 DEF View
    <2>2. StatusOf[v] = "running" /\ StatusOf' = StatusOf
        BY <1>1, <1>2, <1>5
    <2>3. ViewOf' = [ViewOf EXCEPT ![v] = ViewOf[v] \cup doc'[v].previews]
        BY <1>1, <2>1
    <2> QED BY <2>1, <2>2, <2>3 DEF PromiseStep
<1>6. CASE /\ doc[v].status = "running" /\ doc'[v].status = "succeeded"
           /\ doc[v].previews = Children
    <2>1. View(v)' = Children /\ View(v) = Children
        BY <1>3, <1>6 DEF View
    <2> QED BY <1>1, <1>2, <1>6, <2>1 DEF PromiseStep
<1>7. CASE /\ doc[v].status = "running" /\ doc'[v].status = "failed"
           /\ doc'[v].previews = doc[v].previews
    <2>1. View(v)' = View(v)
        BY <1>3, <1>7 DEF View
    <2> QED BY <1>1, <1>2, <1>7, <2>1 DEF PromiseStep
<1>8. CASE /\ doc[v].status = "running" /\ doc'[v].status = "cancelled"
           /\ doc'[v].previews = {}
    <2>1. View(v)' = {}
        BY <1>3, <1>8
    <2> QED BY <1>1, <1>2, <1>8, <2>1 DEF PromiseStep
<1> QED BY <1>4, <1>5, <1>6, <1>7, <1>8 DEF Moves

\* The commit that creates or continues a job finds no other one running.
LEMMA StartPromised ==
    ASSUME Inv, Durable, NEW v \in Convs, doc[v].status \in {"none", "failed"},
           doc'[v].status = "running", doc'[v].previews = doc[v].previews,
           \A u \in Convs : u # v => doc'[u] = doc[u] /\ doc[u].status # "running"
    PROVE  PromiseStep
<1>1. /\ StatusOf' = [StatusOf EXCEPT ![v] = "running"]
      /\ ViewOf' = [ViewOf EXCEPT ![v] = View(v)']
      /\ \A u \in Convs : StatusOf[u] = doc[u].status /\ ViewOf[u] = View(u)
    BY OneView
<1>2. View(v)' = View(v)
    BY DEF View
<1>3. ViewOf' = ViewOf
    BY <1>1, <1>2 DEF ViewOf
<1> QED BY <1>1, <1>3 DEF PromiseStep

\* Steps that leave every document alone.
LEMMA QuietPromised == ASSUME doc' = doc PROVE PromiseStep
BY DEF PromiseStep, StatusOf, ViewOf, View

\* Every step of the job is a step of the promise.
LEMMA NextPromised ==
    ASSUME Inv, Inv', Durable, Single, [Next]_vars
    PROVE  PromiseStep
<1>1. CASE UNCHANGED vars
    BY <1>1, QuietPromised DEF vars
<1>2. \A v \in Convs : v \notin UsedConvs => doc[v].status = "none"
    BY Copies DEF UsedConvs, Task, Inv, ConvInv, DocInPhase, NewDoc
<1>3. ASSUME NEW c \in Clients, Submission(c) PROVE PromiseStep
    <2>1. CASE Resume(c)
        <3>1. PICK v \in Convs : v = sub[c].conv
            BY <2>1 DEF Resume, Inv, SubmissionHasConv
        <3>2. /\ Newest(v) /\ doc[v].status = "failed" /\ doc'[v].status = "running"
              /\ doc'[v].previews = doc[v].previews
            BY <2>1, <3>1, ResumeSingle
        <3>3. ASSUME NEW u \in Convs, u # v PROVE doc[u].status # "running"
            <4>1. CASE u \in UsedConvs
                <5>1. u < v /\ v \in UsedConvs
                    BY <3>2, <3>3, <4>1 DEF Newest, Convs
                <5> QED BY <5>1 DEF Single, EarlierCancelled
            <4>2. CASE u \notin UsedConvs
                BY <1>2, <4>2
            <4> QED BY <4>1, <4>2
        <3> QED BY <2>1, <3>1, <3>2, <3>3, ResumeLocal, StartPromised DEF Untouched
    <2>2. CASE Create(c)
        <3>1. PICK v \in Convs :
                 /\ \A u \in Convs : u # v => Untouched(u)
                 /\ v \notin UsedConvs /\ \A u \in UsedConvs : doc[u].status = "cancelled"
                 /\ doc[v] = NewDoc /\ doc' = [doc EXCEPT ![v].status = "running"]
            BY <2>2, CreateSingle
        <3>2. doc[v].status = "none" /\ doc'[v].status = "running" /\ doc'[v].previews = doc[v].previews
            BY <3>1 DEF NewDoc, Inv, TypeOK
        <3>3. \A u \in Convs : u # v => doc[u].status # "running"
            BY <1>2, <3>1
        <3> QED BY <3>1, <3>2, <3>3, StartPromised DEF Untouched
    <2>3. CASE ~Resume(c) /\ ~Create(c)
        BY <1>3, <2>3, SubmissionLocal, QuietPromised DEF durable
    <2> QED BY <2>1, <2>2, <2>3
<1>4. ASSUME NEW v \in Convs, TaskStep(v) \/ Cancellation(v) \/ AbortJob(v) \/ Observe(v)
      PROVE  PromiseStep
    BY <1>4, TaskStepMoves, TaskStepLocal, MovesPromised DEF Durable, Untouched
<1>5. ASSUME NEW c \in Clients, NEW keyed \in BOOLEAN, NEW b \in Budgets \cup {None},
             NEW t \in TokenBudgets \cup {None}, Submit(c, keyed, b, t)
      PROVE  PromiseStep
    BY <1>5, QuietPromised DEF Submit, durable
<1>6. CASE Restart
    BY <1>6, QuietPromised DEF Restart
<1> QED BY <1>1, <1>3, <1>4, <1>5, <1>6 DEF Next

\* A system in which nothing was submitted has promised nothing.
LEMMA InitPromised == Init => Promise!Init
<1> SUFFICES ASSUME Init PROVE Promise!Init
    OBVIOUS
<1>1. \A v \in Convs : doc[v].status = "none"
    BY DEF Init, NewDoc
<1> QED BY <1>1 DEF Promise!Init, SubmittedSections

\* The worker and its task implement JobPromise: one job at a time, sections
\* kept through failures, publication whole, cancellation final, when callers
\* only ask for the newest job.
THEOREM JobKeepsPromise ==
    ASSUME ReadOld = FALSE
    PROVE  Spec => KeepsPromise
<1>1. Inv /\ Inv' /\ Durable /\ Single /\ [Next]_vars => Single'
    BY NextSingle
<1>2. Inv /\ Inv' /\ Durable /\ Durable' /\ Single /\ [Next]_vars
        => [Promise!Next]_Promise!vars
    BY NextPromised, PromiseStepIsNext
<1> QED
    BY <1>1, <1>2, InitSingle, InitPromised, Invariance, DurableHolds, PTL
       DEF Spec, KeepsPromise, Promise!Spec
=============================================================================
