--------------------------- MODULE TranslationTeam ---------------------------
(***************************************************************************)
(* The tool protocol of a translation team (worker/translation-team.ts).   *)
(* The main agent plans, dispatches children that each own a section of    *)
(* the source, waits until all have submitted, reviews and corrects the    *)
(* merged draft, accepts a revision, closes the children and submits.      *)
(*                                                                         *)
(* A main turn works on a copy of the team: its tool calls are applied one *)
(* by one, a refused call changes nothing, and the whole turn is kept when *)
(* it ends or lost when the worker stops in between.  The variables are    *)
(* that copy while a turn is open, and `checkpoint` is what survives.      *)
(* Children work on copies of their own and merge when they submit.  How   *)
(* checkpoints are written while children run, and what a failing child    *)
(* does to the job, is module DocumentTask.                                *)
(***************************************************************************)
EXTENDS SubtitleAgent, Coverage

CONSTANTS
    Cues,           \* length of the source
    None,           \* "no value"
    MaxSubagents,   \* assignments besides the opening (9 in the code)
    StreamOpening,  \* the task asks for an opening section
    OpeningMin, OpeningMax, \* where the opening may end
    PlanningLimit, ReviewLimit, \* turns of a main phase (24; 48 or more)
    StallLimit,     \* turns without progress (12)
    MaxCalls,       \* tool calls of a main turn (32)
    Tools,          \* bound: the tools the main agent uses in an instance
    MaxRevision,    \* bound: corrections of the merged draft stop here
    MaxEdits,       \* bound: edits of a child
    MaxLost,        \* bound: main turns lost to a restart
    MaxContinues    \* bound: continuations after the watchdog fired

ASSUME ConstantsOK ==
    /\ Cues \in Nat \ {0}
    /\ None \notin Workspace(0 .. Cues - 1) \cup Drafts(0 .. Cues - 1)
    /\ MaxSubagents \in Nat
    /\ StreamOpening \in BOOLEAN
    /\ OpeningMin \in Nat /\ OpeningMax \in Nat
    /\ PlanningLimit \in Nat /\ ReviewLimit \in Nat /\ StallLimit \in Nat
    /\ MaxCalls \in Nat /\ MaxRevision \in Nat /\ MaxEdits \in Nat
    /\ MaxLost \in Nat /\ MaxContinues \in Nat

Positions == 0 .. Cues - 1
Slots == 1 .. MaxSubagents + 1

VARIABLES
    stage, draft, revision, validatedRevision,  \* the main workspace
    children,           \* the sections, in source order
    acceptedRevision,
    progress,           \* plan and review evidence (MainProgress)
    guard,              \* the watchdog (MainProgress.guard)
    open, calls,        \* a main turn is being executed; its calls so far
    checkpoint,         \* the team as last committed
    copies,             \* the workspace a child's turn is working on
    stopped,            \* the watchdog ended the task
    shown, approved,    \* history: texts read_bilingual last returned, the
                        \* draft that was last accepted
    lost, continues     \* bookkeeping of the bounds

team == <<stage, draft, revision, validatedRevision, children, acceptedRevision,
          progress, guard, shown, approved>>
control == <<open, calls, checkpoint, copies, stopped, lost, continues>>
vars == <<team, control>>

-----------------------------------------------------------------------------
(* The state of the team. *)

Section(child) == child.first .. child.last

Child == [first: Positions, last: Positions,
          status: {"running", "completed", "closed"}, agent: Workspace(Positions)]

Progress ==
    [plan: BOOLEAN, sourceRead: SUBSET Positions, translationRead: SUBSET Positions,
     reviewRead: SUBSET Positions, reviewed: SUBSET Positions,
     reviewRevision: Nat, checklist: Nat \cup {-1}]
NewProgress ==
    [plan |-> FALSE, sourceRead |-> {}, translationRead |-> {}, reviewRead |-> {},
     reviewed |-> {}, reviewRevision |-> 0, checklist |-> -1]

Guard == [phase: {"planning", "review"}, turns: Nat, stalled: Nat]

Snapshot ==
    [stage |-> stage, draft |-> draft, revision |-> revision,
     validatedRevision |-> validatedRevision, children |-> children,
     acceptedRevision |-> acceptedRevision, progress |-> progress, guard |-> guard,
     shown |-> shown, approved |-> approved]

Init ==
    /\ stage = "editing" /\ draft = EmptyDraft
    /\ revision = 0 /\ validatedRevision = -1
    /\ children = << >>
    /\ acceptedRevision = -1
    /\ progress = NewProgress
    /\ guard = [phase |-> "planning", turns |-> 0, stalled |-> 0]
    /\ open = FALSE /\ calls = 0
    /\ copies = [k \in Slots |-> None]
    /\ stopped = FALSE
    /\ shown = [i \in Positions |-> Blank]
    /\ approved = None
    /\ lost = 0 /\ continues = 0
    /\ checkpoint = Snapshot

Running == {k \in DOMAIN children : children[k].status = "running"}
Completed == children # << >> /\ Running = {}

\* Mutant: any acceptance will do.
AcceptedOnce == Completed /\ acceptedRevision # -1

Accepted == Completed /\ acceptedRevision = revision

AllClosed == \A k \in DOMAIN children : children[k].status = "closed"

TextOf(d, i) == IF i \in DOMAIN d THEN d[i] ELSE Blank

\* Mutant: evidence is kept although the draft has changed.
RefreshedNever(p, rev) == [p EXCEPT !.reviewRevision = rev]

\* Mutant: the plan goes with the evidence.
RefreshedWhole(p, rev) ==
    IF p.reviewRevision = rev THEN p ELSE [NewProgress EXCEPT !.reviewRevision = rev]

\* Evidence of another revision says nothing; the plan stays.
Refreshed(p, rev) ==
    IF p.reviewRevision = rev THEN p
    ELSE [NewProgress EXCEPT !.plan = p.plan, !.sourceRead = p.sourceRead,
                             !.reviewRevision = rev]

\* A correction voids the evidence of the cues it changes, and no other.
Invalidated(p, rev, changed) ==
    [p EXCEPT !.reviewRead = @ \ changed, !.translationRead = @ \ changed,
              !.reviewed = @ \ changed, !.reviewRevision = rev, !.checklist = -1]

-----------------------------------------------------------------------------
(* The tools of the main agent. *)

Call(tool) ==
    /\ open /\ calls < MaxCalls
    /\ tool \in Tools
    /\ stage = "editing"
    /\ calls' = calls + 1
    /\ UNCHANGED <<guard, open, checkpoint, copies, stopped, lost, continues>>

workspace == <<stage, draft, revision, validatedRevision>>

\* A call that is refused, whatever the reason, leaves the team alone.
RefusedCall ==
    /\ open /\ calls < MaxCalls
    /\ calls' = calls + 1
    /\ UNCHANGED <<team, open, checkpoint, copies, stopped, lost, continues>>

\* The opening section starts at the first cue and comes first.
DispatchSubagents(openingEnd, assignments) ==
    LET sections == (IF openingEnd = -1 THEN << >> ELSE << <<0, openingEnd>> >>) \o assignments IN
    /\ Call("dispatch_subagents")
    /\ children = << >>
    /\ Len(assignments) <= MaxSubagents
    /\ StreamOpening => openingEnd \in OpeningMin .. OpeningMax
    /\ sections # << >> /\ Covers(sections, Cues)
    /\ children' = [k \in DOMAIN sections |->
                      [first |-> sections[k][1], last |-> sections[k][2],
                       status |-> "running", agent |-> NewWorkspace]]
    /\ UNCHANGED <<workspace, acceptedRevision, progress, shown, approved>>

SavePlan ==
    /\ Call("save_plan")
    /\ children = << >>
    /\ progress' = [progress EXCEPT !.plan = TRUE]
    /\ UNCHANGED <<workspace, children, acceptedRevision, shown, approved>>

\* A page of the source; pages shrink to fit, so any part may be returned.
ReadSource(page) ==
    /\ Call("read_source")
    /\ progress' = [progress EXCEPT !.sourceRead = @ \cup page]
    /\ UNCHANGED <<workspace, children, acceptedRevision, shown, approved>>

ReadTranslations(page) ==
    /\ Call("read_translations")
    /\ progress' = [progress EXCEPT !.translationRead = @ \cup (page \cap DOMAIN draft)]
    /\ UNCHANGED <<workspace, children, acceptedRevision, shown, approved>>

ReadBilingual(page) ==
    /\ Call("read_bilingual")
    /\ progress' = [progress EXCEPT !.reviewRead = @ \cup page]
    /\ shown' = [i \in Positions |-> IF i \in page THEN TextOf(draft, i) ELSE shown[i]]
    /\ UNCHANGED <<workspace, children, acceptedRevision, approved>>

\* Only rows that were returned, in this revision or unchanged since.
RecordReview(page, rev) ==
    /\ Call("record_review")
    /\ Completed
    /\ rev = revision
    /\ page \subseteq progress.reviewRead
    /\ progress' = [progress EXCEPT !.reviewed = @ \cup page]
    /\ UNCHANGED <<workspace, children, acceptedRevision, shown, approved>>

ReviewChecklist ==
    /\ Call("review_checklist")
    /\ Completed
    /\ progress' = [progress EXCEPT !.checklist = revision]
    /\ UNCHANGED <<workspace, children, acceptedRevision, shown, approved>>

\* write_file and edit_file of translations.json.
WriteTranslations(file, merge) ==
    /\ Call("write_file")
    /\ Completed
    /\ revision < MaxRevision
    /\ Acceptable(Positions, file)
    /\ draft' = Saved(draft, file, merge)
    /\ revision' = revision + 1
    /\ validatedRevision' = -1
    /\ progress' = Invalidated(progress, revision',
                      {i \in Positions : TextOf(draft, i) # TextOf(draft', i)})
    /\ UNCHANGED <<stage, children, acceptedRevision, shown, approved>>

ValidateTranslation ==
    /\ Call("validate_translation")
    /\ validatedRevision' = ValidatedAs(Positions, draft, revision)
    /\ UNCHANGED <<stage, draft, revision, children, acceptedRevision, progress, shown, approved>>

AcceptTranslation ==
    /\ Call("accept_translation")
    /\ Completed
    /\ Complete(Positions, draft)
    /\ acceptedRevision' = revision
    /\ approved' = draft
    /\ UNCHANGED <<workspace, children, progress, shown>>

CloseSubagents ==
    /\ Call("close_subagents")
    /\ Accepted
    /\ children' = [k \in DOMAIN children |-> [children[k] EXCEPT !.status = "closed"]]
    /\ UNCHANGED <<workspace, acceptedRevision, progress, shown, approved>>

FinishTranslation ==
    /\ Call("finish_translation")
    /\ Accepted /\ AllClosed
    /\ Submittable(Positions, draft, revision, validatedRevision)
    /\ stage' = "publish"
    /\ UNCHANGED <<draft, revision, validatedRevision, children, acceptedRevision,
                   progress, shown, approved>>

-----------------------------------------------------------------------------
(* Turns of the main agent. *)

Phase == IF children = << >> THEN "planning" ELSE "review"
Limit == IF Phase = "planning" THEN PlanningLimit ELSE ReviewLimit

\* A new phase starts with a fresh watchdog.
Watch == IF guard.phase = Phase THEN guard ELSE [phase |-> Phase, turns |-> 0, stalled |-> 0]
Exceeded == Watch.turns >= Limit \/ Watch.stalled >= StallLimit

Waiting == ~open /\ ~stopped /\ stage = "editing" /\ Running = {}

BeginTurn ==
    /\ Waiting /\ ~Exceeded
    /\ open' = TRUE /\ calls' = 0
    /\ guard' = Watch
    /\ progress' = Refreshed(progress, revision)
    /\ UNCHANGED <<workspace, children, acceptedRevision, shown, approved,
                   checkpoint, copies, stopped, lost, continues>>

\* What counts as progress: not repeated reads, notes, or validation.
Measure(t, p) ==
    <<Cardinality(p.sourceRead), Cardinality(p.reviewRead), Cardinality(p.translationRead),
      Cardinality(p.reviewed), [k \in DOMAIN t.children |-> t.children[k].status],
      t.draft, t.acceptedRevision, t.stage>>
Progressed ==
    Measure(Snapshot, progress) #
    Measure(checkpoint, Refreshed(checkpoint.progress, checkpoint.revision))

\* Mutant: a turn that repeats itself is not counted.
CountedProgress(g, progressed) ==
    IF progressed THEN [g EXCEPT !.turns = @ + 1, !.stalled = 0] ELSE g

Counted(g, progressed) ==
    [g EXCEPT !.turns = @ + 1, !.stalled = IF progressed THEN 0 ELSE @ + 1]

EndTurn ==
    /\ open
    /\ open' = FALSE /\ calls' = 0
    /\ guard' = Counted(guard, Progressed)
    /\ UNCHANGED <<workspace, children, acceptedRevision, progress, shown, approved>>
    /\ checkpoint' = Snapshot'
    /\ UNCHANGED <<copies, stopped, lost, continues>>

\* The turns the watchdog allows are used up: the task ends, before another
\* request, with everything it saved.
Stop ==
    /\ Waiting /\ Exceeded
    /\ stopped' = TRUE
    /\ UNCHANGED <<team, open, calls, checkpoint, copies, lost, continues>>

\* A continuation of the failed job keeps the team and restarts the watchdog.
Continue ==
    /\ stopped /\ continues < MaxContinues
    /\ stopped' = FALSE
    /\ continues' = continues + 1
    /\ guard' = [guard EXCEPT !.turns = 0, !.stalled = 0]
    /\ UNCHANGED <<workspace, children, acceptedRevision, progress, shown, approved>>
    /\ checkpoint' = Snapshot'
    /\ UNCHANGED <<open, calls, copies, lost>>

\* The model call failed, or the worker stopped: open turns leave no trace.
TurnsLost ==
    /\ lost < MaxLost
    /\ open \/ \E k \in Slots : copies[k] # None
    /\ lost' = lost + 1
    /\ stage' = checkpoint.stage /\ draft' = checkpoint.draft
    /\ revision' = checkpoint.revision
    /\ validatedRevision' = checkpoint.validatedRevision
    /\ children' = checkpoint.children
    /\ acceptedRevision' = checkpoint.acceptedRevision
    /\ progress' = checkpoint.progress /\ guard' = checkpoint.guard
    /\ shown' = checkpoint.shown /\ approved' = checkpoint.approved
    /\ open' = FALSE /\ calls' = 0
    /\ copies' = [k \in Slots |-> None]
    /\ UNCHANGED <<checkpoint, stopped, continues>>

-----------------------------------------------------------------------------
(* Turns of a child. *)

mine == <<team, open, calls, checkpoint, stopped, lost, continues>>

ChildBegin(k) ==
    /\ ~open
    /\ k \in Running
    /\ copies[k] = None
    /\ copies' = [copies EXCEPT ![k] = children[k].agent]
    /\ UNCHANGED mine

\* A call of child k while its turn is executed, unless it has submitted.
ChildCall(k, copy) ==
    /\ copies[k] # None
    /\ copies[k].stage = "editing"
    /\ copies' = [copies EXCEPT ![k] = copy]
    /\ UNCHANGED mine

ChildWrite(k, file, merge) ==
    /\ copies[k] # None /\ copies[k].revision < MaxEdits
    /\ Acceptable(Section(children[k]), file)
    /\ ChildCall(k, [stage |-> "editing", draft |-> Saved(copies[k].draft, file, merge),
                     revision |-> copies[k].revision + 1, validatedRevision |-> -1])

ChildValidate(k) ==
    /\ copies[k] # None
    /\ ChildCall(k, [stage |-> "editing", draft |-> copies[k].draft,
                     revision |-> copies[k].revision,
                     validatedRevision |->
                        ValidatedAs(Section(children[k]), copies[k].draft, copies[k].revision)])

ChildFinish(k) ==
    /\ copies[k] # None
    /\ Submittable(Section(children[k]), copies[k].draft, copies[k].revision,
                   copies[k].validatedRevision)
    /\ ChildCall(k, [stage |-> "publish", draft |-> copies[k].draft,
                     revision |-> copies[k].revision,
                     validatedRevision |-> copies[k].validatedRevision])

\* The turn is kept.  It has not submitted: the team learns nothing else.
ChildSaves(k) ==
    /\ copies[k] # None /\ copies[k].stage = "editing"
    /\ children' = [children EXCEPT ![k].agent = copies[k]]
    /\ copies' = [copies EXCEPT ![k] = None]
    /\ UNCHANGED <<workspace, acceptedRevision, progress, guard, shown, approved>>
    /\ checkpoint' = Snapshot'
    /\ UNCHANGED <<open, calls, stopped, lost, continues>>

\* Mutant: the child's section replaces what its siblings submitted.
MergedAlone(d, section) == section

\* A submitted section is merged into the draft.
Merged(d, section) == Saved(d, section, TRUE)

\* It has submitted: the section is merged, and the last one hands the main
\* agent a review checklist.
ChildSubmits(k) ==
    /\ copies[k] # None /\ copies[k].stage = "publish"
    /\ Submittable(Section(children[k]), copies[k].draft, copies[k].revision,
                   copies[k].validatedRevision)
    /\ draft' = Merged(draft, copies[k].draft)
    /\ revision' = revision + 1
    /\ validatedRevision' = -1
    /\ children' = [children EXCEPT ![k].agent = copies[k], ![k].status = "completed"]
    /\ progress' = IF Running = {k}
                   THEN [Refreshed(progress, revision') EXCEPT !.checklist = revision']
                   ELSE progress
    /\ copies' = [copies EXCEPT ![k] = None]
    /\ UNCHANGED <<stage, acceptedRevision, guard, shown, approved>>
    /\ checkpoint' = Snapshot'
    /\ UNCHANGED <<open, calls, stopped, lost, continues>>

\* The model call failed; the job's retries are module DocumentTask's matter.
ChildError(k) ==
    /\ copies[k] # None
    /\ copies' = [copies EXCEPT ![k] = None]
    /\ UNCHANGED mine

-----------------------------------------------------------------------------
Pages == {page \in {i .. j : i, j \in Positions} : page # {}}

Assignments == UNION {[1 .. n -> Positions \X Positions] : n \in 0 .. MaxSubagents}

MainTool ==
    \/ RefusedCall \/ SavePlan \/ ReviewChecklist \/ ValidateTranslation
    \/ AcceptTranslation \/ CloseSubagents \/ FinishTranslation
    \/ \E page \in Pages : \/ ReadSource(page) \/ ReadTranslations(page)
                           \/ ReadBilingual(page)
                           \/ \E rev \in 0 .. revision : RecordReview(page, rev)
    \/ \E file \in Files(Positions), merge \in BOOLEAN : WriteTranslations(file, merge)
    \/ \E openingEnd \in Positions \cup {-1}, assignments \in Assignments :
          DispatchSubagents(openingEnd, assignments)

MainStep == BeginTurn \/ EndTurn \/ Stop

ChildStep(k) ==
    \/ ChildBegin(k) \/ ChildSaves(k) \/ ChildSubmits(k) \/ ChildError(k)
    \/ ChildValidate(k) \/ ChildFinish(k)
    \/ \E file \in Files(Positions), merge \in BOOLEAN : ChildWrite(k, file, merge)

Next ==
    \/ MainTool \/ MainStep \/ Continue \/ TurnsLost
    \/ \E k \in Slots : ChildStep(k)

Spec == Init /\ [][Next]_vars

-----------------------------------------------------------------------------
(* Properties. *)

TeamRecord ==
    [stage: {"editing", "publish"}, draft: Drafts(Positions), revision: Nat,
     validatedRevision: Nat \cup {-1}, children: Seq(Child),
     acceptedRevision: Nat \cup {-1}, progress: Progress, guard: Guard,
     shown: [Positions -> Texts \cup {Blank}], approved: Drafts(Positions) \cup {None}]

\* Every variable has its type.
TypeOK ==
    /\ Snapshot \in TeamRecord
    /\ checkpoint \in TeamRecord
    /\ open \in BOOLEAN /\ calls \in 0 .. MaxCalls
    /\ copies \in [Slots -> Workspace(Positions) \cup {None}]
    /\ stopped \in BOOLEAN
    /\ lost \in 0 .. MaxLost /\ continues \in 0 .. MaxContinues

\* Whatever tools the main agent calls in whatever order, what is published is
\* complete, was validated in its last revision, is word for word the draft
\* the main agent accepted, and no child is left (translation-team.ts:198).
PublicationWasAccepted ==
    stage = "publish" =>
        /\ Complete(Positions, draft)
        /\ approved = draft
        /\ acceptedRevision = revision /\ validatedRevision = revision
        /\ children # << >> /\ AllClosed

\* Until the main agent's first correction the merged draft is exactly what
\* the children submitted: no section is lost to, or overwritten by, a
\* sibling's (translation-team.ts:151, :289).
SectionsMerged ==
    revision = Cardinality(DOMAIN children \ Running) =>
        /\ \A i \in Positions :
              i \in DOMAIN draft <=> \E k \in DOMAIN children \ Running : i \in Section(children[k])
        /\ \A k \in DOMAIN children \ Running : \A i \in Section(children[k]) :
              draft[i] = children[k].agent.draft[i]

\* Review evidence is about the texts as they are now: what counts as reviewed
\* was returned by read_bilingual with its present text, through merges,
\* corrections, and turns that were lost (team-progress.ts:29, :61, :81).
EvidenceIsCurrent ==
    LET p == Refreshed(progress, revision) IN
    /\ p.reviewed \subseteq p.reviewRead
    /\ \A i \in p.reviewRead : shown[i] = TextOf(draft, i)
    /\ p.checklist \in {-1, revision}

\* The plan and what was read of the source survive the merges and the new
\* revisions that void review evidence (team-progress.ts:29).
PlanSurvives ==
    [][/\ checkpoint.progress.plan => checkpoint'.progress.plan
       /\ checkpoint.progress.sourceRead \subseteq checkpoint'.progress.sourceRead]_vars

\* The durable team implements TeamPromise.
SubmittedCues ==
    UNION {Section(checkpoint.children[k]) :
             k \in {j \in DOMAIN checkpoint.children : checkpoint.children[j].status # "running"}}
PromisedPhase ==
    IF checkpoint.children = << >> THEN "planning"
    ELSE IF SubmittedCues # Positions THEN "translating"
    ELSE IF checkpoint.stage = "editing" THEN "review" ELSE "published"
ApprovedPairs ==
    IF checkpoint.approved = None THEN {}
    ELSE {<<i, checkpoint.approved[i]>> : i \in DOMAIN checkpoint.approved}
Promise == INSTANCE TeamPromise WITH
    Source <- Positions, Words <- Texts,
    phase <- PromisedPhase, submitted <- SubmittedCues,
    text <- checkpoint.draft, approved <- ApprovedPairs
KeepsPromise == Promise!Spec

\* The host keeps calling the main agent while it is its turn; whatever the
\* model answers, the turn ends, because its calls are applied at once.
Fairness == WF_vars(BeginTurn) /\ WF_vars(EndTurn) /\ WF_vars(Stop)
FairSpec == Spec /\ Fairness

\* A main phase always ends: in a dispatch, a publication, or by the watchdog,
\* however the model goes round in circles (translation-team.ts:321).
MainPhaseEnds == Waiting ~> ~(open \/ Waiting)
=============================================================================
