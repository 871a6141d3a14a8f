----------------------- MODULE TranslationTeam_proofs -----------------------
(***************************************************************************)
(* Proofs about TranslationTeam, for every source, number of children and  *)
(* every limit.                                                            *)
(***************************************************************************)
EXTENDS TranslationTeam, SequenceTheorems, FiniteSetTheorems, TLAPS

-----------------------------------------------------------------------------
(* Drafts. *)

\* A draft maps some cues to texts.
LEMMA DraftIs ==
    ASSUME NEW S, NEW d
    PROVE  d \in Drafts(S) <=> /\ DOMAIN d \subseteq S
                               /\ d \in [DOMAIN d -> Texts]
BY DEF Drafts

\* So does a file that was accepted.
LEMMA AcceptableIsDraft ==
    ASSUME NEW S \in SUBSET Int, NEW R \in SUBSET S, NEW file \in Files(S), Acceptable(R, file)
    PROVE  file \in Drafts(S)
<1>1. PICK ids \in SUBSET (S \cup {Alien}) : file \in [ids -> Texts \cup {Blank}]
    BY DEF Files
<1>2. DOMAIN file = ids /\ ids \subseteq S
    BY <1>1 DEF Acceptable
<1>3. \A c \in ids : file[c] \in Texts
    BY <1>1, <1>2 DEF Acceptable
<1>4. file \in [ids -> Texts]
    BY <1>1, <1>3
<1> QED BY <1>2, <1>4, DraftIs

\* Saving keeps drafts drafts.
LEMMA SavedIsDraft ==
    ASSUME NEW S, NEW d \in Drafts(S), NEW file \in Drafts(S), NEW merge
    PROVE  Saved(d, file, merge) \in Drafts(S)
<1>1. /\ DOMAIN d \subseteq S /\ d \in [DOMAIN d -> Texts]
      /\ DOMAIN file \subseteq S /\ file \in [DOMAIN file -> Texts]
    BY DraftIs
<1> DEFINE s == Saved(d, file, merge)
<1>2. DOMAIN s \subseteq S
    BY <1>1 DEF Saved
<1>3. \A c \in DOMAIN s : s[c] \in Texts
    BY <1>1 DEF Saved
<1>4. s = [c \in DOMAIN s |-> s[c]]
    BY DEF Saved
<1>5. s \in [DOMAIN s -> Texts]
    BY <1>3, <1>4
<1> QED BY <1>2, <1>5, DraftIs

\* What validation and completeness say of a typed draft.
LEMMA ValidatedType ==
    ASSUME NEW S, NEW d, NEW r \in Nat
    PROVE  ValidatedAs(S, d, r) \in Nat \cup {-1}
BY DEF ValidatedAs

\* What a task starts with is typed.
LEMMA NewTypes ==
    /\ EmptyDraft \in Drafts(Positions)
    /\ NewWorkspace \in Workspace(Positions)
    /\ NewProgress \in Progress
<1>1. EmptyDraft \in Drafts(Positions)
    <2>1. EmptyDraft \in [{} -> Texts]
        BY DEF EmptyDraft
    <2> QED BY <2>1 DEF Drafts
<1>2. NewWorkspace \in Workspace(Positions)
    BY <1>1 DEF NewWorkspace, Workspace
<1>3. NewProgress \in Progress
    BY DEF NewProgress, Progress
<1> QED BY <1>1, <1>2, <1>3

-----------------------------------------------------------------------------
(* The invariant. *)

\* What holds of the team, whether it is being worked on or saved: validation
\* and acceptance speak of the draft as it is, a submission was accepted, and
\* review evidence of the present revision is about present texts.
Sound(t) ==
    /\ t.validatedRevision = t.revision => Complete(Positions, t.draft)
    /\ t.acceptedRevision <= t.revision
    /\ t.acceptedRevision = t.revision =>
          t.approved = t.draft /\ Complete(Positions, t.draft)
    /\ t.stage = "publish" =>
          /\ t.acceptedRevision = t.revision /\ t.validatedRevision = t.revision
          /\ t.children # << >>
          /\ \A k \in DOMAIN t.children : t.children[k].status = "closed"
    /\ t.progress.reviewRevision <= t.revision
    /\ t.progress.reviewRevision = t.revision =>
          /\ t.progress.reviewed \subseteq t.progress.reviewRead
          /\ \A i \in t.progress.reviewRead : t.shown[i] = TextOf(t.draft, i)
          /\ t.progress.checklist \in {-1, t.revision}

\* A main turn starts with current evidence, and no child's turn is executed
\* meanwhile; only running children have turns.
TurnsOK ==
    /\ open => progress.reviewRevision = revision
    /\ \A k \in Slots : copies[k] # None => ~open /\ k \in Running

Inv == TypeOK /\ Sound(Snapshot) /\ Sound(checkpoint) /\ TurnsOK

\* The fields of the team, one by one.
TeamTypes ==
    /\ stage \in {"editing", "publish"} /\ draft \in Drafts(Positions)
    /\ revision \in Nat /\ validatedRevision \in Nat \cup {-1}
    /\ children \in Seq(Child)
    /\ acceptedRevision \in Nat \cup {-1}
    /\ progress \in Progress /\ guard \in Guard
    /\ shown \in [Positions -> Texts \cup {Blank}]
    /\ approved \in Drafts(Positions) \cup {None}

\* The team is typed if its fields are.
LEMMA SnapshotTypes == Snapshot \in TeamRecord <=> TeamTypes
BY DEF Snapshot, TeamRecord, TeamTypes

\* Sound(Snapshot), field by field.
SoundNow ==
    /\ validatedRevision = revision => Complete(Positions, draft)
    /\ acceptedRevision <= revision
    /\ acceptedRevision = revision => approved = draft /\ Complete(Positions, draft)
    /\ stage = "publish" =>
          /\ acceptedRevision = revision /\ validatedRevision = revision
          /\ children # << >> /\ AllClosed
    /\ progress.reviewRevision <= revision
    /\ progress.reviewRevision = revision =>
          /\ progress.reviewed \subseteq progress.reviewRead
          /\ \A i \in progress.reviewRead : shown[i] = TextOf(draft, i)
          /\ progress.checklist \in {-1, revision}

\* It is sound if its fields are.
LEMMA SoundSnapshot == Sound(Snapshot) <=> SoundNow
BY DEF Snapshot, Sound, SoundNow, AllClosed

ControlTypes ==
    /\ checkpoint \in TeamRecord
    /\ open \in BOOLEAN /\ calls \in 0 .. MaxCalls
    /\ copies \in [Slots -> Workspace(Positions) \cup {None}]
    /\ stopped \in BOOLEAN
    /\ lost \in 0 .. MaxLost /\ continues \in 0 .. MaxContinues

\* The type invariant, in two parts.
LEMMA TypesNow == TypeOK <=> TeamTypes /\ ControlTypes
BY SnapshotTypes DEF TypeOK, ControlTypes

\* The invariant, in parts.
LEMMA InvNow == Inv <=> TeamTypes /\ ControlTypes /\ SoundNow /\ Sound(checkpoint) /\ TurnsOK
BY TypesNow, SoundSnapshot DEF Inv

-----------------------------------------------------------------------------
(* Initial states. *)

\* It holds at the start.
LEMMA Initial == Init => Inv
<1> SUFFICES ASSUME Init PROVE Inv
    OBVIOUS
<1>1. TeamTypes
    <2>1. << >> \in Seq(Child)
        OBVIOUS
    <2> QED BY <2>1, NewTypes DEF Init, TeamTypes, Guard
<1>2. SoundNow
    BY DEF Init, SoundNow, NewProgress
<1>3. Snapshot \in TeamRecord /\ Sound(Snapshot)
    BY <1>1, <1>2, SnapshotTypes, SoundSnapshot
<1>4. checkpoint \in TeamRecord /\ Sound(checkpoint)
    BY <1>3 DEF Init
<1>5. ControlTypes
    <2>1. copies \in [Slots -> Workspace(Positions) \cup {None}]
        BY DEF Init
    <2>2. calls \in 0 .. MaxCalls /\ lost \in 0 .. MaxLost /\ continues \in 0 .. MaxContinues
        BY ConstantsOK DEF Init
    <2>3. open \in BOOLEAN /\ stopped \in BOOLEAN
        BY DEF Init
    <2> QED BY <1>4, <2>1, <2>2, <2>3 DEF ControlTypes
<1>6. TurnsOK
    BY DEF Init, TurnsOK, NewProgress
<1> QED BY <1>1, <1>2, <1>4, <1>5, <1>6, InvNow

\* The parts of the next state's invariant.
LEMMA InvNext ==
    Inv' <=> /\ TeamTypes' /\ ControlTypes' /\ SoundNow'
             /\ Sound(checkpoint)' /\ TurnsOK'
BY InvNow, PTL

-----------------------------------------------------------------------------
(* The tools of the main agent. *)

\* A call preserves the invariant if the team it leaves is typed and sound,
\* and its evidence current.
LEMMA CallKeeps ==
    ASSUME Inv, NEW tool, Call(tool), TeamTypes', SoundNow',
           progress'.reviewRevision = revision'
    PROVE  Inv'
<1> USE InvNow
<1>1. ControlTypes'
    <2>1. calls' \in 0 .. MaxCalls
        BY ConstantsOK DEF Call, ControlTypes
    <2> QED BY <2>1 DEF Call, ControlTypes
<1>2. Sound(checkpoint)'
    BY DEF Call, Sound
<1>3. TurnsOK'
    BY DEF Call, TurnsOK
<1> QED BY <1>1, <1>2, <1>3, InvNext

\* What every call starts from.
LEMMA CallStarts ==
    ASSUME Inv, NEW tool, Call(tool)
    PROVE  /\ TeamTypes /\ SoundNow /\ stage = "editing"
           /\ progress.reviewRevision = revision /\ revision \in Nat
           /\ guard' = guard
BY InvNow DEF Call, TurnsOK, TeamTypes

\* A refused call changes nothing.
LEMMA RefusedKeeps == ASSUME Inv, RefusedCall PROVE Inv'
<1> USE InvNow
<1>1. TeamTypes'
    BY DEF RefusedCall, team, TeamTypes
<1>2. SoundNow'
    BY DEF RefusedCall, team, SoundNow, AllClosed, TextOf
<1>3. ControlTypes'
    <2>1. calls' \in 0 .. MaxCalls
        BY ConstantsOK DEF RefusedCall, ControlTypes
    <2> QED BY <2>1 DEF RefusedCall, ControlTypes
<1>4. Sound(checkpoint)'
    BY DEF RefusedCall, Sound
<1>5. TurnsOK'
    BY DEF RefusedCall, team, TurnsOK
<1> QED BY <1>1, <1>2, <1>3, <1>4, <1>5, InvNext

\* Sections that cover the source are sections of it.
LEMMA CoveringSections ==
    ASSUME NEW sections \in Seq(Positions \X Positions)
    PROVE  [k \in DOMAIN sections |->
              [first |-> sections[k][1], last |-> sections[k][2],
               status |-> "running", agent |-> NewWorkspace]] \in Seq(Child)
<1> DEFINE kids == [k \in 1 .. Len(sections) |->
              [first |-> sections[k][1], last |-> sections[k][2],
               status |-> "running", agent |-> NewWorkspace]]
<1>1. \A k \in 1 .. Len(sections) : sections[k] \in Positions \X Positions
    OBVIOUS
<1>2. \A k \in 1 .. Len(sections) : sections[k][1] \in Positions /\ sections[k][2] \in Positions
    BY <1>1
<1>3. \A k \in 1 .. Len(sections) : kids[k] \in Child
    BY <1>2, NewTypes DEF Child
<1>4. kids \in [1 .. Len(sections) -> Child]
    BY <1>3
<1>5. Len(sections) \in Nat
    OBVIOUS
<1> HIDE DEF kids
<1>6. kids \in Seq(Child)
    BY <1>4, <1>5
<1>7. DOMAIN sections = 1 .. Len(sections)
    OBVIOUS
<1> QED BY <1>6, <1>7 DEF kids

\* dispatch_subagents: the sections are given to children.
LEMMA DispatchKeeps ==
    ASSUME Inv, NEW openingEnd \in Positions \cup {-1}, NEW assignments \in Assignments,
           DispatchSubagents(openingEnd, assignments)
    PROVE  Inv'
<1> DEFINE sections == (IF openingEnd = -1 THEN << >> ELSE << <<0, openingEnd>> >>) \o assignments
<1>1. Call("dispatch_subagents")
    BY DEF DispatchSubagents
<1>2. assignments \in Seq(Positions \X Positions)
    BY DEF Assignments
<1>3. 0 \in Positions
    BY ConstantsOK DEF Positions
<1>4. sections \in Seq(Positions \X Positions)
    <2>1. CASE openingEnd = -1
        BY <2>1, <1>2, ConcatProperties
    <2>2. CASE openingEnd # -1
        <3>1. << <<0, openingEnd>> >> \in Seq(Positions \X Positions)
            BY <2>2, <1>3
        <3> QED BY <2>2, <3>1, <1>2, ConcatProperties
    <2> QED BY <2>1, <2>2
<1> HIDE DEF sections
<1>5. children' \in Seq(Child)
    BY <1>4, CoveringSections DEF DispatchSubagents, sections
<1>6. TeamTypes'
    BY <1>1, <1>5, CallStarts DEF DispatchSubagents, TeamTypes, workspace
<1>7. SoundNow'
    BY <1>1, CallStarts DEF DispatchSubagents, SoundNow, workspace, TextOf
<1> QED BY <1>1, <1>6, <1>7, CallStarts, CallKeeps DEF DispatchSubagents, workspace

\* Progress records, one field at a time.
LEMMA ProgressFields ==
    ASSUME NEW p \in Progress, NEW page \in SUBSET Positions, NEW rev \in Nat,
           NEW changed
    PROVE  /\ [p EXCEPT !.plan = TRUE] \in Progress
           /\ [p EXCEPT !.sourceRead = @ \cup page] \in Progress
           /\ [p EXCEPT !.translationRead = @ \cup page] \in Progress
           /\ [p EXCEPT !.reviewRead = @ \cup page] \in Progress
           /\ [p EXCEPT !.reviewed = @ \cup page] \in Progress
           /\ [p EXCEPT !.checklist = rev] \in Progress
BY DEF Progress

\* save_plan.
LEMMA SavePlanKeeps == ASSUME Inv, SavePlan PROVE Inv'
<1>1. Call("save_plan")
    BY DEF SavePlan
<1>2. TeamTypes'
    BY <1>1, CallStarts, ProgressFields DEF SavePlan, TeamTypes, workspace
<1>3. progress'.reviewRevision = progress.reviewRevision /\ progress'.reviewed = progress.reviewed
      /\ progress'.reviewRead = progress.reviewRead /\ progress'.checklist = progress.checklist
    BY <1>1, CallStarts DEF SavePlan, TeamTypes, Progress
<1>4. SoundNow'
    BY <1>1, <1>3, CallStarts DEF SavePlan, SoundNow, workspace, TextOf, AllClosed
<1> QED BY <1>1, <1>2, <1>3, <1>4, CallStarts, CallKeeps DEF SavePlan, workspace

\* read_source.
LEMMA ReadSourceKeeps ==
    ASSUME Inv, NEW page \in SUBSET Positions, ReadSource(page)
    PROVE  Inv'
<1>1. Call("read_source")
    BY DEF ReadSource
<1>2. TeamTypes'
    BY <1>1, CallStarts, ProgressFields DEF ReadSource, TeamTypes, workspace
<1>3. progress'.reviewRevision = progress.reviewRevision /\ progress'.reviewed = progress.reviewed
      /\ progress'.reviewRead = progress.reviewRead /\ progress'.checklist = progress.checklist
    BY <1>1, CallStarts DEF ReadSource, TeamTypes, Progress
<1>4. SoundNow'
    BY <1>1, <1>3, CallStarts DEF ReadSource, SoundNow, workspace, TextOf, AllClosed
<1> QED BY <1>1, <1>2, <1>3, <1>4, CallStarts, CallKeeps DEF ReadSource, workspace

\* read_translations.
LEMMA ReadTranslationsKeeps ==
    ASSUME Inv, NEW page \in SUBSET Positions, ReadTranslations(page)
    PROVE  Inv'
<1>1. Call("read_translations")
    BY DEF ReadTranslations
<1>2. TeamTypes'
    BY <1>1, CallStarts, ProgressFields DEF ReadTranslations, TeamTypes, workspace
<1>3. progress'.reviewRevision = progress.reviewRevision /\ progress'.reviewed = progress.reviewed
      /\ progress'.reviewRead = progress.reviewRead /\ progress'.checklist = progress.checklist
    BY <1>1, CallStarts DEF ReadTranslations, TeamTypes, Progress
<1>4. SoundNow'
    BY <1>1, <1>3, CallStarts DEF ReadTranslations, SoundNow, workspace, TextOf, AllClosed
<1> QED BY <1>1, <1>2, <1>3, <1>4, CallStarts, CallKeeps DEF ReadTranslations, workspace

\* read_bilingual: what is shown is what is in the draft.
LEMMA ReadBilingualKeeps ==
    ASSUME Inv, NEW page \in SUBSET Positions, ReadBilingual(page)
    PROVE  Inv'
<1>1. Call("read_bilingual")
    BY DEF ReadBilingual
<1>2. \A i \in Positions : TextOf(draft, i) \in Texts \cup {Blank}
    BY <1>1, CallStarts, DraftIs DEF TeamTypes, TextOf
<1>3. TeamTypes'
    <2>1. shown' \in [Positions -> Texts \cup {Blank}]
        BY <1>1, <1>2, CallStarts DEF ReadBilingual, TeamTypes
    <2> QED BY <1>1, <2>1, CallStarts, ProgressFields DEF ReadBilingual, TeamTypes, workspace
<1>4. progress'.reviewRevision = progress.reviewRevision /\ progress'.reviewed = progress.reviewed
      /\ progress'.reviewRead = progress.reviewRead \cup page
      /\ progress'.checklist = progress.checklist
    BY <1>1, CallStarts DEF ReadBilingual, TeamTypes, Progress
<1>5. \A i \in progress'.reviewRead : shown'[i] = TextOf(draft, i)
    <2>1. progress.reviewRead \subseteq Positions
        BY <1>1, CallStarts DEF TeamTypes, Progress
    <2> QED BY <1>1, <1>4, <2>1, CallStarts DEF ReadBilingual, SoundNow
<1>6. SoundNow'
    BY <1>1, <1>4, <1>5, CallStarts DEF ReadBilingual, SoundNow, workspace, TextOf, AllClosed
<1> QED BY <1>1, <1>3, <1>4, <1>6, CallStarts, CallKeeps DEF ReadBilingual, workspace

\* record_review: only what was read may be confirmed.
LEMMA RecordReviewKeeps ==
    ASSUME Inv, NEW page \in SUBSET Positions, NEW rev, RecordReview(page, rev)
    PROVE  Inv'
<1>1. Call("record_review")
    BY DEF RecordReview
<1>2. TeamTypes'
    BY <1>1, CallStarts, ProgressFields DEF RecordReview, TeamTypes, workspace
<1>3. progress'.reviewRevision = progress.reviewRevision
      /\ progress'.reviewed = progress.reviewed \cup page
      /\ progress'.reviewRead = progress.reviewRead /\ progress'.checklist = progress.checklist
    BY <1>1, CallStarts DEF RecordReview, TeamTypes, Progress
<1>4. SoundNow'
    BY <1>1, <1>3, CallStarts DEF RecordReview, SoundNow, workspace, TextOf, AllClosed
<1> QED BY <1>1, <1>2, <1>3, <1>4, CallStarts, CallKeeps DEF RecordReview, workspace

\* review_checklist.
LEMMA ChecklistKeeps == ASSUME Inv, ReviewChecklist PROVE Inv'
<1>1. Call("review_checklist")
    BY DEF ReviewChecklist
<1>2. TeamTypes'
    BY <1>1, CallStarts, ProgressFields DEF ReviewChecklist, TeamTypes, workspace
<1>3. progress'.reviewRevision = progress.reviewRevision /\ progress'.reviewed = progress.reviewed
      /\ progress'.reviewRead = progress.reviewRead /\ progress'.checklist = revision
    BY <1>1, CallStarts DEF ReviewChecklist, TeamTypes, Progress
<1>4. SoundNow'
    BY <1>1, <1>3, CallStarts DEF ReviewChecklist, SoundNow, workspace, TextOf, AllClosed
<1> QED BY <1>1, <1>2, <1>3, <1>4, CallStarts, CallKeeps DEF ReviewChecklist, workspace

\* A correction voids what was known of the cues it changes.
LEMMA InvalidatedFields ==
    ASSUME NEW p \in Progress, NEW rev \in Nat, NEW changed
    PROVE  LET q == Invalidated(p, rev, changed) IN
           /\ q \in Progress
           /\ q.reviewRead = p.reviewRead \ changed
           /\ q.reviewed = p.reviewed \ changed
           /\ q.reviewRevision = rev
           /\ q.checklist = -1
BY DEF Progress, Invalidated

\* write_file: the evidence of the cues it changes goes.
LEMMA WriteKeeps ==
    ASSUME Inv, NEW file \in Files(Positions), NEW merge \in BOOLEAN,
           WriteTranslations(file, merge)
    PROVE  Inv'
<1>1. Call("write_file")
    BY DEF WriteTranslations
<1>2. draft' \in Drafts(Positions)
    <2>1. Positions \subseteq Int
        BY DEF Positions
    <2>2. file \in Drafts(Positions)
        BY <2>1, AcceptableIsDraft DEF WriteTranslations
    <2> QED BY <1>1, <2>2, CallStarts, SavedIsDraft DEF WriteTranslations, TeamTypes
<1>3. revision' \in Nat /\ revision' = revision + 1
    BY <1>1, CallStarts DEF WriteTranslations
<1> DEFINE changed == {i \in Positions : TextOf(draft, i) # TextOf(draft', i)}
<1>4. progress' = Invalidated(progress, revision', changed)
    BY DEF WriteTranslations
<1>5. progress \in Progress
    BY <1>1, CallStarts DEF TeamTypes
<1> HIDE DEF changed
<1>6. /\ progress' \in Progress
      /\ progress'.reviewRead = progress.reviewRead \ changed
      /\ progress'.reviewed = progress.reviewed \ changed
      /\ progress'.reviewRevision = revision' /\ progress'.checklist = -1
    BY <1>3, <1>4, <1>5, InvalidatedFields
<1>7. TeamTypes'
    BY <1>1, <1>2, <1>3, <1>6, CallStarts DEF WriteTranslations, TeamTypes
<1>8. \A i \in progress'.reviewRead : shown[i] = TextOf(draft', i)
    <2>1. \A i \in progress.reviewRead : i \in Positions /\ shown[i] = TextOf(draft, i)
        BY <1>1, CallStarts DEF SoundNow, TeamTypes, Progress
    <2> QED BY <1>6, <2>1 DEF changed
<1>9. acceptedRevision <= revision /\ acceptedRevision' = acceptedRevision /\ acceptedRevision \in Int
    BY <1>1, CallStarts DEF WriteTranslations, SoundNow, TeamTypes
<1>10. SoundNow'
    <2>1. validatedRevision' # revision' /\ acceptedRevision' # revision' /\ acceptedRevision' <= revision'
        BY <1>1, <1>3, <1>9, CallStarts DEF WriteTranslations
    <2>2. stage' # "publish"
        BY <1>1, CallStarts DEF WriteTranslations
    <2>3. progress'.reviewed \subseteq progress'.reviewRead
        BY <1>1, <1>6, CallStarts DEF SoundNow
    <2>4. shown' = shown
        BY DEF WriteTranslations
    <2> QED BY <1>3, <1>6, <1>8, <2>1, <2>2, <2>3, <2>4 DEF SoundNow
<1> QED BY <1>1, <1>6, <1>7, <1>10, CallKeeps

\* validate_translation.
LEMMA ValidateKeeps == ASSUME Inv, ValidateTranslation PROVE Inv'
<1>1. Call("validate_translation")
    BY DEF ValidateTranslation
<1>2. TeamTypes'
    BY <1>1, CallStarts, ValidatedType DEF ValidateTranslation, TeamTypes
<1>3. SoundNow'
    BY <1>1, CallStarts
    DEF ValidateTranslation, ValidatedAs, SoundNow, TextOf, AllClosed
<1> QED BY <1>1, <1>2, <1>3, CallStarts, CallKeeps DEF ValidateTranslation

\* accept_translation.
LEMMA AcceptKeeps == ASSUME Inv, AcceptTranslation PROVE Inv'
<1>1. Call("accept_translation")
    BY DEF AcceptTranslation
<1>2. TeamTypes'
    BY <1>1, CallStarts DEF AcceptTranslation, TeamTypes, workspace
<1>3. SoundNow'
    BY <1>1, CallStarts DEF AcceptTranslation, SoundNow, workspace, TextOf, AllClosed
<1> QED BY <1>1, <1>2, <1>3, CallStarts, CallKeeps DEF AcceptTranslation, workspace

\* close_subagents.
LEMMA CloseKeeps == ASSUME Inv, CloseSubagents PROVE Inv'
<1>1. Call("close_subagents")
    BY DEF CloseSubagents
<1>2. children' \in Seq(Child)
    <2>1. children \in Seq(Child)
        BY <1>1, CallStarts DEF TeamTypes
    <2>2. \A k \in DOMAIN children : [children[k] EXCEPT !.status = "closed"] \in Child
        <3> TAKE k \in DOMAIN children
        <3>1. children[k] \in Child
            BY <2>1
        <3> QED BY <3>1 DEF Child
    <2>3. DOMAIN children = 1 .. Len(children) /\ Len(children) \in Nat
        BY <2>1
    <2>4. children' \in [1 .. Len(children) -> Child]
        BY <2>2, <2>3 DEF CloseSubagents
    <2> QED BY <2>3, <2>4
<1>3. TeamTypes'
    BY <1>1, <1>2, CallStarts DEF CloseSubagents, TeamTypes, workspace
<1>4. SoundNow'
    BY <1>1, CallStarts DEF CloseSubagents, SoundNow, workspace, TextOf
<1> QED BY <1>1, <1>3, <1>4, CallStarts, CallKeeps DEF CloseSubagents, workspace

\* finish_translation: what was accepted is submitted.
LEMMA FinishKeeps == ASSUME Inv, FinishTranslation PROVE Inv'
<1>1. Call("finish_translation")
    BY DEF FinishTranslation
<1>2. TeamTypes'
    BY <1>1, CallStarts DEF FinishTranslation, TeamTypes
<1>3. acceptedRevision = revision /\ validatedRevision = revision /\ children # << >> /\ AllClosed
    BY DEF FinishTranslation, Accepted, Completed, Submittable
<1>4. SoundNow'
    BY <1>1, <1>3, CallStarts DEF FinishTranslation, SoundNow, TextOf, AllClosed
<1> QED BY <1>1, <1>2, <1>4, CallStarts, CallKeeps DEF FinishTranslation

-----------------------------------------------------------------------------
(* Turns of the main agent. *)

\* Evidence of another revision is dropped, the rest stays.
LEMMA RefreshedFields ==
    ASSUME NEW p \in Progress, NEW rev \in Nat
    PROVE  LET q == Refreshed(p, rev) IN
           /\ q \in Progress
           /\ q.reviewRevision = rev
           /\ p.reviewRevision # rev =>
                 q.reviewRead = {} /\ q.reviewed = {} /\ q.checklist = -1
           /\ p.reviewRevision = rev => q = p
           /\ q.plan = p.plan /\ q.sourceRead = p.sourceRead
<1>1. CASE p.reviewRevision = rev
    BY <1>1 DEF Refreshed
<1>2. CASE p.reviewRevision # rev
    <2> DEFINE q == [plan |-> p.plan, sourceRead |-> p.sourceRead, translationRead |-> {},
                     reviewRead |-> {}, reviewed |-> {}, reviewRevision |-> rev, checklist |-> -1]
    <2>1. Refreshed(p, rev) = q
        BY <1>2 DEF Refreshed, NewProgress
    <2>2. p.plan \in BOOLEAN /\ p.sourceRead \in SUBSET Positions
        BY DEF Progress
    <2>3. q \in Progress
        BY <2>2 DEF Progress
    <2> QED BY <1>2, <2>1, <2>3
<1> QED BY <1>1, <1>2

\* Refreshing evidence of a sound team keeps it sound.
LEMMA BeginKeeps == ASSUME Inv, BeginTurn PROVE Inv'
<1> USE InvNow
<1>1. progress \in Progress /\ revision \in Nat
    BY DEF TeamTypes
<1>2. /\ progress' \in Progress /\ progress'.reviewRevision = revision
      /\ progress.reviewRevision # revision =>
            progress'.reviewRead = {} /\ progress'.reviewed = {} /\ progress'.checklist = -1
      /\ progress.reviewRevision = revision => progress' = progress
    BY <1>1, RefreshedFields DEF BeginTurn
<1>3. guard' \in Guard
    BY DEF BeginTurn, Watch, Phase, Guard, TeamTypes
<1>4. TeamTypes'
    BY <1>2, <1>3 DEF BeginTurn, TeamTypes, workspace
<1>5. SoundNow'
    BY <1>1, <1>2 DEF BeginTurn, SoundNow, workspace, TextOf, AllClosed
<1>6. ControlTypes'
    <2>1. calls' \in 0 .. MaxCalls
        BY ConstantsOK DEF BeginTurn
    <2> QED BY <2>1 DEF BeginTurn, ControlTypes
<1>7. Sound(checkpoint)'
    BY DEF BeginTurn, Sound
<1>8. TurnsOK'
    BY <1>2 DEF BeginTurn, TurnsOK, Waiting, workspace
<1> QED BY <1>4, <1>5, <1>6, <1>7, <1>8, InvNext

\* The team is saved as it is.
LEMMA CheckpointSound ==
    ASSUME TeamTypes', SoundNow', checkpoint' = Snapshot'
    PROVE  checkpoint' \in TeamRecord /\ Sound(checkpoint)'
<1>1. Snapshot' \in TeamRecord /\ Sound(Snapshot)'
    BY DEF Snapshot, TeamRecord, TeamTypes, Sound, SoundNow, AllClosed
<1> QED BY <1>1 DEF Sound

\* A watchdog that has counted is one.
LEMMA CountedType ==
    ASSUME NEW g \in Guard, NEW progressed
    PROVE  Counted(g, progressed) \in Guard
<1>1. g.stalled \in Nat /\ [g EXCEPT !.turns = @ + 1] \in Guard
      /\ [g EXCEPT !.turns = @ + 1].stalled = g.stalled
    BY DEF Guard
<1>2. \A h \in Guard : [h EXCEPT !.stalled = 0] \in Guard /\ [h EXCEPT !.stalled = @ + 1] \in Guard
    BY DEF Guard
<1>3. CASE progressed
    BY <1>1, <1>2, <1>3 DEF Counted
<1>4. CASE ~progressed
    BY <1>1, <1>2, <1>4 DEF Counted
<1> QED BY <1>3, <1>4

\* A turn of the main agent is committed.
LEMMA EndKeeps == ASSUME Inv, EndTurn PROVE Inv'
<1> USE InvNow
<1>1. guard' \in Guard
    BY CountedType DEF EndTurn, TeamTypes
<1>2. TeamTypes'
    BY <1>1 DEF EndTurn, TeamTypes, workspace
<1>3. SoundNow'
    BY DEF EndTurn, SoundNow, workspace, TextOf, AllClosed
<1>4. checkpoint' \in TeamRecord /\ Sound(checkpoint)'
    BY <1>2, <1>3, CheckpointSound DEF EndTurn
<1>5. ControlTypes'
    <2>1. calls' \in 0 .. MaxCalls
        BY ConstantsOK DEF EndTurn
    <2> QED BY <1>4, <2>1 DEF EndTurn, ControlTypes
<1>6. TurnsOK'
    BY DEF EndTurn, TurnsOK, Running
<1> QED BY <1>2, <1>3, <1>4, <1>5, <1>6, InvNext

\* The watchdog ends the task.
LEMMA StopKeeps == ASSUME Inv, Stop PROVE Inv'
<1> USE InvNow
<1>1. TeamTypes'
    BY DEF Stop, team, TeamTypes
<1>2. SoundNow'
    BY DEF Stop, team, SoundNow, TextOf, AllClosed
<1>3. ControlTypes' /\ Sound(checkpoint)' /\ TurnsOK'
    BY DEF Stop, team, ControlTypes, Sound, TurnsOK, Running
<1> QED BY <1>1, <1>2, <1>3, InvNext

\* A continuation restarts the watchdog.
LEMMA ContinueKeeps == ASSUME Inv, Continue PROVE Inv'
<1> USE InvNow
<1>1. guard' \in Guard
    BY DEF Continue, TeamTypes, Guard
<1>2. TeamTypes'
    BY <1>1 DEF Continue, TeamTypes, workspace
<1>3. SoundNow'
    BY DEF Continue, SoundNow, workspace, TextOf, AllClosed
<1>4. checkpoint' \in TeamRecord /\ Sound(checkpoint)'
    BY <1>2, <1>3, CheckpointSound DEF Continue
<1>5. ControlTypes'
    <2>1. continues' \in 0 .. MaxContinues
        BY ConstantsOK, SMTT(30) DEF Continue, ControlTypes
    <2> QED BY <1>4, <2>1 DEF Continue, ControlTypes
<1>6. TurnsOK'
    BY DEF Continue, TurnsOK, Running, workspace
<1> QED BY <1>2, <1>3, <1>4, <1>5, <1>6, InvNext

\* Turns that are lost leave the checkpoint.
LEMMA LostKeeps == ASSUME Inv, TurnsLost PROVE Inv'
<1> USE InvNow
<1>1. checkpoint \in TeamRecord /\ Sound(checkpoint)
    BY DEF ControlTypes
<1>2. TeamTypes'
    BY <1>1 DEF TurnsLost, TeamTypes, TeamRecord
<1>3. SoundNow'
    BY <1>1 DEF TurnsLost, SoundNow, Sound, AllClosed
<1>4. ControlTypes'
    <2>1. calls' \in 0 .. MaxCalls /\ lost' \in 0 .. MaxLost
        BY ConstantsOK DEF TurnsLost, ControlTypes
    <2>2. copies' \in [Slots -> Workspace(Positions) \cup {None}]
        BY DEF TurnsLost
    <2> QED BY <2>1, <2>2 DEF TurnsLost, ControlTypes
<1>5. Sound(checkpoint)' /\ TurnsOK'
    BY DEF TurnsLost, Sound, TurnsOK
<1> QED BY <1>2, <1>3, <1>4, <1>5, InvNext

-----------------------------------------------------------------------------
(* Turns of the children. *)

\* A step that only changes what a child's turn is working on.
LEMMA CopyKeeps ==
    ASSUME Inv, UNCHANGED mine, NEW k \in Slots, NEW w \in Workspace(Positions) \cup {None},
           copies' = [copies EXCEPT ![k] = w],
           w # None => ~open /\ k \in Running
    PROVE  Inv'
<1> USE InvNow
<1>1. TeamTypes'
    BY DEF mine, team, TeamTypes
<1>2. SoundNow'
    BY DEF mine, team, SoundNow, TextOf, AllClosed
<1>3. ControlTypes'
    <2>1. copies' \in [Slots -> Workspace(Positions) \cup {None}]
        BY DEF ControlTypes
    <2> QED BY <2>1 DEF mine, ControlTypes
<1>4. Sound(checkpoint)'
    BY DEF mine, Sound
<1>5. TurnsOK'
    <2>1. copies \in [Slots -> Workspace(Positions) \cup {None}]
        BY DEF ControlTypes
    <2>2. \A j \in Slots : copies'[j] # None => ~open /\ j \in Running
        BY <2>1 DEF TurnsOK
    <2> QED BY <2>2 DEF mine, team, TurnsOK, Running
<1> QED BY <1>1, <1>2, <1>3, <1>4, <1>5, InvNext

\* What a call of a child starts from.
LEMMA ChildCallStarts ==
    ASSUME Inv, NEW k \in Slots, copies[k] # None
    PROVE  /\ copies[k] \in Workspace(Positions) /\ ~open /\ k \in Running
           /\ children \in Seq(Child) /\ children[k] \in Child
           /\ Section(children[k]) \subseteq Positions
           /\ TeamTypes /\ SoundNow /\ stage = "editing"
<1> USE InvNow
<1>1. copies[k] \in Workspace(Positions) /\ ~open /\ k \in Running
    BY DEF ControlTypes, TurnsOK
<1>2. children \in Seq(Child) /\ k \in DOMAIN children /\ children[k].status = "running"
    BY <1>1 DEF Running, TeamTypes
<1>3. children[k] \in Child
    BY <1>2
<1>4. Section(children[k]) \subseteq Positions
    BY <1>3, ConstantsOK DEF Section, Child, Positions
<1>5. stage = "editing"
    BY <1>2 DEF SoundNow, TeamTypes, AllClosed
<1> QED BY <1>1, <1>2, <1>3, <1>4, <1>5

\* A child works on a copy of its workspace.
LEMMA ChildBeginKeeps == ASSUME Inv, NEW k \in Slots, ChildBegin(k) PROVE Inv'
<1>1. children[k] \in Child
    BY InvNow DEF ChildBegin, Running, TeamTypes
<1>2. children[k].agent \in Workspace(Positions)
    BY <1>1 DEF Child
<1> QED BY <1>2, CopyKeeps DEF ChildBegin

\* Its copy is lost when its model call fails.
LEMMA ChildErrorKeeps == ASSUME Inv, NEW k \in Slots, ChildError(k) PROVE Inv'
BY CopyKeeps DEF ChildError

\* It writes to its copy.
LEMMA ChildWriteKeeps ==
    ASSUME Inv, NEW k \in Slots, NEW file \in Files(Positions), NEW merge \in BOOLEAN,
           ChildWrite(k, file, merge)
    PROVE  Inv'
<1>1. copies[k] # None
    BY DEF ChildWrite
<1>2. copies[k] \in Workspace(Positions) /\ Section(children[k]) \subseteq Positions
    BY <1>1, ChildCallStarts
<1>3. copies[k].draft \in Drafts(Positions) /\ copies[k].revision \in Nat
    BY <1>2 DEF Workspace
<1>4. file \in Drafts(Positions)
    <2>1. Positions \subseteq Int
        BY DEF Positions
    <2> QED BY <1>2, <2>1, AcceptableIsDraft DEF ChildWrite
<1> DEFINE d == Saved(copies[k].draft, file, merge)
           w == [stage |-> "editing", draft |-> d,
                 revision |-> copies[k].revision + 1, validatedRevision |-> -1]
<1>5. d \in Drafts(Positions)
    BY <1>3, <1>4, SavedIsDraft
<1> HIDE DEF d
<1>6. w \in Workspace(Positions)
    BY <1>3, <1>5 DEF Workspace
<1>7. copies' = [copies EXCEPT ![k] = w] /\ UNCHANGED mine
    BY DEF ChildWrite, ChildCall, d
<1> HIDE DEF w
<1> QED BY <1>1, <1>6, <1>7, ChildCallStarts, CopyKeeps

\* It validates its copy.
LEMMA ChildValidateKeeps == ASSUME Inv, NEW k \in Slots, ChildValidate(k) PROVE Inv'
<1>1. copies[k] # None
    BY DEF ChildValidate
<1>2. copies[k] \in Workspace(Positions)
    BY <1>1, ChildCallStarts
<1>3. copies[k].draft \in Drafts(Positions) /\ copies[k].revision \in Nat
    BY <1>2 DEF Workspace
<1> DEFINE v == ValidatedAs(Section(children[k]), copies[k].draft, copies[k].revision)
           w == [stage |-> "editing", draft |-> copies[k].draft,
                 revision |-> copies[k].revision, validatedRevision |-> v]
<1>4. v \in Nat \cup {-1}
    BY <1>3, ValidatedType
<1> HIDE DEF v
<1>5. w \in Workspace(Positions)
    BY <1>3, <1>4 DEF Workspace
<1>6. copies' = [copies EXCEPT ![k] = w] /\ UNCHANGED mine
    BY DEF ChildValidate, ChildCall, v
<1> HIDE DEF w
<1> QED BY <1>1, <1>5, <1>6, ChildCallStarts, CopyKeeps

\* It submits its copy.
LEMMA ChildFinishKeeps == ASSUME Inv, NEW k \in Slots, ChildFinish(k) PROVE Inv'
<1>1. copies[k] # None
    BY DEF ChildFinish
<1>2. copies[k] \in Workspace(Positions)
    BY <1>1, ChildCallStarts
<1> DEFINE w == [stage |-> "publish", draft |-> copies[k].draft,
                 revision |-> copies[k].revision,
                 validatedRevision |-> copies[k].validatedRevision]
<1>3. w \in Workspace(Positions)
    BY <1>2 DEF Workspace
<1>4. copies' = [copies EXCEPT ![k] = w] /\ UNCHANGED mine
    BY DEF ChildFinish, ChildCall
<1> HIDE DEF w
<1> QED BY <1>1, <1>3, <1>4, ChildCallStarts, CopyKeeps

\* A child's record after its turn.
LEMMA ChildFields ==
    ASSUME NEW c \in Child, NEW w \in Workspace(Positions),
           NEW status \in {"running", "completed", "closed"}
    PROVE  /\ [c EXCEPT !.agent = w] \in Child
           /\ [c EXCEPT !.agent = w].status = c.status
           /\ [c EXCEPT !.agent = w, !.status = status] \in Child
           /\ [c EXCEPT !.agent = w, !.status = status].status = status
<1>1. [c EXCEPT !.agent = w] \in Child /\ [c EXCEPT !.agent = w].status = c.status
    BY DEF Child
<1>2. \A u \in Child : /\ [u EXCEPT !.status = status] \in Child
                       /\ [u EXCEPT !.status = status].status = status
    BY DEF Child
<1> QED BY <1>1, <1>2

\* One child's record replaced.
LEMMA ChildReplaced ==
    ASSUME NEW cs \in Seq(Child), NEW k \in DOMAIN cs, NEW c \in Child
    PROVE  /\ [cs EXCEPT ![k] = c] \in Seq(Child)
           /\ DOMAIN [cs EXCEPT ![k] = c] = DOMAIN cs
           /\ [cs EXCEPT ![k] = c][k] = c
           /\ \A j \in DOMAIN cs \ {k} : [cs EXCEPT ![k] = c][j] = cs[j]
BY ExceptSeq

\* The end of a child's turn, whichever way it ends.
LEMMA ChildEndKeeps ==
    ASSUME Inv, NEW k \in Slots, copies[k] # None,
           TeamTypes', SoundNow', DOMAIN children' = DOMAIN children,
           \A j \in DOMAIN children \ {k} : children'[j] = children[j],
           copies' = [copies EXCEPT ![k] = None],
           checkpoint' = Snapshot',
           UNCHANGED <<open, calls, stopped, lost, continues>>
    PROVE  Inv'
<1> USE InvNow
<1>1. checkpoint' \in TeamRecord /\ Sound(checkpoint)'
    BY CheckpointSound
<1>2. copies \in [Slots -> Workspace(Positions) \cup {None}] /\ ~open
    BY ChildCallStarts DEF ControlTypes
<1>3. copies' \in [Slots -> Workspace(Positions) \cup {None}]
    BY <1>2
<1>4. ControlTypes'
    BY <1>1, <1>3 DEF ControlTypes
<1>5. \A j \in Slots : copies'[j] # None => j \in Running'
    <2> SUFFICES ASSUME NEW j \in Slots, copies'[j] # None PROVE j \in Running'
        OBVIOUS
    <2>1. j # k /\ copies[j] # None
        BY <1>2
    <2>2. j \in Running
        BY <2>1 DEF TurnsOK
    <2> QED BY <2>1, <2>2 DEF Running
<1>6. TurnsOK'
    BY <1>2, <1>5 DEF TurnsOK
<1> QED BY <1>1, <1>4, <1>6, InvNext

\* Its turn is committed.
LEMMA ChildSavesKeeps == ASSUME Inv, NEW k \in Slots, ChildSaves(k) PROVE Inv'
<1>1. copies[k] # None
    BY DEF ChildSaves
<1> DEFINE c == [children[k] EXCEPT !.agent = copies[k]]
<1>2. children \in Seq(Child) /\ k \in DOMAIN children /\ children[k] \in Child
      /\ TeamTypes /\ SoundNow /\ stage = "editing"
    BY <1>1, ChildCallStarts DEF Running
<1>3. c \in Child
    BY <1>1, <1>2, ChildCallStarts, ChildFields
<1>4. children' = [children EXCEPT ![k] = c]
    BY DEF ChildSaves
<1> HIDE DEF c
<1>5. /\ children' \in Seq(Child) /\ DOMAIN children' = DOMAIN children
      /\ \A j \in DOMAIN children \ {k} : children'[j] = children[j]
    BY <1>2, <1>3, <1>4, ChildReplaced
<1>6. TeamTypes'
    BY <1>2, <1>5 DEF ChildSaves, TeamTypes, workspace
<1>7. SoundNow'
    BY <1>2 DEF ChildSaves, SoundNow, workspace, TextOf
<1> QED BY <1>1, <1>5, <1>6, <1>7, ChildEndKeeps DEF ChildSaves

\* Progress after the last child has submitted.
LEMMA ChecklistFields ==
    ASSUME NEW p \in Progress, NEW rev \in Nat
    PROVE  LET q == [Refreshed(p, rev) EXCEPT !.checklist = rev] IN
           /\ q \in Progress
           /\ q.reviewRevision = rev /\ q.checklist = rev
           /\ p.reviewRevision # rev => q.reviewRead = {} /\ q.reviewed = {}
<1> DEFINE r == Refreshed(p, rev)
<1>1. r \in Progress /\ r.reviewRevision = rev
      /\ (p.reviewRevision # rev => r.reviewRead = {} /\ r.reviewed = {})
    BY RefreshedFields
<1> HIDE DEF r
<1>2. LET q == [r EXCEPT !.checklist = rev] IN
      /\ q \in Progress /\ q.checklist = rev /\ q.reviewRevision = r.reviewRevision
      /\ q.reviewRead = r.reviewRead /\ q.reviewed = r.reviewed
    BY <1>1 DEF Progress
<1> QED BY <1>1, <1>2 DEF r

\* Its section is merged: a new revision, of which nothing was reviewed.
LEMMA ChildSubmitsKeeps == ASSUME Inv, NEW k \in Slots, ChildSubmits(k) PROVE Inv'
<1>1. copies[k] # None
    BY DEF ChildSubmits
<1> DEFINE c == [children[k] EXCEPT !.agent = copies[k], !.status = "completed"]
<1>2. children \in Seq(Child) /\ k \in DOMAIN children /\ children[k] \in Child
      /\ TeamTypes /\ SoundNow /\ stage = "editing" /\ copies[k] \in Workspace(Positions)
    BY <1>1, ChildCallStarts DEF Running
<1>3. c \in Child
    BY <1>2, ChildFields
<1>4. children' = [children EXCEPT ![k] = c]
    BY DEF ChildSubmits
<1> HIDE DEF c
<1>5. /\ children' \in Seq(Child) /\ DOMAIN children' = DOMAIN children
      /\ \A j \in DOMAIN children \ {k} : children'[j] = children[j]
    BY <1>2, <1>3, <1>4, ChildReplaced
<1>6. draft' \in Drafts(Positions)
    <2>1. copies[k].draft \in Drafts(Positions)
        BY <1>2 DEF Workspace
    <2> QED BY <1>2, <2>1, SavedIsDraft DEF ChildSubmits, Merged, TeamTypes
<1>7. revision \in Nat /\ revision' = revision + 1 /\ progress \in Progress
      /\ progress.reviewRevision \in Nat /\ progress.reviewRevision <= revision
      /\ acceptedRevision \in Int /\ acceptedRevision <= revision
    BY <1>2 DEF ChildSubmits, TeamTypes, SoundNow, Progress
<1>8. progress.reviewRevision # revision'
    BY <1>7
<1>9. /\ progress' \in Progress
      /\ \/ progress' = progress
         \/ /\ progress'.reviewRevision = revision' /\ progress'.checklist = revision'
            /\ progress'.reviewRead = {} /\ progress'.reviewed = {}
    <2>1. CASE Running = {k}
        <3>1. progress' = [Refreshed(progress, revision') EXCEPT !.checklist = revision']
            BY <2>1 DEF ChildSubmits
        <3> QED BY <3>1, <1>7, <1>8, ChecklistFields
    <2>2. CASE Running # {k}
        BY <2>2, <1>7 DEF ChildSubmits
    <2> QED BY <2>1, <2>2
<1>10. TeamTypes'
    BY <1>2, <1>5, <1>6, <1>7, <1>9 DEF ChildSubmits, TeamTypes
<1>11. SoundNow'
    <2>1. validatedRevision' # revision' /\ acceptedRevision' # revision' /\ acceptedRevision' <= revision'
        BY <1>7 DEF ChildSubmits
    <2>2. stage' # "publish"
        BY <1>2 DEF ChildSubmits
    <2>3. CASE progress' = progress
        BY <1>7, <1>8, <2>1, <2>2, <2>3 DEF SoundNow
    <2>4. CASE progress' # progress
        BY <1>7, <1>9, <2>1, <2>2, <2>4 DEF SoundNow
    <2> QED BY <2>3, <2>4
<1> QED BY <1>1, <1>5, <1>10, <1>11, ChildEndKeeps DEF ChildSubmits

-----------------------------------------------------------------------------
(* The theorems. *)

\* Nothing happens.
LEMMA StutterKeeps == ASSUME Inv, UNCHANGED vars PROVE Inv'
<1> USE InvNow
<1>1. TeamTypes' /\ SoundNow'
    BY DEF vars, team, TeamTypes, SoundNow, TextOf, AllClosed
<1>2. ControlTypes' /\ Sound(checkpoint)' /\ TurnsOK'
    BY DEF vars, team, control, ControlTypes, Sound, TurnsOK, Running
<1> QED BY <1>1, <1>2, InvNext

\* The invariant is inductive.
LEMMA NextKeeps == ASSUME Inv, [Next]_vars PROVE Inv'
<1>1. CASE UNCHANGED vars
    BY <1>1, StutterKeeps
<1>2. CASE MainTool
    <2>1. \A page \in Pages : page \in SUBSET Positions
        <3>1. \A i, j \in Positions : i .. j \subseteq Positions
            BY ConstantsOK DEF Positions
        <3> TAKE page \in Pages
        <3>2. PICK i, j \in Positions : page = i .. j
            BY DEF Pages
        <3> QED BY <3>1, <3>2
    <2> QED BY <1>2, <2>1, RefusedKeeps, SavePlanKeeps, ChecklistKeeps, ValidateKeeps,
               AcceptKeeps, CloseKeeps, FinishKeeps, ReadSourceKeeps, ReadTranslationsKeeps,
               ReadBilingualKeeps, RecordReviewKeeps, WriteKeeps, DispatchKeeps
            DEF MainTool
<1>3. CASE MainStep
    BY <1>3, BeginKeeps, EndKeeps, StopKeeps DEF MainStep
<1>4. CASE Continue \/ TurnsLost
    BY <1>4, ContinueKeeps, LostKeeps
<1>5. CASE \E k \in Slots : ChildStep(k)
    BY <1>5, ChildBeginKeeps, ChildSavesKeeps, ChildSubmitsKeeps, ChildErrorKeeps,
       ChildValidateKeeps, ChildFinishKeeps, ChildWriteKeeps DEF ChildStep
<1> QED BY <1>1, <1>2, <1>3, <1>4, <1>5 DEF Next

\* The inductive invariant: types, what validation, acceptance and evidence say
\* of the team at work and of its checkpoint, and who may have an open turn.
THEOREM Invariance == Spec => []Inv
<1>1. Inv /\ [Next]_vars => Inv'
    BY NextKeeps
<1> QED BY Initial, <1>1, PTL DEF Spec

\* Every variable has its type, for any source and any number of children.
THEOREM TypeCorrect == Spec => []TypeOK
<1>1. Inv => TypeOK
    BY DEF Inv
<1> QED BY <1>1, Invariance, PTL

\* Nothing is published that is incomplete, not validated, or not word for
\* word what the main agent accepted (translation-team.ts:198).
THEOREM PublicationAccepted == Spec => []PublicationWasAccepted
<1>1. Inv => PublicationWasAccepted
    BY InvNow DEF SoundNow, PublicationWasAccepted
<1> QED BY <1>1, Invariance, PTL

\* Review evidence always speaks of the present texts (team-progress.ts:61).
THEOREM EvidenceCurrent == Spec => []EvidenceIsCurrent
<1>1. Inv => EvidenceIsCurrent
    <2> SUFFICES ASSUME Inv PROVE EvidenceIsCurrent
        OBVIOUS
    <2>1. progress \in Progress /\ revision \in Nat /\ SoundNow
        BY InvNow DEF TeamTypes
    <2>2. CASE progress.reviewRevision = revision
        BY <2>1, <2>2, RefreshedFields DEF SoundNow, EvidenceIsCurrent
    <2>3. CASE progress.reviewRevision # revision
        BY <2>1, <2>3, RefreshedFields DEF EvidenceIsCurrent
    <2> QED BY <2>2, <2>3
<1> QED BY <1>1, Invariance, PTL

-----------------------------------------------------------------------------
(* The plan. *)

\* What q knows of the plan and the source, p knew at least.
KeepsPlan(p, q) == (p.plan => q.plan) /\ p.sourceRead \subseteq q.sourceRead

\* The team knows what its checkpoint knows.
PlanInv == KeepsPlan(checkpoint.progress, progress)

\* One field of the evidence changes the others not at all.
LEMMA PlanFields ==
    ASSUME NEW p \in Progress, NEW page, NEW rev, NEW changed
    PROVE  /\ KeepsPlan(p, p)
           /\ KeepsPlan(p, [p EXCEPT !.plan = TRUE])
           /\ KeepsPlan(p, [p EXCEPT !.sourceRead = @ \cup page])
           /\ KeepsPlan(p, [p EXCEPT !.translationRead = @ \cup page])
           /\ KeepsPlan(p, [p EXCEPT !.reviewRead = @ \cup page])
           /\ KeepsPlan(p, [p EXCEPT !.reviewed = @ \cup page])
           /\ KeepsPlan(p, [p EXCEPT !.checklist = rev])
           /\ KeepsPlan(p, Invalidated(p, rev, changed))
BY DEF Progress, KeepsPlan, Invalidated

\* Evidence that is refreshed keeps the plan.
LEMMA PlanRefreshed ==
    ASSUME NEW p \in Progress, NEW rev \in Nat
    PROVE  /\ KeepsPlan(p, Refreshed(p, rev))
           /\ KeepsPlan(p, [Refreshed(p, rev) EXCEPT !.checklist = rev])
<1> DEFINE r == Refreshed(p, rev)
<1>1. r \in Progress /\ r.plan = p.plan /\ r.sourceRead = p.sourceRead
    BY RefreshedFields
<1> HIDE DEF r
<1>2. KeepsPlan(p, r) /\ KeepsPlan(p, [r EXCEPT !.checklist = rev])
    BY <1>1 DEF Progress, KeepsPlan
<1> QED BY <1>2 DEF r

\* A call of a tool adds to the plan or leaves it.
LEMMA ToolKeepsPlan ==
    ASSUME Inv, MainTool
    PROVE  KeepsPlan(progress, progress') /\ checkpoint' = checkpoint
<1>1. progress \in Progress
    BY InvNow DEF TeamTypes
<1>2. CASE RefusedCall
    BY <1>1, <1>2, PlanFields DEF RefusedCall, team
<1>3. CASE SavePlan
    BY <1>1, <1>3, PlanFields DEF SavePlan, Call
<1>4. CASE ReviewChecklist
    BY <1>1, <1>4, PlanFields DEF ReviewChecklist, Call
<1>5. CASE ValidateTranslation \/ AcceptTranslation \/ CloseSubagents \/ FinishTranslation
    BY <1>1, <1>5, PlanFields DEF ValidateTranslation, AcceptTranslation, CloseSubagents, FinishTranslation, Call
<1>6. ASSUME NEW page \in Pages,
             \/ ReadSource(page) \/ ReadTranslations(page) \/ ReadBilingual(page)
             \/ \E rev \in 0 .. revision : RecordReview(page, rev)
      PROVE  KeepsPlan(progress, progress') /\ checkpoint' = checkpoint
    <2>1. CASE ReadSource(page)
        BY <1>1, <2>1, PlanFields DEF ReadSource, Call
    <2>2. CASE ReadTranslations(page)
        BY <1>1, <2>2, PlanFields DEF ReadTranslations, Call
    <2>3. CASE ReadBilingual(page)
        BY <1>1, <2>3, PlanFields DEF ReadBilingual, Call
    <2>4. CASE \E rev \in 0 .. revision : RecordReview(page, rev)
        BY <1>1, <2>4, PlanFields DEF RecordReview, Call
    <2> QED BY <1>6, <2>1, <2>2, <2>3, <2>4
<1>7. ASSUME NEW file \in Files(Positions), NEW merge \in BOOLEAN, WriteTranslations(file, merge)
      PROVE  KeepsPlan(progress, progress') /\ checkpoint' = checkpoint
    BY <1>1, <1>7, PlanFields DEF WriteTranslations, Call
<1>8. ASSUME NEW openingEnd \in Positions \cup {-1}, NEW assignments \in Assignments,
             DispatchSubagents(openingEnd, assignments)
      PROVE  KeepsPlan(progress, progress') /\ checkpoint' = checkpoint
    BY <1>1, <1>8, PlanFields DEF DispatchSubagents, Call
<1> QED BY <1>2, <1>3, <1>4, <1>5, <1>6, <1>7, <1>8 DEF MainTool

\* Every step adds to the plan, or goes back to the checkpoint's; and what is
\* committed is the team's.
LEMMA StepKeepsPlan ==
    ASSUME Inv, [Next]_vars
    PROVE  \/ /\ KeepsPlan(progress, progress')
              /\ checkpoint' = checkpoint \/ checkpoint'.progress = progress'
           \/ progress' = checkpoint.progress /\ checkpoint' = checkpoint
<1>1. progress \in Progress /\ revision \in Nat /\ revision + 1 \in Nat
    BY InvNow DEF TeamTypes
<1>2. Snapshot'.progress = progress'
    BY DEF Snapshot
<1>3. CASE MainTool
    BY <1>3, ToolKeepsPlan
<1>4. CASE BeginTurn
    BY <1>1, <1>4, PlanRefreshed DEF BeginTurn
<1>5. CASE EndTurn \/ Stop \/ Continue \/ UNCHANGED vars
    BY <1>1, <1>2, <1>5, PlanFields DEF EndTurn, Stop, Continue, vars, team, control
<1>6. CASE TurnsLost
    BY <1>6 DEF TurnsLost
<1>7. ASSUME NEW k \in Slots, ChildStep(k)
      PROVE  KeepsPlan(progress, progress') /\ (checkpoint' = checkpoint \/ checkpoint'.progress = progress')
    <2>1. CASE ChildSubmits(k)
        <3>1. revision' = revision + 1 /\ checkpoint' = Snapshot'
            BY <2>1 DEF ChildSubmits
        <3>2. KeepsPlan(progress, progress')
            BY <1>1, <2>1, <3>1, PlanFields, PlanRefreshed DEF ChildSubmits
        <3> QED BY <1>2, <3>1, <3>2
    <2>2. CASE ChildSaves(k)
        BY <1>1, <1>2, <2>2, PlanFields DEF ChildSaves
    <2>3. CASE \/ ChildBegin(k) \/ ChildError(k) \/ ChildValidate(k) \/ ChildFinish(k)
               \/ \E file \in Files(Positions), merge \in BOOLEAN : ChildWrite(k, file, merge)
        BY <1>1, <2>3, PlanFields
           DEF ChildBegin, ChildError, ChildValidate, ChildFinish, ChildWrite, ChildCall, mine, team
    <2> QED BY <1>7, <2>1, <2>2, <2>3 DEF ChildStep
<1> QED BY <1>3, <1>4, <1>5, <1>6, <1>7 DEF Next, MainStep

\* The team's evidence and the checkpoint's never lose the plan, nor what was
\* read of the source: through merges, corrections, lost turns and
\* continuations (team-progress.ts:29).
THEOREM PlanIsKept == Spec => PlanSurvives
<1> DEFINE Survives == /\ checkpoint.progress.plan => checkpoint'.progress.plan
                       /\ checkpoint.progress.sourceRead \subseteq checkpoint'.progress.sourceRead
<1>1. Init => PlanInv
    BY DEF Init, Snapshot, PlanInv, KeepsPlan
<1>2. PlanInv /\ Inv /\ [Next]_vars => PlanInv' /\ Survives
    <2> SUFFICES ASSUME PlanInv, Inv, [Next]_vars PROVE PlanInv' /\ Survives
        OBVIOUS
    <2>1. CASE KeepsPlan(progress, progress') /\ (checkpoint' = checkpoint \/ checkpoint'.progress = progress')
        BY <2>1 DEF PlanInv, KeepsPlan
    <2>2. CASE progress' = checkpoint.progress /\ checkpoint' = checkpoint
        BY <2>2 DEF PlanInv, KeepsPlan
    <2> QED BY <2>1, <2>2, StepKeepsPlan
<1>3. PlanInv /\ Inv /\ [Next]_vars => [Survives]_vars
    BY <1>2
<1>4. PlanInv /\ Inv /\ [Next]_vars => PlanInv'
    BY <1>2
<1> HIDE DEF Survives
<1>5. Spec => [][Survives]_vars
    BY <1>1, <1>3, <1>4, Invariance, PTL DEF Spec
<1> QED BY <1>5 DEF PlanSurvives, Survives

-----------------------------------------------------------------------------
(* Sections and the draft they are merged into. *)

Submitted(cs) == {k \in DOMAIN cs : cs[k].status # "running"}

\* Sections are not empty, do not overlap, and cover the source.
SectionsCover(cs) ==
    /\ \A k \in DOMAIN cs : Section(cs[k]) # {} /\ Section(cs[k]) \subseteq Positions
    /\ \A j, k \in DOMAIN cs : j # k => Section(cs[j]) \cap Section(cs[k]) = {}
    /\ cs # << >> => \A i \in Positions : \E k \in DOMAIN cs : i \in Section(cs[k])

\* The draft is what was submitted.
MergedIn(cs, d) ==
    /\ \A i \in Positions : i \in DOMAIN d <=> \E k \in Submitted(cs) : i \in Section(cs[k])
    /\ \A k \in Submitted(cs) : \A i \in Section(cs[k]) : d[i] = cs[k].agent.draft[i]

\* Every submission was complete and counts as a revision; there are more
\* revisions only when all have submitted.
Assembled(cs, d, rev) ==
    /\ SectionsCover(cs)
    /\ \A k \in Submitted(cs) : Complete(Section(cs[k]), cs[k].agent.draft)
    /\ Cardinality(Submitted(cs)) <= rev
    /\ cs = << >> \/ Submitted(cs) # DOMAIN cs => rev = Cardinality(Submitted(cs))
    /\ rev = Cardinality(Submitted(cs)) => MergedIn(cs, d)

\* What an open turn may have done: before the dispatch nothing but dispatch,
\* and after it only once all have submitted.
TurnIsLocal ==
    IF open THEN /\ checkpoint.stage = "editing"
                 /\ IF checkpoint.children = << >>
                    THEN /\ draft = checkpoint.draft /\ approved = checkpoint.approved
                         /\ stage = "editing" /\ Submitted(children) = {}
                    ELSE /\ Submitted(checkpoint.children) = DOMAIN checkpoint.children
                         /\ children # << >> /\ Submitted(children) = DOMAIN children
    ELSE /\ children = checkpoint.children /\ draft = checkpoint.draft
         /\ revision = checkpoint.revision /\ stage = checkpoint.stage
         /\ approved = checkpoint.approved

AssemblyInv ==
    /\ Assembled(children, draft, revision)
    /\ Assembled(checkpoint.children, checkpoint.draft, checkpoint.revision)
    /\ TurnIsLocal
    /\ stopped => ~open

\* Who has submitted is not running.
LEMMA SubmittedNow == Submitted(children) = DOMAIN children \ Running
BY DEF Submitted, Running

\* They are finitely many.
LEMMA SubmittedFinite ==
    ASSUME NEW cs \in Seq(Child)
    PROVE  IsFiniteSet(Submitted(cs)) /\ Cardinality(Submitted(cs)) \in Nat
<1>1. IsFiniteSet(1 .. Len(cs))
    BY FS_Interval
<1>2. Submitted(cs) \in SUBSET (1 .. Len(cs))
    BY DEF Submitted
<1>3. IsFiniteSet(Submitted(cs))
    BY <1>1, <1>2, FS_Subset
<1> QED BY <1>3, FS_CardinalityType

\* Nothing is assembled of nothing.
LEMMA AssembledAtFirst ==
    ASSUME NEW d, DOMAIN d = {}
    PROVE  Assembled(<< >>, d, 0)
<1>1. Submitted(<< >>) = {} /\ DOMAIN << >> = {}
    BY DEF Submitted
<1>2. Cardinality(Submitted(<< >>)) = 0
    BY <1>1, FS_EmptySet
<1> QED BY <1>1, <1>2 DEF Assembled, SectionsCover, MergedIn

\* So it is at the start.
LEMMA AssemblyInitial == Init => AssemblyInv
<1> SUFFICES ASSUME Init PROVE AssemblyInv
    OBVIOUS
<1>1. DOMAIN EmptyDraft = {}
    BY DEF EmptyDraft
<1>2. Assembled(children, draft, revision)
    BY <1>1, AssembledAtFirst DEF Init
<1>3. /\ checkpoint.children = children /\ checkpoint.draft = draft
      /\ checkpoint.revision = revision /\ checkpoint.stage = stage
      /\ checkpoint.approved = approved
    BY DEF Init, Snapshot
<1> QED BY <1>2, <1>3 DEF AssemblyInv, TurnIsLocal, Init

\* A step that touches neither the sections nor the draft nor its approval.
LEMMA QuietStep ==
    ASSUME AssemblyInv,
           UNCHANGED <<children, draft, revision, stage, approved, checkpoint, open, stopped>>
    PROVE  AssemblyInv'
BY DEF AssemblyInv, TurnIsLocal

\* A step that saves the team after it.
LEMMA SavingStep ==
    ASSUME Assembled(children, draft, revision)', checkpoint' = Snapshot', open' = FALSE
    PROVE  AssemblyInv'
<1>1. /\ checkpoint'.children = children' /\ checkpoint'.draft = draft'
      /\ checkpoint'.revision = revision' /\ checkpoint'.stage = stage'
      /\ checkpoint'.approved = approved'
    BY DEF Snapshot
<1> QED BY <1>1 DEF AssemblyInv, TurnIsLocal

\* A dispatch is a list of sections that cover the source.
LEMMA DispatchAssembles ==
    ASSUME Inv, AssemblyInv, NEW openingEnd \in Positions \cup {-1}, NEW assignments \in Assignments,
           DispatchSubagents(openingEnd, assignments)
    PROVE  AssemblyInv'
<1> DEFINE sections == (IF openingEnd = -1 THEN << >> ELSE << <<0, openingEnd>> >>) \o assignments
<1>1. /\ children = << >> /\ open /\ stage = "editing"
      /\ UNCHANGED <<draft, revision, stage, approved, checkpoint, open, stopped>>
    BY DEF DispatchSubagents, Call, workspace
<1>2. sections # << >> /\ Covers(sections, Cues)
      /\ children' = [k \in DOMAIN sections |->
                        [first |-> sections[k][1], last |-> sections[k][2],
                         status |-> "running", agent |-> NewWorkspace]]
    BY DEF DispatchSubagents
<1>3. children' \in Seq(Child) /\ children \in Seq(Child)
    BY DispatchKeeps, InvNow, InvNext DEF TeamTypes
<1>4. \A k \in DOMAIN sections : sections[k][1] \in Int /\ sections[k][2] \in Int
    <2>1. \A k \in DOMAIN children' : children'[k] \in Child
        BY <1>3
    <2>2. \A k \in DOMAIN sections : children'[k].first = sections[k][1] /\ children'[k].last = sections[k][2]
        BY <1>2
    <2>3. \A k \in DOMAIN children' : children'[k].first \in Positions /\ children'[k].last \in Positions
        BY <2>1 DEF Child
    <2>4. DOMAIN children' = DOMAIN sections
        BY <1>2
    <2> QED BY <2>2, <2>3, <2>4 DEF Positions
<1> HIDE DEF sections
<1>5. \A k \in DOMAIN children' : Section(children'[k]) = sections[k][1] .. sections[k][2]
    BY <1>2 DEF Section
<1>6. DOMAIN children' = DOMAIN sections /\ Submitted(children') = {}
    BY <1>2 DEF Submitted
<1>7. children' # << >> /\ \A k \in DOMAIN sections : k \in Int /\ 1 <= k
    <2>1. DOMAIN children' = 1 .. Len(children')
        BY <1>3
    <2>2. PICK i \in Positions : TRUE
        BY ConstantsOK DEF Positions
    <2>3. \E k \in DOMAIN sections : i \in sections[k][1] .. sections[k][2]
        BY <1>2, <2>2 DEF Covers, Positions
    <2> QED BY <1>6, <2>1, <2>3
<1>8. SectionsCover(children')
    <2>1. ASSUME NEW k \in DOMAIN children' PROVE Section(children'[k]) # {} /\ Section(children'[k]) \subseteq Positions
        <3>1. sections[k][1] <= sections[k][2]
            BY <1>2, <1>6 DEF Covers
        <3>2. sections[k][1] \in Positions /\ sections[k][2] \in Positions
            <4>1. children'[k] \in Child
                BY <1>3
            <4>2. children'[k].first = sections[k][1] /\ children'[k].last = sections[k][2]
                BY <1>2, <1>6
            <4> QED BY <4>1, <4>2 DEF Child
        <3>3. \A a, b \in Positions : a <= b => a \in a .. b /\ a .. b \subseteq Positions
            BY ConstantsOK DEF Positions
        <3> QED BY <1>5, <3>1, <3>2, <3>3
    <2>2. ASSUME NEW j \in DOMAIN children', NEW k \in DOMAIN children', j # k
          PROVE  Section(children'[j]) \cap Section(children'[k]) = {}
        <3>1. j < k => sections[j][2] < sections[k][1]
            BY <1>2, <1>6, <1>7, <2>2 DEF Covers
        <3>2. k < j => sections[k][2] < sections[j][1]
            BY <1>2, <1>6, <1>7, <2>2 DEF Covers
        <3>3. j < k \/ k < j
            BY <1>6, <1>7, <2>2
        <3> QED BY <1>4, <1>5, <1>6, <3>1, <3>2, <3>3
    <2>3. \A i \in Positions : \E k \in DOMAIN children' : i \in Section(children'[k])
        BY <1>2, <1>5, <1>6 DEF Covers, Positions
    <2> QED BY <2>1, <2>2, <2>3 DEF SectionsCover
<1>9. Assembled(children', draft', revision')
    <2>1. Submitted(children) = {}
        BY <1>1 DEF Submitted
    <2>2. Cardinality({}) = 0
        BY FS_EmptySet
    <2>3. revision = 0 /\ MergedIn(children, draft)
        BY <1>1, <2>1, <2>2 DEF AssemblyInv, Assembled
    <2>4. MergedIn(children', draft')
        BY <1>1, <1>6, <2>1, <2>3 DEF MergedIn
    <2> QED BY <1>1, <1>6, <1>8, <2>2, <2>3, <2>4 DEF Assembled
<1>10. TurnIsLocal'
    <2>1. checkpoint.children = << >>
        BY <1>1 DEF AssemblyInv, TurnIsLocal
    <2> QED BY <1>1, <1>6, <2>1 DEF AssemblyInv, TurnIsLocal
<1> QED BY <1>1, <1>9, <1>10 DEF AssemblyInv

\* A turn that finds all sections submitted goes on after the dispatch.
LEMMA CompletedTurn ==
    ASSUME AssemblyInv, open, Completed
    PROVE  /\ checkpoint.children # << >> /\ checkpoint.stage = "editing"
           /\ Submitted(checkpoint.children) = DOMAIN checkpoint.children
           /\ Submitted(children) = DOMAIN children /\ children # << >>
<1>1. Submitted(children) = DOMAIN children /\ children # << >>
    BY DEF Completed, Running, Submitted
<1> QED BY <1>1 DEF AssemblyInv, TurnIsLocal, Submitted

\* A correction, an acceptance and the submission are steps of such a turn.
LEMMA ReviewAssembles ==
    ASSUME Inv, AssemblyInv,
           \/ \E file \in Files(Positions), merge \in BOOLEAN : WriteTranslations(file, merge)
           \/ AcceptTranslation \/ FinishTranslation
    PROVE  AssemblyInv'
<1>1. /\ open /\ Completed /\ UNCHANGED <<children, checkpoint, open, stopped>>
      /\ \/ UNCHANGED <<draft, revision>>
         \/ revision' = revision + 1
    BY DEF WriteTranslations, AcceptTranslation, FinishTranslation, Call, workspace, Accepted
<1>2. revision \in Nat /\ Cardinality(Submitted(children)) \in Nat
    BY InvNow, SubmittedFinite DEF TeamTypes
<1>3. Assembled(children, draft, revision)'
    BY <1>1, <1>2, CompletedTurn DEF AssemblyInv, Assembled
<1>4. TurnIsLocal'
    BY <1>1, CompletedTurn DEF TurnIsLocal
<1> QED BY <1>1, <1>3, <1>4 DEF AssemblyInv

\* What is said of sections and submissions does not depend on anything else.
LEMMA AssembledSame ==
    ASSUME NEW cs, NEW ds, NEW d, NEW rev, Assembled(cs, d, rev),
           DOMAIN ds = DOMAIN cs, Submitted(ds) = Submitted(cs), ds = << >> <=> cs = << >>,
           \A k \in DOMAIN cs : Section(ds[k]) = Section(cs[k]),
           \A k \in Submitted(cs) : ds[k].agent = cs[k].agent
    PROVE  Assembled(ds, d, rev)
<1>1. Submitted(cs) \subseteq DOMAIN cs
    BY DEF Submitted
<1>2. SectionsCover(ds)
    BY DEF Assembled, SectionsCover
<1>3. \A k \in Submitted(ds) : Complete(Section(ds[k]), ds[k].agent.draft)
    BY <1>1 DEF Assembled
<1>4. MergedIn(cs, d) => MergedIn(ds, d)
    BY <1>1 DEF MergedIn
<1> QED BY <1>2, <1>3, <1>4 DEF Assembled

\* A team without children has an empty list of them.
LEMMA NoChildren == \A cs \in Seq(Child) : cs = << >> <=> DOMAIN cs = {}
BY EmptySeq

\* Closing the children changes no section.
LEMMA CloseAssembles == ASSUME Inv, AssemblyInv, CloseSubagents PROVE AssemblyInv'
<1>1. /\ open /\ Completed /\ UNCHANGED <<draft, revision, stage, approved, checkpoint, open, stopped>>
      /\ children' = [k \in DOMAIN children |-> [children[k] EXCEPT !.status = "closed"]]
    BY DEF CloseSubagents, Call, workspace, Accepted
<1>2. \A k \in DOMAIN children : children[k] \in Child
    BY InvNow DEF TeamTypes
<1>3. DOMAIN children' = DOMAIN children
    BY <1>1
<1>4. \A k \in DOMAIN children : /\ children'[k].first = children[k].first
                                 /\ children'[k].last = children[k].last
                                 /\ children'[k].agent = children[k].agent
                                 /\ children'[k].status = "closed"
    BY <1>1, <1>2 DEF Child
<1>5. Submitted(children') = DOMAIN children' /\ Submitted(children) = DOMAIN children
    BY <1>1, <1>3, <1>4, CompletedTurn DEF Submitted
<1>6. children # << >> /\ children' # << >>
    <2>1. children \in Seq(Child) /\ children # << >>
        BY <1>1, InvNow DEF TeamTypes, Completed
    <2>2. DOMAIN children # {}
        BY <2>1, NoChildren
    <2> QED BY <1>3, <2>1, <2>2
<1>7. Assembled(children', draft, revision)
    BY <1>3, <1>4, <1>5, <1>6, AssembledSame DEF AssemblyInv, Section
<1>8. TurnIsLocal'
    BY <1>1, <1>5, <1>6, CompletedTurn DEF TurnIsLocal
<1> QED BY <1>1, <1>7, <1>8 DEF AssemblyInv

\* A turn begins with what was committed.
LEMMA BeginAssembles == ASSUME AssemblyInv, BeginTurn PROVE AssemblyInv'
<1>1. UNCHANGED <<children, draft, revision, stage, approved, checkpoint, stopped>> /\ open'
    BY DEF BeginTurn, workspace
<1>2. ~open /\ ~stopped /\ stage = "editing" /\ Submitted(children) = DOMAIN children
    BY DEF BeginTurn, Waiting, Running, Submitted
<1>3. TurnIsLocal'
    BY <1>1, <1>2 DEF AssemblyInv, TurnIsLocal, Submitted
<1> QED BY <1>1, <1>2, <1>3 DEF AssemblyInv

\* What it leaves is committed.
LEMMA EndAssembles == ASSUME AssemblyInv, EndTurn \/ Continue PROVE AssemblyInv'
<1>1. UNCHANGED <<children, draft, revision>> /\ checkpoint' = Snapshot'
    BY DEF EndTurn, Continue, workspace
<1>2. open' = FALSE
    BY DEF EndTurn, Continue, AssemblyInv
<1> QED BY <1>1, <1>2, SavingStep DEF AssemblyInv

\* A task that ends keeps what it has.
LEMMA StopAssembles == ASSUME AssemblyInv, Stop PROVE AssemblyInv'
BY DEF AssemblyInv, Stop, Waiting, team, TurnIsLocal

\* Turns that are lost leave what was committed.
LEMMA LostAssembles == ASSUME AssemblyInv, TurnsLost PROVE AssemblyInv'
BY DEF AssemblyInv, TurnsLost, TurnIsLocal

\* What a child's turn starts from.
LEMMA ChildTurn ==
    ASSUME Inv, AssemblyInv, NEW k \in Slots, copies[k] # None
    PROVE  /\ children \in Seq(Child) /\ k \in DOMAIN children /\ children[k] \in Child
           /\ k \notin Submitted(children) /\ ~open
           /\ revision = Cardinality(Submitted(children)) /\ MergedIn(children, draft)
           /\ children # << >>
<1>1. /\ children \in Seq(Child) /\ k \in DOMAIN children /\ children[k] \in Child
      /\ children[k].status = "running" /\ ~open
    BY ChildCallStarts DEF Running
<1>2. k \notin Submitted(children)
    BY <1>1 DEF Submitted
<1> QED BY <1>1, <1>2, NoChildren DEF AssemblyInv, Assembled

\* A child that has not submitted changes nothing that counts.
LEMMA ChildSavesAssembles ==
    ASSUME Inv, AssemblyInv, NEW k \in Slots, ChildSaves(k)
    PROVE  /\ AssemblyInv' /\ Submitted(children') = Submitted(children)
           /\ \A j \in DOMAIN children : Section(children'[j]) = Section(children[j])
           /\ children' # << >> /\ children # << >> /\ DOMAIN children' = DOMAIN children
<1>1. copies[k] # None /\ copies[k] \in Workspace(Positions)
    BY ChildCallStarts DEF ChildSaves
<1> DEFINE c == [children[k] EXCEPT !.agent = copies[k]]
<1>2. /\ UNCHANGED <<draft, revision>> /\ checkpoint' = Snapshot' /\ open' = open
      /\ children' = [children EXCEPT ![k] = c]
    BY DEF ChildSaves, workspace
<1>3. c.first = children[k].first /\ c.last = children[k].last /\ c.status = children[k].status
    BY <1>1, ChildTurn DEF Child
<1>4. c \in Child
    BY <1>1, ChildTurn, ChildFields
<1> HIDE DEF c
<1>5. /\ children' \in Seq(Child) /\ DOMAIN children' = DOMAIN children /\ children'[k] = c
      /\ \A j \in DOMAIN children \ {k} : children'[j] = children[j]
    BY <1>1, <1>2, <1>4, ChildTurn, ChildReplaced
<1>6. /\ Submitted(children') = Submitted(children)
      /\ \A j \in DOMAIN children : Section(children'[j]) = Section(children[j])
      /\ \A j \in Submitted(children) : children'[j].agent = children[j].agent
    BY <1>1, <1>3, <1>5, ChildTurn DEF Submitted, Section
<1>7. children' # << >> /\ children # << >>
    BY <1>1, <1>5, ChildTurn, NoChildren
<1>8. Assembled(children', draft', revision')
    BY <1>2, <1>5, <1>6, <1>7, AssembledSame DEF AssemblyInv
<1>9. open' = FALSE
    BY <1>1, <1>2, ChildTurn, InvNow DEF ControlTypes
<1> QED BY <1>2, <1>5, <1>6, <1>7, <1>8, <1>9, SavingStep

\* A submission adds its section to the submitted ones, and nothing else.
LEMMA ChildSubmitsAssembles ==
    ASSUME Inv, AssemblyInv, NEW k \in Slots, ChildSubmits(k)
    PROVE  /\ AssemblyInv' /\ Submitted(children') = Submitted(children) \cup {k}
           /\ MergedIn(children', draft')
           /\ \A j \in DOMAIN children : Section(children'[j]) = Section(children[j])
           /\ children' # << >> /\ DOMAIN children' = DOMAIN children
           /\ \A j \in Submitted(children) : children'[j] = children[j]
<1>1. copies[k] # None /\ copies[k] \in Workspace(Positions)
    BY ChildCallStarts DEF ChildSubmits
<1> DEFINE c == [children[k] EXCEPT !.agent = copies[k], !.status = "completed"]
<1>2. /\ draft' = Merged(draft, copies[k].draft) /\ revision' = revision + 1
      /\ checkpoint' = Snapshot' /\ open' = open
      /\ children' = [children EXCEPT ![k] = c]
      /\ Complete(Section(children[k]), copies[k].draft)
    BY DEF ChildSubmits, Submittable
<1>3. c.first = children[k].first /\ c.last = children[k].last /\ c.status = "completed"
      /\ c.agent = copies[k]
    <2>1. /\ children[k] \in Child
          /\ [children[k] EXCEPT !.agent = copies[k]] \in Child
          /\ [children[k] EXCEPT !.agent = copies[k]].first = children[k].first
          /\ [children[k] EXCEPT !.agent = copies[k]].last = children[k].last
          /\ [children[k] EXCEPT !.agent = copies[k]].agent = copies[k]
        BY <1>1, ChildTurn DEF Child
    <2>2. \A u \in Child : LET v == [u EXCEPT !.status = "completed"] IN
             v.first = u.first /\ v.last = u.last /\ v.agent = u.agent /\ v.status = "completed"
        BY DEF Child
    <2> QED BY <2>1, <2>2
<1>4. c \in Child
    BY <1>1, ChildTurn, ChildFields
<1> HIDE DEF c
<1>5. /\ children' \in Seq(Child) /\ DOMAIN children' = DOMAIN children /\ children'[k] = c
      /\ \A j \in DOMAIN children \ {k} : children'[j] = children[j]
    BY <1>1, <1>2, <1>4, ChildTurn, ChildReplaced
<1>6. /\ Submitted(children') = Submitted(children) \cup {k}
      /\ \A j \in DOMAIN children : Section(children'[j]) = Section(children[j])
      /\ \A j \in Submitted(children) : children'[j] = children[j]
    BY <1>1, <1>3, <1>5, ChildTurn DEF Submitted, Section
<1>7. children' # << >>
    BY <1>1, <1>5, ChildTurn, NoChildren
<1>8. SectionsCover(children')
    BY <1>5, <1>6, <1>7, <1>1, ChildTurn DEF AssemblyInv, Assembled, SectionsCover
<1>9. \A j \in Submitted(children') : Complete(Section(children'[j]), children'[j].agent.draft)
    <2>1. \A j \in Submitted(children) : j \in DOMAIN children /\ Complete(Section(children[j]), children[j].agent.draft)
        BY DEF AssemblyInv, Assembled, Submitted
    <2>2. Complete(Section(children'[k]), children'[k].agent.draft)
        BY <1>1, <1>2, <1>3, <1>5, <1>6, ChildTurn
    <2> QED BY <1>6, <2>1, <2>2
<1>10. revision' = Cardinality(Submitted(children'))
    <2>1. IsFiniteSet(Submitted(children)) /\ Cardinality(Submitted(children)) \in Nat
        BY <1>1, ChildTurn, SubmittedFinite
    <2>2. Cardinality(Submitted(children) \cup {k}) = Cardinality(Submitted(children)) + 1
        BY <1>1, <2>1, ChildTurn, FS_AddElement
    <2> QED BY <1>1, <1>2, <1>6, <2>2, ChildTurn
<1>11. MergedIn(children', draft')
    <2>1. /\ DOMAIN draft' = Section(children[k]) \cup DOMAIN draft
          /\ \A i \in Section(children[k]) : draft'[i] = copies[k].draft[i]
          /\ \A i \in DOMAIN draft \ Section(children[k]) : draft'[i] = draft[i]
        BY <1>2 DEF Merged, Saved, Complete
    <2>2. \A j \in Submitted(children) : /\ j \in DOMAIN children /\ j # k
                                         /\ Section(children[j]) \cap Section(children[k]) = {}
                                         /\ Section(children[j]) \subseteq DOMAIN draft
        <3> TAKE j \in Submitted(children)
        <3>1. j \in DOMAIN children /\ j # k
            BY <1>1, ChildTurn DEF Submitted
        <3>2. Section(children[j]) \cap Section(children[k]) = {} /\ Section(children[j]) \subseteq Positions
            BY <1>1, <3>1, ChildTurn DEF AssemblyInv, Assembled, SectionsCover
        <3>3. Section(children[j]) \subseteq DOMAIN draft
            BY <1>1, <3>2, ChildTurn DEF MergedIn
        <3> QED BY <3>1, <3>2, <3>3
    <2>3. \A i \in Positions : i \in DOMAIN draft' <=> \E j \in Submitted(children') : i \in Section(children'[j])
        BY <1>1, <1>6, <2>1, <2>2, ChildTurn DEF MergedIn
    <2>4. \A j \in Submitted(children) : \A i \in Section(children[j]) : draft'[i] = children[j].agent.draft[i]
        BY <1>1, <2>1, <2>2, ChildTurn DEF MergedIn
    <2>5. \A i \in Section(children'[k]) : draft'[i] = children'[k].agent.draft[i]
        BY <1>1, <1>3, <1>5, <1>6, <2>1, ChildTurn
    <2> QED BY <1>6, <2>2, <2>3, <2>4, <2>5 DEF MergedIn
<1>12. Assembled(children', draft', revision')
    <2>1. revision' <= revision'
        BY InvNow, <1>2 DEF TeamTypes
    <2> QED BY <1>7, <1>8, <1>9, <1>10, <1>11, <2>1 DEF Assembled
<1>13. open' = FALSE
    BY <1>1, <1>2, ChildTurn, InvNow DEF ControlTypes
<1> QED BY <1>2, <1>5, <1>6, <1>7, <1>11, <1>12, <1>13, SavingStep

\* The invariant of the sections is inductive.
LEMMA AssemblyStep == ASSUME Inv, AssemblyInv, [Next]_vars PROVE AssemblyInv'
<1>1. CASE UNCHANGED vars
    BY <1>1, QuietStep DEF vars, team, control
<1>2. CASE MainTool
    <2>1. CASE \/ RefusedCall \/ SavePlan \/ ReviewChecklist \/ ValidateTranslation
               \/ \E page \in Pages : \/ ReadSource(page) \/ ReadTranslations(page) \/ ReadBilingual(page)
                                     \/ \E rev \in 0 .. revision : RecordReview(page, rev)
        BY <2>1, QuietStep DEF RefusedCall, SavePlan, ReviewChecklist, ValidateTranslation, ReadSource,
           ReadTranslations, ReadBilingual, RecordReview, Call, workspace, team
    <2> QED BY <1>2, <2>1, ReviewAssembles, CloseAssembles, DispatchAssembles DEF MainTool
<1>3. CASE MainStep \/ Continue \/ TurnsLost
    BY <1>3, BeginAssembles, EndAssembles, StopAssembles, LostAssembles DEF MainStep
<1>4. ASSUME NEW k \in Slots, ChildStep(k) PROVE AssemblyInv'
    <2>1. CASE \/ ChildBegin(k) \/ ChildError(k) \/ ChildValidate(k) \/ ChildFinish(k)
               \/ \E file \in Files(Positions), merge \in BOOLEAN : ChildWrite(k, file, merge)
        BY <2>1, QuietStep DEF ChildBegin, ChildError, ChildValidate, ChildFinish, ChildWrite, ChildCall, mine, team
    <2> QED BY <1>4, <2>1, ChildSavesAssembles, ChildSubmitsAssembles DEF ChildStep
<1> QED BY <1>1, <1>2, <1>3, <1>4 DEF Next

\* The sections and the draft fit each other, at work and in the checkpoint.
LEMMA Assembly == Spec => [](Inv /\ AssemblyInv)
<1>1. Inv /\ AssemblyInv /\ [Next]_vars => Inv' /\ AssemblyInv'
    BY NextKeeps, AssemblyStep
<1>2. Init => Inv /\ AssemblyInv
    BY Initial, AssemblyInitial
<1> QED BY <1>1, <1>2, PTL DEF Spec

\* Until the first correction the merged draft is exactly what the children
\* submitted, for any source, any sections and any order of submissions
\* (translation-team.ts:289).
THEOREM SectionsAreMerged == Spec => []SectionsMerged
<1>1. AssemblyInv => SectionsMerged
    BY SubmittedNow DEF AssemblyInv, Assembled, MergedIn, SectionsMerged
<1> QED BY <1>1, Assembly, PTL

-----------------------------------------------------------------------------
(* The refinement of TeamPromise. *)

\* The cues of a promise are those of the submitted sections.
LEMMA SubmittedCuesAre ==
    \A i : i \in SubmittedCues <=>
        \E k \in Submitted(checkpoint.children) : i \in Section(checkpoint.children[k])
BY DEF SubmittedCues, Submitted

\* All cues are submitted exactly when all sections are.
LEMMA AllSubmitted ==
    ASSUME SectionsCover(checkpoint.children), checkpoint.children # << >>
    PROVE  /\ SubmittedCues \subseteq Positions
           /\ SubmittedCues = Positions <=> Submitted(checkpoint.children) = DOMAIN checkpoint.children
<1> DEFINE cs == checkpoint.children
<1> USE DEF SectionsCover
<1>1. Submitted(cs) \subseteq DOMAIN cs
    BY DEF Submitted
<1>2. SubmittedCues \subseteq Positions
    BY <1>1, SubmittedCuesAre
<1>3. ASSUME Submitted(cs) = DOMAIN cs PROVE SubmittedCues = Positions
    BY <1>2, <1>3, SubmittedCuesAre
<1>4. ASSUME Submitted(cs) # DOMAIN cs PROVE SubmittedCues # Positions
    <2>1. PICK j \in DOMAIN cs : j \notin Submitted(cs)
        BY <1>1, <1>4
    <2>2. PICK i \in Section(cs[j]) : i \in Positions
        OBVIOUS
    <2>3. ASSUME NEW k \in Submitted(cs) PROVE i \notin Section(cs[k])
        <3>1. k \in DOMAIN cs /\ k # j
            BY <1>1, <2>1
        <3> QED BY <2>1, <2>2, <3>1
    <2>4. i \notin SubmittedCues
        BY <2>3, SubmittedCuesAre
    <2> QED BY <2>2, <2>4
<1> QED BY <1>2, <1>3, <1>4

\* The team begins where its promise does.
LEMMA PromiseInitial == Init => Promise!Init
<1> SUFFICES ASSUME Init PROVE Promise!Init
    OBVIOUS
<1>1. checkpoint.children = << >> /\ checkpoint.draft = EmptyDraft /\ checkpoint.approved = None
    BY DEF Init, Snapshot
<1>2. SubmittedCues = {}
    BY <1>1, SubmittedCuesAre DEF Submitted
<1> QED BY <1>1, <1>2 DEF Promise!Init, PromisedPhase, ApprovedPairs, EmptyDraft

\* What the abstract team sees of a step.
LEMMA SeenUnchanged ==
    ASSUME checkpoint'.children = checkpoint.children, checkpoint'.draft = checkpoint.draft,
           checkpoint'.stage = checkpoint.stage, checkpoint'.approved = checkpoint.approved
    PROVE  UNCHANGED Promise!pvars
BY DEF Promise!pvars, PromisedPhase, SubmittedCues, ApprovedPairs

\* What is committed is the team as it is.
LEMMA SavedNow ==
    ASSUME checkpoint' = Snapshot'
    PROVE  /\ checkpoint'.children = children' /\ checkpoint'.draft = draft'
           /\ checkpoint'.stage = stage' /\ checkpoint'.approved = approved'
BY DEF Snapshot

\* A main turn plans, reviews or publishes.
LEMMA EndTurnMaps ==
    ASSUME Inv, AssemblyInv, Inv', AssemblyInv', EndTurn
    PROVE  [Promise!Next]_(Promise!pvars)
<1>1. /\ open /\ checkpoint' = Snapshot'
      /\ UNCHANGED <<children, draft, revision, stage, approved, acceptedRevision, validatedRevision>>
    BY DEF EndTurn, workspace
<1>2. /\ checkpoint'.children = children /\ checkpoint'.draft = draft
      /\ checkpoint'.stage = stage /\ checkpoint'.approved = approved
    BY <1>1, SavedNow
<1>3. checkpoint.stage = "editing"
    BY <1>1 DEF AssemblyInv, TurnIsLocal
<1>4. CASE checkpoint.children = << >> /\ children = << >>
    <2>1. draft = checkpoint.draft /\ approved = checkpoint.approved /\ stage = "editing"
        BY <1>1, <1>4 DEF AssemblyInv, TurnIsLocal
    <2> QED BY <1>2, <1>3, <1>4, <2>1, SeenUnchanged
<1>5. CASE checkpoint.children = << >> /\ children # << >>
    <2>1. draft = checkpoint.draft /\ approved = checkpoint.approved /\ stage = "editing"
          /\ Submitted(children) = {}
        BY <1>1, <1>5 DEF AssemblyInv, TurnIsLocal
    <2>2. SubmittedCues = {}
        BY <1>5, SubmittedCuesAre DEF Submitted
    <2>3. SubmittedCues' = {}
        BY <1>2, <2>1 DEF SubmittedCues, Submitted
    <2>4. Positions # {}
        BY ConstantsOK DEF Positions
    <2>5. PromisedPhase = "planning" /\ PromisedPhase' = "translating"
        BY <1>2, <1>5, <2>3, <2>4 DEF PromisedPhase
    <2>6. ApprovedPairs' = ApprovedPairs
        BY <1>2, <2>1 DEF ApprovedPairs
    <2> QED BY <1>2, <2>1, <2>2, <2>3, <2>5, <2>6 DEF Promise!Next, Promise!Plan
<1>6. CASE checkpoint.children # << >>
    <2>1. /\ Submitted(checkpoint.children) = DOMAIN checkpoint.children
          /\ children # << >> /\ Submitted(children) = DOMAIN children
        BY <1>1, <1>6 DEF AssemblyInv, TurnIsLocal
    <2>2. SubmittedCues = Positions
        BY <1>6, <2>1, AllSubmitted DEF AssemblyInv, Assembled
    <2>3. SectionsCover(children)
        BY DEF AssemblyInv, Assembled
    <2>4. SubmittedCues' = Positions
        <3>1. \A i : i \in SubmittedCues' <=> \E k \in DOMAIN children : i \in Section(children[k])
            BY <1>2, <2>1 DEF SubmittedCues, Submitted
        <3>2. \A i \in Positions : \E k \in DOMAIN children : i \in Section(children[k])
            BY <2>1, <2>3 DEF SectionsCover
        <3>3. \A k \in DOMAIN children : Section(children[k]) \subseteq Positions
            BY <2>3 DEF SectionsCover
        <3> QED BY <3>1, <3>2, <3>3
    <2>5. PromisedPhase = "review"
        BY <1>3, <1>6, <2>2 DEF PromisedPhase
    <2>6. draft \in Drafts(Positions) /\ stage \in {"editing", "publish"}
        BY InvNow DEF TeamTypes
    <2>7. CASE stage = "editing"
        <3>1. PromisedPhase' = "review"
            BY <1>2, <2>1, <2>4, <2>7 DEF PromisedPhase
        <3>2. checkpoint'.draft \in Promise!Drafts
            BY <1>2, <2>6 DEF Drafts, Promise!Drafts
        <3> QED BY <2>2, <2>4, <2>5, <3>1, <3>2 DEF Promise!Next, Promise!Review
    <2>8. CASE stage = "publish"
        <3>1. PromisedPhase' = "published"
            BY <1>2, <2>1, <2>4, <2>8 DEF PromisedPhase
        <3>2. approved = draft /\ Complete(Positions, draft)
            BY <2>8, InvNow DEF SoundNow
        <3>3. draft \in [Positions -> Texts]
            BY <2>6, <3>2, DraftIs DEF Complete
        <3>4. None # draft
            BY <2>6, ConstantsOK DEF Positions
        <3>5. ApprovedPairs' = Promise!Pairs(checkpoint'.draft)
            BY <1>2, <3>2, <3>4 DEF ApprovedPairs, Promise!Pairs
        <3> QED BY <1>2, <2>2, <2>4, <2>5, <3>1, <3>3, <3>5 DEF Promise!Next, Promise!Publish
    <2> QED BY <2>6, <2>7, <2>8
<1> QED BY <1>4, <1>5, <1>6

\* A child that has not submitted changes nothing that is promised.
LEMMA ChildSavesMaps ==
    ASSUME Inv, AssemblyInv, NEW k \in Slots, ChildSaves(k)
    PROVE  UNCHANGED Promise!pvars
<1>1. checkpoint' = Snapshot' /\ UNCHANGED <<draft, stage, approved>> /\ ~open
    BY ChildTurn DEF ChildSaves, workspace
<1>2. /\ checkpoint'.children = children' /\ checkpoint'.draft = checkpoint.draft
      /\ checkpoint'.stage = checkpoint.stage /\ checkpoint'.approved = checkpoint.approved
      /\ checkpoint.children = children
    BY <1>1, SavedNow DEF AssemblyInv, TurnIsLocal
<1>3. /\ Submitted(children') = Submitted(children)
      /\ \A j \in Submitted(children) : Section(children'[j]) = Section(children[j])
      /\ children' # << >> /\ children # << >>
    BY ChildSavesAssembles DEF Submitted
<1>4. SubmittedCues' = SubmittedCues
    <2>1. \A i : i \in SubmittedCues' <=> \E j \in Submitted(children') : i \in Section(children'[j])
        BY <1>2 DEF SubmittedCues, Submitted
    <2> QED BY <1>2, <1>3, <2>1, SubmittedCuesAre
<1> QED BY <1>2, <1>3, <1>4 DEF Promise!pvars, PromisedPhase, ApprovedPairs

\* One that has submitted adds its section to the text.
LEMMA ChildSubmitsMaps ==
    ASSUME Inv, AssemblyInv, Inv', AssemblyInv', NEW k \in Slots, ChildSubmits(k)
    PROVE  Promise!Submit
<1>1. copies[k] # None
    BY DEF ChildSubmits
<1>2. checkpoint' = Snapshot' /\ UNCHANGED <<stage, approved>> /\ ~open /\ stage = "editing"
    BY <1>1, ChildTurn, ChildCallStarts DEF ChildSubmits
<1>3. /\ checkpoint'.children = children' /\ checkpoint'.draft = draft'
      /\ checkpoint'.stage = "editing" /\ checkpoint'.approved = checkpoint.approved
      /\ checkpoint.children = children /\ checkpoint.draft = draft
    BY <1>2, SavedNow DEF AssemblyInv, TurnIsLocal
<1>4. /\ Submitted(children') = Submitted(children) \cup {k}
      /\ MergedIn(children', draft')
      /\ \A j \in DOMAIN children : Section(children'[j]) = Section(children[j])
      /\ \A j \in Submitted(children) : children'[j] = children[j]
      /\ children' # << >>
    BY ChildSubmitsAssembles
<1>5. /\ k \in DOMAIN children /\ k \notin Submitted(children) /\ Submitted(children) \subseteq DOMAIN children
      /\ MergedIn(children, draft) /\ SectionsCover(children) /\ children # << >>
    BY <1>1, ChildTurn DEF AssemblyInv, Assembled, Submitted
<1>6. \A i : i \in SubmittedCues <=> \E j \in Submitted(children) : i \in Section(children[j])
    BY <1>3, SubmittedCuesAre
<1>7. \A i : i \in SubmittedCues' <=> \E j \in Submitted(children') : i \in Section(children'[j])
    BY <1>3 DEF SubmittedCues, Submitted
<1>8. SubmittedCues' = SubmittedCues \cup Section(children[k])
    BY <1>4, <1>5, <1>6, <1>7
<1>9. PICK i \in Section(children[k]) : i \in Positions /\ i \notin SubmittedCues
    BY <1>5, <1>6 DEF SectionsCover
<1>10. SubmittedCues' \subseteq Positions
    BY <1>5, <1>6, <1>8 DEF SectionsCover
<1>11. PromisedPhase = "translating"
    BY <1>3, <1>5, <1>9 DEF PromisedPhase
<1>12. PromisedPhase' = IF SubmittedCues' = Positions THEN "review" ELSE "translating"
    BY <1>3, <1>4 DEF PromisedPhase
<1>13. checkpoint'.draft \in [SubmittedCues' -> Texts]
    <2>1. draft' \in Drafts(Positions)
        BY InvNext DEF TeamTypes
    <2>2. DOMAIN draft' \subseteq Positions /\ draft' \in [DOMAIN draft' -> Texts]
        BY <2>1, DraftIs
    <2>3. DOMAIN draft' = SubmittedCues'
        BY <1>4, <1>7, <1>10, <2>2 DEF MergedIn
    <2> QED BY <1>3, <2>2, <2>3
<1>14. \A c \in SubmittedCues : checkpoint'.draft[c] = checkpoint.draft[c]
    <2> TAKE c \in SubmittedCues
    <2>1. PICK j \in Submitted(children) : c \in Section(children[j])
        BY <1>6
    <2>2. draft[c] = children[j].agent.draft[c]
        BY <1>5, <2>1 DEF MergedIn
    <2>3. draft'[c] = children'[j].agent.draft[c]
        BY <1>4, <1>5, <2>1 DEF MergedIn
    <2> QED BY <1>3, <1>4, <2>1, <2>2, <2>3
<1>15. ApprovedPairs' = ApprovedPairs
    BY <1>3 DEF ApprovedPairs
<1> QED BY <1>8, <1>9, <1>10, <1>11, <1>12, <1>13, <1>14, <1>15 DEF Promise!Submit

\* Every step is one of the promise, or none.
LEMMA PromiseStep ==
    ASSUME Inv, AssemblyInv, Inv', AssemblyInv', [Next]_vars
    PROVE  [Promise!Next]_(Promise!pvars)
<1>1. CASE UNCHANGED checkpoint
    BY <1>1, SeenUnchanged
<1>2. CASE EndTurn
    BY <1>2, EndTurnMaps
<1>3. CASE Continue
    <2>1. checkpoint' = Snapshot' /\ UNCHANGED <<children, draft, stage, approved>> /\ ~open
        BY <1>3 DEF Continue, workspace, AssemblyInv
    <2> QED BY <2>1, SavedNow, SeenUnchanged DEF AssemblyInv, TurnIsLocal
<1>4. ASSUME NEW k \in Slots, ChildSaves(k) \/ ChildSubmits(k) PROVE [Promise!Next]_(Promise!pvars)
    BY <1>4, ChildSavesMaps, ChildSubmitsMaps DEF Promise!Next
<1>5. \/ UNCHANGED checkpoint \/ EndTurn \/ Continue
      \/ \E k \in Slots : ChildSaves(k) \/ ChildSubmits(k)
    BY DEF Next, MainTool, MainStep, ChildStep, RefusedCall, SavePlan, ReviewChecklist, ValidateTranslation,
       AcceptTranslation, CloseSubagents, FinishTranslation, ReadSource, ReadTranslations, ReadBilingual,
       RecordReview, WriteTranslations, DispatchSubagents, Call, BeginTurn, Stop, TurnsLost, ChildBegin,
       ChildError, ChildValidate, ChildFinish, ChildWrite, ChildCall, mine, vars, control
<1> QED BY <1>1, <1>2, <1>3, <1>4, <1>5

\* The durable team implements TeamPromise: sections are submitted once and
\* put together, the whole is reviewed only when it is complete, and what is
\* published is a complete text the main agent approved, for any source, any
\* number of children, and any turns lost in between.
THEOREM TeamKeepsPromise == Spec => KeepsPromise
<1>1. Inv /\ AssemblyInv /\ Inv' /\ AssemblyInv' /\ [Next]_vars => [Promise!Next]_(Promise!pvars)
    BY PromiseStep
<1> QED BY PromiseInitial, <1>1, Assembly, PTL DEF Spec, KeepsPromise, Promise!Spec
====
