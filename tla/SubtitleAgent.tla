---------------------------- MODULE SubtitleAgent ----------------------------
(***************************************************************************)
(* The workspace of one translation agent (worker/subtitle-agent.ts): the  *)
(* draft of its cues, the revision every edit advances, the revision that  *)
(* was last validated, and the stage.  Cues are positions in the source;   *)
(* a text is one of a few values, Blank stands for the texts the validator *)
(* rejects (empty, or a failure placeholder), and Alien for any cue id     *)
(* outside the workspace.  Notes and messages are left out: nothing below  *)
(* depends on what they say.                                               *)
(***************************************************************************)
EXTENDS Integers, FiniteSets

CONSTANTS
    Texts,      \* translations of a cue
    Blank,      \* a translation the validator rejects
    Alien       \* a cue id the workspace does not have

ASSUME TextsOK == Texts # {} /\ Blank \notin Texts /\ Alien \notin Int

Drafts(cues) == UNION {[known -> Texts] : known \in SUBSET cues}

\* A translations.json the model may ask to save.
Files(cues) == UNION {[ids -> Texts \cup {Blank}] : ids \in SUBSET (cues \cup {Alien})}

EmptyDraft == [c \in {} |-> Blank]

Workspace(cues) ==
    [stage: {"editing", "publish"}, draft: Drafts(cues), revision: Nat,
     validatedRevision: Nat \cup {-1}]
NewWorkspace ==
    [stage |-> "editing", draft |-> EmptyDraft, revision |-> 0, validatedRevision |-> -1]

\* A cue without a valid translation keeps a draft from being submitted.
Complete(cues, draft) ==
    /\ DOMAIN draft = cues
    /\ \A c \in cues : draft[c] # Blank

\* Mutant: an empty translation gets through.
AcceptableBlank(cues, file) == DOMAIN file \subseteq cues

\* A file is saved as a whole or not at all.
Acceptable(cues, file) ==
    /\ DOMAIN file \subseteq cues
    /\ \A c \in DOMAIN file : file[c] # Blank

\* merge = FALSE (and edit_file) replace the file.
Saved(draft, file, merge) ==
    [c \in DOMAIN file \cup (IF merge THEN DOMAIN draft ELSE {}) |->
        IF c \in DOMAIN file THEN file[c] ELSE draft[c]]

\* What validate_translation records.
ValidatedAs(cues, draft, revision) == IF Complete(cues, draft) THEN revision ELSE -1

\* finish_translation, and the host's check before it commits.
Submittable(cues, draft, revision, validatedRevision) ==
    /\ validatedRevision = revision
    /\ Complete(cues, draft)
=============================================================================
