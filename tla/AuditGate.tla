------------------------------ MODULE AuditGate -----------------------------
(***************************************************************************)
(* swarm_handoff: the command by which a role sends a handoff.  It checks  *)
(* the draft against the role's work and the board, and queues a git       *)
(* handoff only when the very candidate was refused once before, so that   *)
(* the role has audited it.  A candidate is what the command sees: the     *)
(* draft with its headers filled in, and the commit of the worktree.       *)
(***************************************************************************)
EXTENDS Naturals, FiniteSets

CONSTANTS
    GitDrafts,     \* drafts of git handoffs that pass validation
    Note,          \* a draft of a note
    Faulty,        \* a draft that some check refuses
    Commits

Drafts == GitDrafts \cup {Note, Faulty}

VARIABLES
    head,        \* the commit of the worktree
    audits,      \* the candidates recorded in audit_pending
    command,     \* the run under way: its candidate and where it is
    before,      \* history: the candidate of the run before
    queued,      \* the git handoffs in the outbox
    active       \* those that are held, sent or in an inbox

gateVars == <<head, audits, command, before, queued, active>>

NoRun == [at |-> "none"]
GateInit ==
    /\ head = CHOOSE c \in Commits : TRUE
    /\ audits = {} /\ command = NoRun /\ before = NoRun
    /\ queued = {} /\ active = {}

(* Headers are filled in from the work in process and the board, the commit
   from the worktree; then every other candidate is forgotten. *)
Prepared(d) == [draft |-> d, commit |-> head]

(* Mutant: what was audited before stays audited. *)
PresentKeeping(d) ==
    /\ command = NoRun
    /\ command' = [at |-> "check", of |-> Prepared(d)]
    /\ UNCHANGED <<head, audits, before, queued, active>>

Present(d) ==
    /\ command = NoRun
    /\ command' = [at |-> "check", of |-> Prepared(d)]
    /\ audits' = audits \cap {Prepared(d)}
    /\ UNCHANGED <<head, before, queued, active>>

CommandEnds == command' = NoRun /\ before' = command.of

(* The checks of the draft, the current work, the task and the ancestry, and
   that the same handoff is not active: the outbox is not looked at.  A note
   that passes them is sent at once. *)
Checked(c) == c.draft # Faulty /\ c \notin active
Refuse ==
    /\ command.at = "check"
    /\ ~Checked(command.of) \/ command.of.draft = Note
    /\ CommandEnds
    /\ UNCHANGED <<head, audits, queued, active>>

(* Under the audit lock: what was audited is queued, and its record removed;
   anything else is recorded, and the audit demanded and counted. *)
Submits ==
    /\ command.at = "check" /\ Checked(command.of) /\ command.of \in audits
    /\ queued' = queued \cup {command.of}
    /\ command' = [command EXCEPT !.at = "sent"]
    /\ UNCHANGED <<head, audits, before, active>>
Forgets ==
    /\ command.at = "sent"
    /\ audits' = {}
    /\ CommandEnds
    /\ UNCHANGED <<head, queued, active>>
Demands ==
    /\ command.at = "check" /\ Checked(command.of)
    /\ command.of.draft # Note /\ command.of \notin audits
    /\ audits' = {command.of}
    /\ CommandEnds
    /\ UNCHANGED <<head, queued, active>>

KillCommand == command # NoRun /\ CommandEnds /\ UNCHANGED <<head, audits, queued, active>>

(* Around the command: the role commits, the daemon delivers, the dashboard
   takes a handoff back, and drops the audits of a task. *)
Recommits(c) == head' = c /\ UNCHANGED <<audits, command, before, queued, active>>
Delivers(c) ==
    /\ queued' = queued \ {c} /\ active' = active \cup {c}
    /\ UNCHANGED <<head, audits, command, before>>
TakesBack(c) == active' = active \ {c} /\ audits' = {} /\ UNCHANGED <<head, command, before, queued>>

GateStep ==
    \/ \E d \in Drafts : Present(d)
    \/ Refuse \/ Submits \/ Forgets \/ Demands \/ KillCommand
    \/ \E c \in Commits : Recommits(c)
    \/ \E c \in queued : Delivers(c)
    \/ \E c \in active : TakesBack(c)

GateSpec == GateInit /\ [][GateStep]_gateVars

(* A git handoff is queued only by a run whose predecessor presented the same
   draft at the same commit: any other run in between, even one that was
   refused, killed or sent a note, has to be audited again. *)
AuditedFirst == [][queued' \subseteq queued \/ before = command.of]_gateVars
=============================================================================
