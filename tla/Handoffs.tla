------------------------------ MODULE Handoffs ------------------------------
(***************************************************************************)
(* SwarmForge's handoffs: files that move between directories.  A sender   *)
(* puts a handoff into an outbox; the daemon holds the ones that need the  *)
(* user's approval and delivers the others into inboxes, and wakes their   *)
(* agents; an agent takes work in process, completes it, sends its own     *)
(* handoff on and merge-only copies back to earlier roles; the dashboard   *)
(* creates tasks and approves, retries or deletes what is held.  Every     *)
(* process may be killed between two steps.                                *)
(***************************************************************************)
EXTENDS Integers, Sequences, FiniteSets, FiniteSetsExt

CONSTANTS
    Pack,           \* the roles of roles.tsv in their order, the master first
    BatchRoles,     \* the roles that receive batches
    Propagation,    \* whom a role sends copies: "forward-only", "back-one", "back-all"
    Tasks,
    MaxMail,        \* bound: handoffs written
    MaxFaults       \* bound: processes killed, each at most once, and failed wake-ups

ASSUME PackOK == Pack \in Seq(STRING) /\ Pack # << >> /\ \A i \in DOMAIN Pack : Pack[i] # "deleted"

User == "(New Task)"

(* The launcher refuses a role that is named twice (context.ts:178) or has a
   space in its name; no pack names a role like a column of the board or like a
   mishap; and, as in swarmforge.conf, somebody receives what the master hands
   on, and only the last role receives batches. *)
ASSUME PackShape ==
    /\ Len(Pack) > 1
    /\ \A i, j \in DOMAIN Pack : Pack[i] = Pack[j] => i = j
    /\ \A i \in DOMAIN Pack : Pack[i] \notin {User, "none", "done", "deaf"}
    /\ BatchRoles \subseteq {Pack[Len(Pack)]}

Roles == {Pack[i] : i \in DOMAIN Pack}
Master == Pack[1]
Terminal == Pack[Len(Pack)]
After(r) == Pack[CHOOSE i \in DOMAIN Pack : i > 1 /\ Pack[i - 1] = r]
Rank(r) == CHOOSE i \in DOMAIN Pack : Pack[i] = r

ASSUME PropagationOK == Propagation \in [Roles -> {"forward-only", "back-one", "back-all"}]

(* The earlier roles that get a copy of what a role hands on. *)
ReverseRoles(r) ==
    CASE Propagation[r] = "back-one" /\ Rank(r) > 1 -> <<Pack[Rank(r) - 1]>>
      [] Propagation[r] = "back-all" -> SubSeq(Pack, 1, Rank(r) - 1)
      [] OTHER -> << >>

VARIABLES
    mail,      \* every handoff ever written, in the order of writing
    outbox, pending, sent, failed,       \* directories: sets of positions in mail
    stamped,   \* the files of the outbox that carry the approval
    new, work, done,                     \* the inbox of every role
    batch,     \* a batch role's directory: absent, "open", or "archiving" when its target exists
    lane,      \* the board: the lane of every task
    agent,     \* every agent: "rest", "work", or "queued" its handoff but not completed its work
    unsent,    \* the copies that the command of a role has yet to write
    awake,     \* the roles that will run ready_for_next
    refused,   \* the roles whose last command ended with a refusal
    post,      \* the daemon
    desk,      \* the dashboard between two steps of a request
    mishaps    \* what went wrong so far: the processes killed, "deaf" when a
               \* wake-up failed, "hasty" when a request met work under way

handoffVars == <<mail, outbox, pending, sent, failed, stamped, new, work, done,
                 batch, lane, agent, unsent, awake, refused, post, desk, mishaps>>

Idle == [at |-> "idle", todo |-> {}, now |-> 0, ok |-> FALSE, rest |-> << >>]

HandoffInit ==
    /\ mail = << >> /\ outbox = {} /\ pending = {} /\ sent = {} /\ failed = {} /\ stamped = {}
    /\ new = [r \in Roles |-> {}] /\ work = new /\ done = new
    /\ batch = [r \in Roles |-> "none"]
    /\ lane = [t \in Tasks |-> "none"]
    /\ agent = [r \in Roles |-> "rest"] /\ unsent = [r \in Roles |-> << >>]
    /\ awake = {} /\ refused = {}
    /\ post = Idle /\ desk = << >> /\ mishaps = {}

Directories == <<outbox, pending, sent, failed, stamped>>
Inboxes == <<new, work, done, batch>>
Agents == <<agent, unsent, awake, refused>>

(* A handoff of a role is a git_handoff about its task; what the terminal
   role reports back is non-forwarding, and so is a copy. *)
Letter(t, from, to) ==
    [task |-> t, from |-> from, to |-> to, git |-> from # User,
     back |-> from = Terminal, copy |-> FALSE]
CopyTo(q, letter) == [letter EXCEPT !.to = <<q>>, !.back = TRUE, !.copy = TRUE]
Of(t, files) == {n \in files : mail[n].task = t}

(* A filename begins with the priority, 00 of a copy and 50 of the others, and
   goes on with the time. *)
First(files) ==
    LET copies == {n \in files : mail[n].copy}
    IN  Min(IF copies = {} THEN files ELSE copies)

Outbound(r) == {n \in outbox \cup pending : mail[n].git /\ mail[n].from = r}
Fault(p) ==
    /\ p \notin mishaps /\ Cardinality(mishaps \ {"hasty"}) < MaxFaults
    /\ mishaps' = mishaps \cup {p}
Hasty(condition) == mishaps' = IF condition THEN mishaps \cup {"hasty"} ELSE mishaps

(***************************************************************************)
(* The dashboard                                                           *)
(***************************************************************************)
(* The card is written before the note; the server may die in between. *)
CreateTask(t) ==
    /\ desk = << >> /\ lane[t] = "none" /\ Len(mail) < MaxMail
    /\ lane' = [lane EXCEPT ![t] = Master]
    /\ \/ /\ mail' = Append(mail, Letter(t, User, <<Master>>))
          /\ outbox' = outbox \cup {Len(mail) + 1}
          /\ UNCHANGED mishaps
       \/ Fault("web") /\ UNCHANGED <<mail, outbox>>
    /\ UNCHANGED <<pending, sent, failed, stamped, Inboxes, Agents, post, desk>>

Approve(n) ==
    /\ desk = << >> /\ n \in pending
    /\ outbox' = outbox \cup {n} /\ stamped' = stamped \cup {n}
    /\ desk' = <<"approve", n>>
    /\ UNCHANGED <<mail, pending, sent, failed, Inboxes, lane, Agents, post, mishaps>>

(* The retry takes the handoff back and resets the worktree to its commit. *)
Retry(n) ==
    /\ desk = << >> /\ n \in pending
    /\ pending' = pending \ {n}
    /\ desk' = <<"retry", n>>
    /\ Hasty(agent[Master] = "queued")
    /\ UNCHANGED <<mail, outbox, sent, failed, stamped, Inboxes, lane, Agents, post>>

(* Mutant: a task that was completed counts as being in process. *)
RestoredUnlessSeen(r, t) == UNCHANGED <<work, done>>

(* It then puts the task back in process, unless it is, and tells the agent.
   A sent handoff's task is always in process or completed, so that the note
   the code writes for a task that is neither is never needed. *)
Restored(r, t) ==
    LET back == IF Of(t, work[r]) # {} \/ Of(t, done[r]) = {} THEN {} ELSE {First(Of(t, done[r]))}
    IN  /\ work' = [work EXCEPT ![r] = @ \cup back]
        /\ done' = [done EXCEPT ![r] = @ \ back]

DeskEnds ==
    /\ desk # << >>
    /\ desk' = << >>
    /\ \/ /\ desk[1] = "approve"
          /\ pending' = pending \ {desk[2]}
          /\ UNCHANGED <<work, done, awake, mishaps>>
       \/ /\ desk[1] = "retry"
          /\ Restored(Master, mail[desk[2]].task)
          /\ awake' = IF agent[Master] = "rest" THEN awake \cup {Master} ELSE awake
          /\ Hasty(work[Master] # {})
          /\ UNCHANGED pending
       \/ Fault("web") /\ UNCHANGED <<pending, work, done, awake>>
    /\ UNCHANGED <<mail, outbox, sent, failed, stamped, new, batch, lane, agent, unsent, refused, post>>

(* Deleting an approval deletes its task: every handoff about it, and the card. *)
Delete(n) ==
    /\ desk = << >> /\ n \in pending
    /\ LET t == mail[n].task
           Gone(files) == files \ Of(t, files)
           Rid(box) == [r \in Roles |-> Gone(box[r])]
       IN  /\ outbox' = Gone(outbox) /\ pending' = Gone(pending) /\ sent' = Gone(sent)
           /\ failed' = Gone(failed) /\ stamped' = Gone(stamped)
           /\ new' = Rid(new) /\ work' = Rid(work) /\ done' = Rid(done)
           /\ lane' = [lane EXCEPT ![t] = "deleted"]
           /\ Hasty(\E r \in Roles : Of(t, work[r]) # {})
    /\ UNCHANGED <<mail, batch, Agents, post, desk>>

(***************************************************************************)
(* The daemon                                                              *)
(***************************************************************************)
(* Mutant: only the root's outbox is polled. *)
PollRoot ==
    /\ post.at = "idle"
    /\ LET root == {n \in outbox : mail[n].from \in {Master, User}} IN
       root # {} /\ post' = [post EXCEPT !.at = "next", !.todo = root]
    /\ UNCHANGED <<mail, Directories, Inboxes, lane, Agents, desk, mishaps>>

Poll ==
    /\ post.at = "idle" /\ outbox # {}
    /\ post' = [post EXCEPT !.at = "next", !.todo = outbox]
    /\ UNCHANGED <<mail, Directories, Inboxes, lane, Agents, desk, mishaps>>

(* The worktrees in the order of the roles: the master's is the root, which
   also holds the user's notes and what was approved. *)
Worktree(n) == IF mail[n].from = User THEN 1 ELSE Rank(mail[n].from)
NextFile ==
    LET here == Min({Worktree(n) : n \in post.todo})
    IN  First({n \in post.todo : Worktree(n) = here})

Held(n) == mail[n].git /\ mail[n].from = Master /\ Len(mail[n].to) = 1 /\ n \notin stamped
LeavesOutbox(n) == outbox' = outbox \ {n} /\ stamped' = stamped \ {n}
(* Mutant: what fails is removed. *)
FailsSilently(n) == LeavesOutbox(n) /\ UNCHANGED failed

Fails(n) ==
    /\ IF n \in outbox THEN failed' = failed \cup {n} ELSE UNCHANGED failed
    /\ LeavesOutbox(n)

Turns(todo) == IF todo = {} THEN Idle ELSE [Idle EXCEPT !.at = "next", !.todo = todo]

(* What the terminal role sends completes its task, and the tasks of its lane
   that it has finished or has in process. *)
Completes(n) ==
    {mail[n].task} \cup {t \in Tasks : lane[t] = Terminal /\ Of(t, work[Terminal] \cup done[Terminal]) # {}}

(* Whatever the terminal role sends completes its tasks; of another role, a
   handoff moves its task on and a copy leaves the board alone. *)
BoardAfter(n) ==
    CASE ~mail[n].git \/ (mail[n].copy /\ mail[n].from # Terminal) -> lane
      [] mail[n].git /\ mail[n].from = Terminal -> [t \in Tasks |-> IF t \in Completes(n) THEN "done" ELSE lane[t]]
      [] OTHER -> [lane EXCEPT ![mail[n].task] = Head(mail[n].to)]

(* pack_board refuses a task that is not on the board. *)
BoardRefuses(n) ==
    /\ mail[n].git /\ lane[mail[n].task] = "deleted"
    /\ mail[n].copy => mail[n].from = Terminal

Take ==
    /\ post.at = "next"
    /\ LET n == NextFile
           next == Turns(post.todo \ {n})
       IN  \/ /\ n \notin outbox
              /\ post' = next
              /\ UNCHANGED <<Directories, lane>>
           \/ /\ n \in outbox /\ Held(n)
              /\ pending' = pending \cup {n} /\ LeavesOutbox(n)
              /\ post' = next
              /\ UNCHANGED <<sent, failed, lane>>
           \/ /\ n \in outbox /\ ~Held(n) /\ BoardRefuses(n)
              /\ Fails(n)
              /\ post' = next
              /\ UNCHANGED <<pending, sent, lane>>
           \/ /\ n \in outbox /\ ~Held(n) /\ ~BoardRefuses(n)
              /\ lane' = BoardAfter(n)
              /\ post' = [at |-> "write", todo |-> post.todo \ {n}, now |-> n,
                          ok |-> n \in stamped, rest |-> mail[n].to]
              /\ UNCHANGED Directories
    /\ UNCHANGED <<mail, Inboxes, Agents, desk, mishaps>>

Write ==
    /\ post.at = "write"
    /\ new' = [new EXCEPT ![Head(post.rest)] = @ \cup {post.now}]
    /\ post' = [post EXCEPT !.at = "wake"]
    /\ UNCHANGED <<mail, Directories, work, done, batch, lane, Agents, desk, mishaps>>

(* An agent at work ignores a wake-up. *)
Woken(r) == IF agent[r] = "rest" THEN awake \cup {r} ELSE awake

Wake ==
    /\ post.at = "wake"
    /\ \/ /\ awake' = Woken(Head(post.rest))
          /\ post' = [post EXCEPT !.rest = Tail(@), !.at = IF Len(post.rest) = 1 THEN "file" ELSE "write"]
          /\ UNCHANGED <<Directories, mishaps>>
       \/ /\ Fault("deaf")
          /\ Fails(post.now)
          /\ post' = Turns(post.todo)
          /\ UNCHANGED <<pending, sent, awake>>
    /\ UNCHANGED <<mail, Inboxes, lane, agent, unsent, refused, desk>>

(* A handoff that was delivered is filed; one that has been taken out of the
   outbox meanwhile cannot be, and the error is logged. *)
File ==
    /\ post.at = "file"
    /\ IF post.now \in outbox
       THEN /\ sent' = sent \cup {post.now} /\ LeavesOutbox(post.now)
            /\ post' = [post EXCEPT !.at = "tell"]
            /\ UNCHANGED <<pending, failed>>
       ELSE /\ post' = Turns(post.todo)
            /\ UNCHANGED Directories
    /\ UNCHANGED <<mail, Inboxes, lane, Agents, desk, mishaps>>

(* Mutant: the sender is not told. *)
UnblockedNever(r) == FALSE

(* An approved handoff no longer blocks its sender, who may have been told to
   wait and is woken; archiving the sender's pane or waking it may fail. *)
Unblocked(r) == new[r] # {} /\ work[r] = {} /\ batch[r] = "none" /\ Outbound(r) = {}

Tell ==
    /\ post.at = "tell"
    /\ post' = Turns(post.todo)
    /\ LET r == mail[post.now].from IN
       \/ /\ awake' = IF post.ok /\ Unblocked(r) /\ r \notin {mail[post.now].to[i] : i \in DOMAIN mail[post.now].to}
                       THEN Woken(r) ELSE awake
          /\ Hasty(post.ok /\ post.now \in pending)
       \/ Fault("deaf") /\ UNCHANGED awake
    /\ UNCHANGED <<mail, Directories, Inboxes, lane, agent, unsent, refused, desk>>

KillDaemon ==
    /\ post.at # "idle"
    /\ Fault("daemon")
    /\ post' = Idle
    /\ UNCHANGED <<mail, Directories, Inboxes, lane, Agents, desk>>

(***************************************************************************)
(* An agent and the commands it runs                                       *)
(***************************************************************************)
Ambiguous(r) == IF r \in BatchRoles THEN batch[r] # "none" /\ work[r] = {} ELSE Cardinality(work[r]) > 1

Refuses(r) ==
    /\ agent' = [agent EXCEPT ![r] = "rest"] /\ awake' = awake \ {r}
    /\ refused' = refused \cup {r}
    /\ UNCHANGED Inboxes
Works(r) ==
    /\ agent' = [agent EXCEPT ![r] = "work"] /\ awake' = awake \ {r}
    /\ refused' = refused \ {r}

(* A task role takes the first file of its inbox, a batch role with it all
   others of its priority. *)
Taken(r) ==
    IF r \in BatchRoles THEN {n \in new[r] : mail[n].copy = mail[First(new[r])].copy} ELSE {First(new[r])}
Dequeues(r, files) ==
    /\ new' = [new EXCEPT ![r] = @ \ files]
    /\ work' = [work EXCEPT ![r] = @ \cup files]
    /\ batch' = IF r \in BatchRoles THEN [batch EXCEPT ![r] = "open"] ELSE batch
    /\ UNCHANGED done
(* The files that come first, when the command is killed before the rest. *)
Firsts(files) == {{n \in files : n < k} : k \in files}

ReadyForNext(r) ==
    /\ agent[r] = "rest" /\ r \in awake
    /\ \/ Ambiguous(r) /\ Refuses(r) /\ UNCHANGED mishaps
       \/ ~Ambiguous(r) /\ work[r] # {} /\ Works(r) /\ UNCHANGED <<Inboxes, mishaps>>
       \/ /\ ~Ambiguous(r) /\ work[r] = {}
          /\ \/ Outbound(r) # {} /\ Refuses(r) /\ UNCHANGED mishaps
             \/ /\ Outbound(r) = {} /\ new[r] = {}
                /\ awake' = awake \ {r} /\ refused' = refused \ {r}
                /\ UNCHANGED <<agent, Inboxes, mishaps>>
             \/ /\ Outbound(r) = {} /\ new[r] # {}
                /\ Dequeues(r, Taken(r)) /\ Works(r) /\ UNCHANGED mishaps
             \/ /\ Outbound(r) = {} /\ r \in BatchRoles
                /\ \E files \in Firsts(Taken(r)) : Dequeues(r, files)
                /\ Fault(r) /\ UNCHANGED <<agent, awake, refused>>
    /\ UNCHANGED <<mail, Directories, lane, unsent, post, desk>>

(* The task of the first file in process is the one to hand on; the same
   handoff is refused while it is held, delivered or sent, and any handoff
   answering a non-forwarding one: that is merged and completed. *)
Current(r) == mail[First(work[r])].task
Recipients(r) == IF r = Terminal THEN <<Master>> ELSE <<After(r)>>
Elsewhere == pending \cup sent \cup UNION {new[q] \cup work[q] : q \in Roles}
MaySend(r) ==
    /\ work[r] # {} /\ ~Ambiguous(r)
    /\ \A n \in work[r] : ~mail[n].back
    /\ lane[Current(r)] # "done"
    /\ \A n \in Of(Current(r), Elsewhere) : mail[n].from = r => mail[n].to # Recipients(r)

(* The handoff is written first, then a copy to every earlier role that gets
   one, each in a file of its own. *)
Copies(r, letter) == [i \in DOMAIN ReverseRoles(r) |-> CopyTo(ReverseRoles(r)[i], letter)]

Submit(r) ==
    /\ agent[r] = "work" /\ MaySend(r) /\ Len(mail) < MaxMail
    /\ LET letter == Letter(Current(r), r, Recipients(r))
       IN  /\ mail' = Append(mail, letter)
           /\ unsent' = [unsent EXCEPT ![r] = Copies(r, letter)]
    /\ outbox' = outbox \cup {Len(mail) + 1}
    /\ agent' = [agent EXCEPT ![r] = "queued"]
    /\ UNCHANGED <<pending, sent, failed, stamped, Inboxes, lane, awake, refused, post, desk, mishaps>>

SendCopy(r) ==
    /\ unsent[r] # << >> /\ Len(mail) < MaxMail
    /\ mail' = Append(mail, Head(unsent[r]))
    /\ outbox' = outbox \cup {Len(mail) + 1}
    /\ unsent' = [unsent EXCEPT ![r] = Tail(@)]
    /\ UNCHANGED <<pending, sent, failed, stamped, Inboxes, lane, agent, awake, refused, post, desk, mishaps>>

(* A sent handoff completes the work; what cannot be handed on is completed
   by the agent itself. *)
Completed(r, files) ==
    /\ work' = [work EXCEPT ![r] = @ \ files]
    /\ done' = [done EXCEPT ![r] = @ \cup files]
DoneWithCurrent(r) ==
    /\ (agent[r] = "queued" /\ unsent[r] = << >>) \/ (agent[r] = "work" /\ ~MaySend(r))
    /\ \/ /\ work[r] = {} \/ Ambiguous(r) \/ batch[r] = "archiving"
          /\ Refuses(r) /\ UNCHANGED mishaps
       \/ /\ work[r] # {} /\ ~Ambiguous(r) /\ batch[r] # "archiving"
          /\ \/ /\ Completed(r, work[r])
                /\ batch' = [batch EXCEPT ![r] = "none"]
                /\ agent' = [agent EXCEPT ![r] = "rest"]
                /\ awake' = IF new[r] # {} THEN awake \cup {r} ELSE awake \ {r}
                /\ refused' = refused \ {r}
                /\ UNCHANGED mishaps
             \/ /\ r \in BatchRoles
                /\ \E files \in Firsts(work[r]) \cup {work[r]} : Completed(r, files)
                /\ batch' = [batch EXCEPT ![r] = "archiving"]
                /\ Fault(r)
                /\ agent' = [agent EXCEPT ![r] = "rest"] /\ awake' = awake \cup {r}
                /\ UNCHANGED refused
          /\ UNCHANGED new
    /\ UNCHANGED <<mail, Directories, lane, unsent, post, desk>>

(* A restarted agent runs ready_for_next; the copies its command has not
   written are forgotten with it. *)
KillAgent(r) ==
    /\ agent[r] # "rest"
    /\ Fault(r)
    /\ agent' = [agent EXCEPT ![r] = "rest"] /\ awake' = awake \cup {r}
    /\ unsent' = [unsent EXCEPT ![r] = << >>]
    /\ UNCHANGED <<mail, Directories, Inboxes, lane, refused, post, desk>>

Daemon == Poll \/ Take \/ Write \/ Wake \/ File \/ Tell
HandoffStep ==
    \/ \E t \in Tasks : CreateTask(t)
    \/ \E n \in pending : Approve(n) \/ Retry(n) \/ Delete(n)
    \/ DeskEnds
    \/ Daemon \/ KillDaemon
    \/ \E r \in Roles : ReadyForNext(r) \/ Submit(r) \/ SendCopy(r) \/ DoneWithCurrent(r) \/ KillAgent(r)

HandoffSpec == HandoffInit /\ [][HandoffStep]_handoffVars

(***************************************************************************)
(* Properties                                                              *)
(***************************************************************************)
(* A handoff is in an outbox, held, filed as failed, or filed as sent and then
   in the inbox of every recipient; only one that was held may be gone, when
   the user took it back or deleted its task. *)
NeverLost ==
    \A n \in DOMAIN mail : lane[mail[n].task] # "deleted" =>
        /\ n \in outbox \cup pending \cup sent \cup failed \/ mail[n].from = Master
        /\ n \in sent => \A i \in DOMAIN mail[n].to :
                            LET r == mail[n].to[i] IN n \in new[r] \cup work[r] \cup done[r]

(* A handoff that was taken from an inbox comes back to it only after the
   daemon was killed between its delivery and its filing, or the dashboard
   between the two copies of an approval. *)
DeliveredOnce ==
    \A r \in Roles : new[r] \cap (work[r] \cup done[r]) # {} => {"daemon", "web"} \cap mishaps # {}

(* Every earlier role that is to get one has a copy of whatever a role has
   handed on, or gets it from the command that is still writing. *)
Copied(r) ==
    \A n \in DOMAIN mail : mail[n].from = r /\ ~mail[n].copy =>
        \A i \in DOMAIN ReverseRoles(r) :
            LET copy == CopyTo(ReverseRoles(r)[i], mail[n]) IN
            \/ \E m \in DOMAIN mail : m > n /\ mail[m] = copy
            \/ \E j \in DOMAIN unsent[r] : unsent[r][j] = copy

(* Whoever is killed between whichever two steps, no handoff or copy that was
   written gets lost, and none is delivered to a role again unless the daemon
   or the dashboard was killed half-way (daemon.ts:276, actions.ts:181); only a
   sender that was killed may have left copies unwritten (send.ts:680). *)
DeliveredExactlyOnce == NeverLost /\ DeliveredOnce /\ \A r \in Roles : Copied(r) \/ r \in mishaps

(* The work goes on: unless a process is killed, a task on the board that is
   not done is carried by a file that is yet to be delivered, approved or worked
   on, or was filed as failed, and not by something merge-only; the terminal
   role's report carries all it has finished (daemon.ts:175, actions.ts:322). *)
TaskCarried ==
    mishaps \subseteq {"deaf"} =>
        \A t \in Tasks : lane[t] \in Roles =>
            \/ \E n \in Of(t, outbox \cup pending \cup failed) : ~mail[n].back
            \/ \E r \in Roles : \E n \in Of(t, new[r] \cup work[r]) : ~mail[n].back
            \/ lane[t] = Terminal /\ \E n \in outbox : mail[n].from = Terminal
            \/ desk # << >> /\ mail[desk[2]].task = t

(* A role is idle beside a file of a living task, and nobody is about to wake it. *)
Stranded(r, n) ==
    /\ n \in new[r] \ outbox /\ lane[mail[n].task] # "deleted"
    /\ agent[r] = "rest" /\ r \notin awake /\ work[r] = {}
    /\ desk = << >> /\ ~(post.at = "tell" /\ mail[post.now].from = r)

(* Whom the code leaves beside its mail: a role that was told to wait since its
   own handoff was on its way.  Only approved handoffs, the master's, wake their
   sender when they are delivered (daemon.ts:249): another role goes on waiting.
   The master waits only while it has one on its way, unless a task was deleted,
   which wakes nobody either (actions.ts:345), a process killed or the approval
   overtaken. *)
MayWait(r) ==
    /\ r \in refused
    /\ r = Master => \/ Outbound(r) # {}
                    \/ {"web", "daemon", "hasty"} \cap mishaps # {}
                    \/ \E t \in Tasks : lane[t] = "deleted"
NoLostWake == \A r \in Roles : \A n \in new[r] : Stranded(r, n) => MayWait(r) \/ "deaf" \in mishaps

(* What a role has in process can be read and completed, unless its command
   was killed half-way. *)
Workable ==
    \A r \in Roles : Ambiguous(r) \/ batch[r] = "archiving" => {r, "hasty"} \cap mishaps # {}

(* Nobody is left behind: no agent idles beside its mail unless it was told to
   wait, and what a role has in process it is able to complete, across held
   approvals, retries, deletions and batches (daemon.ts:248, actions.ts:322,
   queue.ts:78). *)
AgentsServed == NoLostWake /\ Workable

(* The daemon empties the outboxes again and again, whatever fails: a message
   it cannot deliver, or whose recipient it cannot wake, is filed away
   (daemon.ts:295). *)
OutboxDrains == []<>(outbox = {})
=============================================================================
