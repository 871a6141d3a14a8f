---------------------------- MODULE Handoffs_proofs ----------------------------
(***************************************************************************)
(* Proofs about SwarmForge's handoffs, for any line of roles, any tasks,   *)
(* any number of handoffs with their copies, and any processes killed      *)
(* between any two steps: none is lost, none is delivered again, and no    *)
(* agent is left idle beside work it was never told of.                    *)
(*                                                                         *)
(* HandoffInv says where a file is, CopyInv which copies of a handoff are  *)
(* written and which are still to be, and WakeInv adds what every agent    *)
(* has been told.                                                          *)
(***************************************************************************)
EXTENDS Handoffs, FiniteSetTheorems, WellFoundedInduction, TLAPS

\* Every role is one of the pack, and has one to hand on to.
LEMMA RolesOfPack == Master \in Roles /\ Terminal \in Roles /\ "deleted" \notin Roles
BY PackOK DEF Master, Terminal, Roles

\* A handoff of a role has exactly one recipient.
LEMMA RecipientsOfRole ==
    ASSUME NEW r \in Roles
    PROVE  \E to \in Roles : Recipients(r) = <<to>>
<1>1. CASE r = Terminal
    BY <1>1, RolesOfPack DEF Recipients
<1>2. CASE r # Terminal
    <2>1. PICK j \in DOMAIN Pack : Pack[j] = r
        BY DEF Roles
    <2>2. DOMAIN Pack = 1 .. Len(Pack) /\ Len(Pack) \in Nat
        BY PackOK
    <2>3. j + 1 \in DOMAIN Pack /\ j + 1 > 1 /\ Pack[(j + 1) - 1] = r
        BY <1>2, <2>1, <2>2 DEF Terminal
    <2>4. \E i \in DOMAIN Pack : i > 1 /\ Pack[i - 1] = r
        BY <2>3
    <2>5. (CHOOSE i \in DOMAIN Pack : i > 1 /\ Pack[i - 1] = r) \in DOMAIN Pack
        BY <2>4
    <2>6. After(r) \in Roles
        BY <2>5 DEF After, Roles
    <2> QED BY <1>2, <2>6 DEF Recipients
<1> QED BY <1>1, <1>2

\* The first of some files is one of them.
LEMMA FirstFile ==
    ASSUME NEW files \in SUBSET Nat, files # {}
    PROVE  Min(files) \in files
<1>1. \E n \in files : \A m \in files : <<m, n>> \notin OpToRel(<, Nat)
    BY NatLessThanWellFounded, WFMin
<1>2. PICK n \in files : \A m \in files : <<m, n>> \notin OpToRel(<, Nat)
    BY <1>1
<1>3. ASSUME NEW m \in files PROVE n <= m
    <2>1. m \in Nat /\ n \in Nat
        OBVIOUS
    <2>2. m < n => <<m, n>> \in OpToRel(<, Nat)
        BY <2>1 DEF OpToRel
    <2>3. ~(m < n)
        BY <1>2, <2>2
    <2> QED BY <2>1, <2>3
<1>4. \E x \in files : \A y \in files : x <= y
    BY <1>3
<1> QED BY <1>4 DEF Min

\* Copies or not, what comes first is one of the files.
LEMMA FirstOfFiles ==
    ASSUME NEW files \in SUBSET Nat, files # {}
    PROVE  First(files) \in files
<1> DEFINE copies == {n \in files : mail[n].copy}
<1>1. CASE copies = {}
    BY <1>1, FirstFile DEF First
<1>2. CASE copies # {}
    <2>1. copies \in SUBSET Nat /\ copies \subseteq files
        OBVIOUS
    <2> HIDE DEF copies
    <2>2. Min(copies) \in copies
        BY <1>2, <2>1, FirstFile
    <2>3. First(files) = Min(copies)
        BY <1>2 DEF First, copies
    <2> QED BY <2>1, <2>2, <2>3
<1> QED BY <1>1, <1>2

-----------------------------------------------------------------------------
(* What the files and the daemon are, in every state. *)

Letters == [task : Tasks, from : Roles \cup {User}, to : {<<r>> : r \in Roles},
            git : BOOLEAN, back : BOOLEAN, copy : BOOLEAN]
Files == DOMAIN mail

Delivery == post.at \in {"write", "wake", "file"}

PostTypes ==
    /\ post \in [at : {"idle", "next", "write", "wake", "file", "tell"}, todo : SUBSET Files, now : Nat,
                 ok : BOOLEAN, rest : Seq(Roles)]
    /\ post.at = "next" => post.todo # {}
    /\ Delivery \/ post.at = "tell" => post.now \in Files
    /\ post.at \in {"write", "wake"} => post.rest = mail[post.now].to

HandoffTypes ==
    /\ mail \in Seq(Letters)
    /\ outbox \subseteq Files /\ pending \subseteq Files /\ sent \subseteq Files
    /\ failed \subseteq Files /\ stamped \subseteq Files
    /\ new \in [Roles -> SUBSET Files] /\ work \in [Roles -> SUBSET Files]
    /\ done \in [Roles -> SUBSET Files]
    /\ DOMAIN lane = Tasks
    /\ PostTypes
    /\ desk = << >> \/ \E n \in Files : desk = <<"approve", n>> \/ desk = <<"retry", n>>

Box(r) == new[r] \cup work[r] \cup done[r]
Recipient(n) == mail[n].to[1]
Gone(n) == lane[mail[n].task] = "deleted"

\* Every handoff is where it is looked for; the one being delivered has been
\* written to its inbox when its agent is woken and when it is filed.
Kept ==
    /\ \A n \in Files : Gone(n) \/ mail[n].from = Master \/ n \in outbox \cup pending \cup sent \cup failed
    /\ \A n \in pending : mail[n].from = Master
    /\ \A n \in sent : Gone(n) \/ n \in Box(Recipient(n))
    /\ post.at \in {"wake", "file"} => Gone(post.now) \/ post.now \in Box(Recipient(post.now))

\* A handoff that waits, in an outbox or for its approval, is in no inbox; the
\* copy that an approval leaves among the held ones is not delivered again.
Unread(n) == \A r \in Roles : n \notin Box(r)
Waiting ==
    /\ \A n \in outbox : Unread(n) \/ (post.at \in {"wake", "file"} /\ post.now = n)
    /\ \A n \in pending :
          \/ desk = <<"approve", n>>
          \/ Unread(n) /\ n \notin outbox /\ ~(Delivery /\ post.now = n)
    /\ \A n \in outbox : desk = <<"approve", n>> => n \in stamped
    /\ post.at = "write" => Unread(post.now)
    /\ \A r \in Roles : new[r] \cap (work[r] \cup done[r]) = {}

Undisturbed == {"daemon", "web"} \cap mishaps = {}

HandoffInv == HandoffTypes /\ Kept /\ (Undisturbed => Waiting)

\* A command that is still writing copies has handed its work on; copies are
\* missing only of what a killed sender wrote.
CopyInv ==
    /\ unsent \in [Roles -> Seq(Letters)]
    /\ DOMAIN agent = Roles
    /\ \A r \in Roles : unsent[r] # << >> => agent[r] = "queued"
    /\ \A r \in Roles : \A j \in DOMAIN unsent[r] : unsent[r][j].copy
    /\ \A r \in Roles : Copied(r) \/ r \in mishaps

\* Nothing has been handed over at the start.
LEMMA HandoffInitially == HandoffInit => HandoffInv
<1> SUFFICES ASSUME HandoffInit PROVE HandoffInv
    OBVIOUS
<1>1. mail = << >> /\ Files = {} /\ mail \in Seq(Letters)
    BY DEF HandoffInit, Files
<1>2. post = [at |-> "idle", todo |-> {}, now |-> 0, ok |-> FALSE, rest |-> << >>]
    BY DEF HandoffInit, Idle
<1>3. PostTypes
    BY <1>2 DEF PostTypes, Delivery
<1>4. HandoffTypes
    BY <1>1, <1>3 DEF HandoffInit, HandoffTypes
<1>5. Kept /\ Waiting
    BY <1>1, <1>2 DEF HandoffInit, Kept, Waiting, Delivery, Box, Unread
<1> QED BY <1>4, <1>5 DEF HandoffInv

\* The invariant says where every message is, and so that it is delivered
\* once.
LEMMA InvMeansDelivered == HandoffInv /\ CopyInv => DeliveredExactlyOnce
<1> SUFFICES ASSUME HandoffInv, CopyInv PROVE DeliveredExactlyOnce
    OBVIOUS
<1>1. ASSUME NEW n \in Files PROVE mail[n].to = <<Recipient(n)>> /\ DOMAIN mail[n].to = {1}
    <2>1. mail[n] \in Letters
        BY DEF HandoffInv, HandoffTypes, Files
    <2>2. PICK r \in Roles : mail[n].to = <<r>>
        BY <2>1 DEF Letters
    <2> QED BY <2>2 DEF Recipient
<1>2. NeverLost
    BY <1>1 DEF HandoffInv, Kept, NeverLost, Gone, Box, Files, HandoffTypes
<1>3. DeliveredOnce
    BY DEF HandoffInv, Waiting, Undisturbed, DeliveredOnce
<1> QED BY <1>2, <1>3 DEF DeliveredExactlyOnce, CopyInv

-----------------------------------------------------------------------------
(* The agents: files move between the directories of one inbox. *)

BoxesSame ==
    /\ new' \in [Roles -> SUBSET Files] /\ work' \in [Roles -> SUBSET Files]
    /\ done' \in [Roles -> SUBSET Files]
    /\ \A r \in Roles :
          /\ new'[r] \cup work'[r] \cup done'[r] = Box(r)
          /\ new[r] \cap (work[r] \cup done[r]) = {} => new'[r] \cap (work'[r] \cup done'[r]) = {}

\* A step that leaves the boxes alone leaves what was received.
LEMMA SameBoxes ==
    ASSUME HandoffInv, UNCHANGED <<new, work, done>>
    PROVE  BoxesSame
BY DEF HandoffInv, HandoffTypes, BoxesSame, Box

\* A step that posts nothing, and moves what was received only from one box
\* of its role to another, keeps the invariant.
LEMMA MovesKeep ==
    ASSUME HandoffInv, BoxesSame, UNCHANGED <<mail, Directories, lane, post, desk>>,
           mishaps \subseteq mishaps'
    PROVE  HandoffInv'
<1>1. Files' = Files
    BY DEF Files
<1>2. HandoffTypes'
    BY <1>1 DEF HandoffInv, HandoffTypes, PostTypes, Delivery, BoxesSame, Directories, Letters
<1>3. \A n \in Files : Recipient(n)' = Recipient(n) /\ Recipient(n) \in Roles /\ (Gone(n)' <=> Gone(n))
    <2> SUFFICES ASSUME NEW n \in Files
                 PROVE  Recipient(n)' = Recipient(n) /\ Recipient(n) \in Roles /\ (Gone(n)' <=> Gone(n))
        OBVIOUS
    <2>1. mail[n] \in Letters
        BY DEF HandoffInv, HandoffTypes, Files
    <2> QED BY <2>1 DEF Letters, Recipient, Gone
<1>4. \A r \in Roles : Box(r)' = Box(r)
    BY DEF BoxesSame, Box
<1>5. Kept'
    BY <1>1, <1>3, <1>4 DEF HandoffInv, HandoffTypes, PostTypes, Delivery, Kept, Directories
<1>6. \A n : Unread(n)' <=> Unread(n)
    BY <1>4 DEF Unread
<1>7. Waiting => Waiting'
    BY <1>6 DEF Waiting, Delivery, BoxesSame, Directories
<1> QED BY <1>2, <1>5, <1>7 DEF HandoffInv, Undisturbed

\* A file that an agent takes, completes or takes up again stays in its inbox.
LEMMA Dequeued ==
    ASSUME HandoffInv, NEW r \in Roles, NEW files \in SUBSET new[r],
           new' = [new EXCEPT ![r] = @ \ files], work' = [work EXCEPT ![r] = @ \cup files],
           done' = done
    PROVE  BoxesSame
BY DEF HandoffInv, HandoffTypes, BoxesSame, Box

\* Filing work away is such a move.
LEMMA WorkDone ==
    ASSUME HandoffInv, NEW r \in Roles, NEW files \in SUBSET work[r],
           work' = [work EXCEPT ![r] = @ \ files], done' = [done EXCEPT ![r] = @ \cup files],
           new' = new
    PROVE  BoxesSame
BY DEF HandoffInv, HandoffTypes, BoxesSame, Box

\* Taking it up again is one.
LEMMA TakenUpAgain ==
    ASSUME HandoffInv, NEW r \in Roles, NEW files \in SUBSET done[r],
           done' = [done EXCEPT ![r] = @ \ files], work' = [work EXCEPT ![r] = @ \cup files],
           new' = new
    PROVE  BoxesSame
BY DEF HandoffInv, HandoffTypes, BoxesSame, Box

\* An agent asks for work: the first message of its inbox, or all of them,
\* become its work.
LEMMA ReadyKeeps ==
    ASSUME HandoffInv, NEW r \in Roles, ReadyForNext(r)
    PROVE  HandoffInv'
<1>1. UNCHANGED <<mail, Directories, lane, post, desk>> /\ mishaps \subseteq mishaps'
    BY DEF ReadyForNext, Fault
<1>2. new \in [Roles -> SUBSET Nat]
    BY DEF HandoffInv, HandoffTypes, Files
<1>3. CASE UNCHANGED Inboxes
    BY <1>1, <1>3, SameBoxes, MovesKeep DEF Inboxes
<1>4. CASE new[r] # {} /\ Dequeues(r, Taken(r))
    <2>1. Taken(r) \in SUBSET new[r]
        BY <1>2, <1>4, FirstOfFiles DEF Taken
    <2> QED BY <1>1, <1>4, <2>1, Dequeued, MovesKeep DEF Dequeues
<1>5. ASSUME r \in BatchRoles, NEW files \in Firsts(Taken(r)), Dequeues(r, files) PROVE HandoffInv'
    <2>1. files \in SUBSET new[r]
        BY <1>5 DEF Firsts, Taken
    <2> QED BY <1>1, <1>5, <2>1, Dequeued, MovesKeep DEF Dequeues
<1> QED BY <1>3, <1>4, <1>5 DEF ReadyForNext, Refuses

\* An agent has done its work, and files it.
LEMMA DoneKeeps ==
    ASSUME HandoffInv, NEW r \in Roles, DoneWithCurrent(r)
    PROVE  HandoffInv'
<1>1. UNCHANGED <<mail, Directories, lane, post, desk>> /\ mishaps \subseteq mishaps'
    BY DEF DoneWithCurrent, Fault
<1>2. CASE UNCHANGED Inboxes
    BY <1>1, <1>2, SameBoxes, MovesKeep DEF Inboxes
<1>3. ASSUME NEW files \in SUBSET work[r], Completed(r, files), new' = new PROVE HandoffInv'
    BY <1>1, <1>3, WorkDone, MovesKeep DEF Completed
<1>4. \A files \in Firsts(work[r]) \cup {work[r]} : files \in SUBSET work[r]
    BY DEF Firsts
<1> QED BY <1>2, <1>3, <1>4 DEF DoneWithCurrent, Refuses

\* An agent that is killed leaves its boxes as they are.
LEMMA KillAgentKeeps ==
    ASSUME HandoffInv, NEW r \in Roles, KillAgent(r)
    PROVE  HandoffInv'
BY SameBoxes, MovesKeep DEF KillAgent, Fault, Inboxes

-----------------------------------------------------------------------------
(* New handoffs. *)

\* The fields of a letter.
LEMMA LetterFields ==
    ASSUME HandoffInv, NEW n \in Files
    PROVE  mail[n] \in Letters /\ n \in Nat /\ Recipient(n) \in Roles /\ mail[n].to = <<Recipient(n)>>
           /\ mail[n].task \in Tasks
<1>1. mail[n] \in Letters /\ n \in Nat
    BY DEF HandoffInv, HandoffTypes, Files
<1>2. PICK r \in Roles : mail[n].to = <<r>>
    BY <1>1 DEF Letters
<1> QED BY <1>1, <1>2 DEF Letters, Recipient

\* A letter that is put into the outbox is new to every other box.
LEMMA PostedKeeps ==
    ASSUME HandoffInv, NEW l \in Letters, mail' = Append(mail, l), outbox' = outbox \cup {Len(mail) + 1},
           UNCHANGED <<pending, sent, failed, stamped, new, work, done, post, desk>>,
           DOMAIN lane' = Tasks, \A t \in Tasks : lane'[t] = "deleted" <=> lane[t] = "deleted",
           mishaps \subseteq mishaps'
    PROVE  HandoffInv'
<1> DEFINE k == Len(mail) + 1
<1>1. /\ mail' \in Seq(Letters) /\ Files = 1 .. Len(mail) /\ Files' = Files \cup {k} /\ k \notin Files
      /\ \A n \in Files : mail'[n] = mail[n]
    BY DEF HandoffInv, HandoffTypes, Files
<1> HIDE DEF k
<1>2. HandoffTypes'
    <2>1. PostTypes'
        BY <1>1 DEF HandoffInv, HandoffTypes, PostTypes, Delivery
    <2>2. /\ new \in [Roles -> SUBSET Files'] /\ work \in [Roles -> SUBSET Files']
          /\ done \in [Roles -> SUBSET Files']
        BY <1>1 DEF HandoffInv, HandoffTypes
    <2>3. desk' = << >> \/ \E n \in Files' : desk' = <<"approve", n>> \/ desk' = <<"retry", n>>
        BY <1>1 DEF HandoffInv, HandoffTypes
    <2> QED BY <1>1, <2>1, <2>2, <2>3 DEF HandoffInv, HandoffTypes, k
<1>3. \A n \in Files : /\ Recipient(n)' = Recipient(n) /\ (Gone(n)' <=> Gone(n))
                       /\ mail'[n] = mail[n] /\ Recipient(n) \in Roles
    BY <1>1, LetterFields DEF Recipient, Gone
<1>4. \A r : Box(r)' = Box(r)
    BY DEF Box
<1>5. Kept'
    BY <1>1, <1>3, <1>4, ZenonT(30) DEF HandoffInv, HandoffTypes, PostTypes, Delivery, Kept, k
<1>6. Waiting => Waiting'
    <2> SUFFICES ASSUME Waiting PROVE Waiting'
        OBVIOUS
    <2>1. \A n : Unread(n)' <=> Unread(n)
        BY <1>4 DEF Unread
    <2>2. Unread(k) /\ k \notin pending /\ ~(Delivery /\ post.now = k) /\ desk # <<"approve", k>>
        <3>1. Unread(k)
            BY <1>1 DEF HandoffInv, HandoffTypes, Unread, Box
        <3>2. k \notin pending /\ ~(Delivery /\ post.now = k)
            BY <1>1 DEF HandoffInv, HandoffTypes, PostTypes
        <3>3. desk # <<"approve", k>>
            <4>1. CASE desk = << >>
                BY <4>1
            <4>2. ASSUME NEW n \in Files, desk = <<"approve", n>> PROVE desk # <<"approve", k>>
                <5>1. n # k /\ desk[2] = n
                    BY <1>1, <4>2
                <5> QED BY <5>1
            <4>3. ASSUME NEW n \in Files, desk = <<"retry", n>> PROVE desk # <<"approve", k>>
                <5>1. desk[1] = "retry"
                    BY <4>3
                <5> QED BY <5>1
            <4> QED BY <4>1, <4>2, <4>3 DEF HandoffInv, HandoffTypes
        <3> QED BY <3>1, <3>2, <3>3
    <2>3. outbox' = outbox \cup {k} /\ \A n \in outbox' : n = k \/ n \in outbox
        BY DEF k
    <2> QED BY <2>1, <2>2, <2>3 DEF Waiting, Delivery
<1> QED BY <1>2, <1>5, <1>6 DEF HandoffInv, Undisturbed

\* A task is created, with a letter to its first role.
LEMMA CreateKeeps ==
    ASSUME HandoffInv, NEW t \in Tasks, CreateTask(t)
    PROVE  HandoffInv'
<1>1. /\ lane[t] = "none" /\ lane' = [lane EXCEPT ![t] = Master]
      /\ UNCHANGED <<pending, sent, failed, stamped, new, work, done, post, desk>>
    BY DEF CreateTask, Inboxes
<1>2. DOMAIN lane' = Tasks /\ \A u \in Tasks : lane'[u] = "deleted" <=> lane[u] = "deleted"
    BY <1>1, RolesOfPack DEF HandoffInv, HandoffTypes
<1>3. CASE mail' = Append(mail, Letter(t, User, <<Master>>)) /\ outbox' = outbox \cup {Len(mail) + 1}
           /\ UNCHANGED mishaps
    <2>1. Letter(t, User, <<Master>>) \in Letters
        BY RolesOfPack DEF Letter, Letters
    <2> QED BY <1>1, <1>2, <1>3, <2>1, PostedKeeps
<1>4. CASE Fault("web") /\ UNCHANGED <<mail, outbox>>
    <2>1. mishaps \subseteq mishaps'
        BY <1>4 DEF Fault
    <2>2. \A n \in Files : (Gone(n)' <=> Gone(n)) /\ Recipient(n)' = Recipient(n)
        BY <1>2, <1>4, LetterFields DEF Gone, Recipient
    <2>3. Files' = Files /\ \A r : Box(r)' = Box(r)
        BY <1>1, <1>4 DEF Files, Box
    <2>4. HandoffTypes'
        BY <1>1, <1>2, <1>4, <2>3 DEF HandoffInv, HandoffTypes, PostTypes, Delivery, Letters
    <2>5. Kept'
        BY <1>1, <1>4, <2>2, <2>3 DEF HandoffInv, HandoffTypes, PostTypes, Delivery, Kept
    <2>6. \A n : Unread(n)' <=> Unread(n)
        BY <2>3 DEF Unread
    <2>7. Waiting => Waiting'
        BY <1>1, <1>4, <2>6 DEF Waiting, Delivery
    <2> QED BY <2>1, <2>4, <2>5, <2>7 DEF HandoffInv, Undisturbed
<1> QED BY <1>3, <1>4 DEF CreateTask

\* A copy is written.
LEMMA SendCopyKeeps ==
    ASSUME HandoffInv, CopyInv, NEW r \in Roles, SendCopy(r)
    PROVE  HandoffInv'
<1>1. /\ mail' = Append(mail, Head(unsent[r])) /\ outbox' = outbox \cup {Len(mail) + 1}
      /\ UNCHANGED <<pending, sent, failed, stamped, new, work, done, post, desk, lane, mishaps>>
    BY DEF SendCopy, Inboxes
<1>2. Head(unsent[r]) \in Letters
    <2>1. unsent[r] \in Seq(Letters) /\ unsent[r] # << >>
        BY DEF CopyInv, SendCopy
    <2> QED BY <2>1
<1> QED BY <1>1, <1>2, PostedKeeps DEF HandoffInv, HandoffTypes

\* A role hands its work to the next one.
LEMMA SubmitKeeps ==
    ASSUME HandoffInv, NEW r \in Roles, Submit(r)
    PROVE  HandoffInv'
<1>1. /\ mail' = Append(mail, Letter(Current(r), r, Recipients(r))) /\ outbox' = outbox \cup {Len(mail) + 1}
      /\ UNCHANGED <<pending, sent, failed, stamped, new, work, done, post, desk, lane, mishaps>>
      /\ work[r] # {}
    BY DEF Submit, MaySend, Inboxes
<1>2. Current(r) \in Tasks
    <2>1. work[r] \in SUBSET Files /\ work[r] \in SUBSET Nat
        BY DEF HandoffInv, HandoffTypes, Files
    <2>2. First(work[r]) \in Files
        BY <1>1, <2>1, FirstOfFiles
    <2> QED BY <2>2, LetterFields DEF Current
<1>3. Letter(Current(r), r, Recipients(r)) \in Letters
    BY <1>2, RecipientsOfRole DEF Letter, Letters
<1> QED BY <1>1, <1>3, PostedKeeps DEF HandoffInv, HandoffTypes

-----------------------------------------------------------------------------
(* The dashboard. *)

\* A held handoff is released into the outbox.
LEMMA ApproveKeeps ==
    ASSUME HandoffInv, NEW n \in pending, Approve(n)
    PROVE  HandoffInv'
<1>1. /\ desk = << >> /\ outbox' = outbox \cup {n} /\ stamped' = stamped \cup {n}
      /\ desk' = <<"approve", n>>
      /\ UNCHANGED <<mail, pending, sent, failed, new, work, done, lane, post, mishaps>>
    BY DEF Approve, Inboxes
<1>2. Files' = Files /\ n \in Files /\ \A r : Box(r)' = Box(r)
    BY <1>1 DEF Files, Box, HandoffInv, HandoffTypes
<1>3. \A m : (Gone(m)' <=> Gone(m)) /\ Recipient(m)' = Recipient(m)
    BY <1>1 DEF Gone, Recipient
<1>4. HandoffTypes'
    BY <1>1, <1>2 DEF HandoffInv, HandoffTypes, PostTypes, Delivery, Letters
<1>5. Kept'
    BY <1>1, <1>2, <1>3 DEF HandoffInv, Kept
<1>6. Waiting => Waiting'
    <2> SUFFICES ASSUME Waiting PROVE Waiting'
        OBVIOUS
    <2>1. \A m : Unread(m)' <=> Unread(m)
        BY <1>2 DEF Unread
    <2>2. \A m : desk # <<"approve", m>>
        BY <1>1
    <2>3. Unread(n)
        BY <2>2 DEF Waiting
    <2>4. \A m \in outbox : desk' = <<"approve", m>> => m \in stamped'
        BY <1>1
    <2> QED BY <1>1, <2>1, <2>2, <2>3, <2>4 DEF Waiting, Delivery
<1> QED BY <1>1, <1>4, <1>5, <1>6 DEF HandoffInv, Undisturbed

\* A held handoff is taken back.
LEMMA RetryKeeps ==
    ASSUME HandoffInv, NEW n \in pending, Retry(n)
    PROVE  HandoffInv'
<1>1. /\ desk = << >> /\ pending' = pending \ {n} /\ desk' = <<"retry", n>>
      /\ UNCHANGED <<mail, outbox, sent, failed, stamped, new, work, done, lane, post>>
      /\ mishaps \subseteq mishaps'
    BY DEF Retry, Inboxes, Hasty
<1>2. Files' = Files /\ n \in Files /\ \A r : Box(r)' = Box(r)
    BY <1>1 DEF Files, Box, HandoffInv, HandoffTypes
<1>3. \A m : (Gone(m)' <=> Gone(m)) /\ Recipient(m)' = Recipient(m)
    BY <1>1 DEF Gone, Recipient
<1>4. HandoffTypes'
    BY <1>1, <1>2 DEF HandoffInv, HandoffTypes, PostTypes, Delivery, Letters
<1>5. Kept'
    BY <1>1, <1>2, <1>3 DEF HandoffInv, Kept
<1>6. Waiting => Waiting'
    <2> SUFFICES ASSUME Waiting PROVE Waiting'
        OBVIOUS
    <2>1. \A m : Unread(m)' <=> Unread(m)
        BY <1>2 DEF Unread
    <2>2. \A m : desk # <<"approve", m>> /\ desk' # <<"approve", m>>
        BY <1>1
    <2> QED BY <1>1, <2>1, <2>2 DEF Waiting, Delivery
<1> QED BY <1>1, <1>4, <1>5, <1>6 DEF HandoffInv, Undisturbed

\* The end of a request: the held copy goes, the task goes back in process, or
\* the dashboard is killed.
LEMMA DeskEndsKeeps == ASSUME HandoffInv, DeskEnds PROVE HandoffInv'
<1>1. /\ desk' = << >> /\ Files' = Files
      /\ UNCHANGED <<mail, outbox, sent, failed, stamped, new, lane, post>>
    BY DEF DeskEnds, Files
<1>2. \A m : (Gone(m)' <=> Gone(m)) /\ Recipient(m)' = Recipient(m)
    BY <1>1 DEF Gone, Recipient
<1>3. BoxesSame
    <2>1. CASE UNCHANGED <<work, done>>
        BY <1>1, <2>1, SameBoxes
    <2>2. ASSUME NEW t, Restored(Master, t) PROVE BoxesSame
        <3>1. Of(t, done[Master]) \in SUBSET done[Master] /\ done[Master] \in SUBSET Nat
            BY RolesOfPack DEF Of, HandoffInv, HandoffTypes, Files
        <3>2. PICK back \in SUBSET done[Master] :
                 /\ work' = [work EXCEPT ![Master] = @ \cup back]
                 /\ done' = [done EXCEPT ![Master] = @ \ back]
            <4>1. Of(t, done[Master]) # {} => First(Of(t, done[Master])) \in Of(t, done[Master])
                BY <3>1, FirstOfFiles
            <4> QED BY <2>2, <3>1, <4>1 DEF Restored
        <3> QED BY <1>1, <3>2, RolesOfPack, TakenUpAgain
    <2> QED BY <2>1, <2>2 DEF DeskEnds
<1>4. \A r \in Roles : Box(r)' = Box(r)
    BY <1>3 DEF BoxesSame, Box
<1>5. mishaps \subseteq mishaps'
    BY DEF DeskEnds, Hasty, Fault
<1>6. pending' \subseteq pending
      /\ \A n \in pending : n \in pending' \/ desk = <<"approve", n>>
    <2>1. CASE pending' = pending \ {desk[2]} /\ desk[1] = "approve"
        <3>1. desk # << >>
            BY DEF DeskEnds
        <3>2. PICK n \in Files : desk = <<"approve", n>>
            BY <2>1, <3>1 DEF HandoffInv, HandoffTypes
        <3> QED BY <2>1, <3>2
    <2> QED BY <2>1 DEF DeskEnds
<1>7. HandoffTypes'
    BY <1>1, <1>3, <1>6 DEF HandoffInv, HandoffTypes, PostTypes, Delivery, BoxesSame, Letters
<1>8. Kept'
    <2>1. \A n \in Files : Recipient(n) \in Roles
        BY LetterFields
    <2> QED BY <1>1, <1>2, <1>4, <1>6, <2>1
            DEF HandoffInv, HandoffTypes, PostTypes, Delivery, Kept
<1>9. ASSUME Undisturbed', Waiting PROVE Waiting'
    <2>1. \A n : Unread(n)' <=> Unread(n)
        BY <1>4 DEF Unread
    <2>2. \A n \in pending' : desk # <<"approve", n>>
        <3>1. "web" \notin mishaps'
            BY <1>9 DEF Undisturbed
        <3>2. ~Fault("web")
            BY <3>1 DEF Fault
        <3>3. ASSUME NEW n \in pending', desk = <<"approve", n>> PROVE FALSE
            <4>1. desk[1] = "approve" /\ desk[2] = n
                BY <3>3
            <4> QED BY <3>2, <3>3, <4>1 DEF DeskEnds
        <3> QED BY <3>3
    <2>3. \A n : desk' # <<"approve", n>>
        BY <1>1
    <2>4. \A r \in Roles : new'[r] \cap (work'[r] \cup done'[r]) = {}
        BY <1>3, <1>9 DEF Waiting, BoxesSame
    <2>5. \A n \in pending' : Unread(n)' /\ n \notin outbox' /\ ~(Delivery /\ post.now = n)
        BY <1>1, <1>6, <1>9, <2>1, <2>2 DEF Waiting
    <2>6. \A n \in outbox' : Unread(n)' \/ (post'.at \in {"wake", "file"} /\ post'.now = n)
        <3>1. \A n \in outbox : Unread(n) \/ (post.at \in {"wake", "file"} /\ post.now = n)
            BY <1>9 DEF Waiting
        <3> QED BY <1>1, <2>1, <3>1
    <2>7. \A n : post' = post /\ (post'.at = "write" /\ n = post.now => Unread(n)')
        BY <1>1, <1>9, <2>1 DEF Waiting
    <2>8. (post.at = "write" => Unread(post.now))'
        <3>1. \A n : n = post'.now => n = post.now
            BY <1>1
        <3> QED BY <2>7, <3>1
    <2>9. Delivery' <=> Delivery
        BY <1>1 DEF Delivery
    <2> QED BY <1>1, <2>3, <2>4, <2>5, <2>6, <2>8, <2>9 DEF Waiting
<1> QED BY <1>5, <1>7, <1>8, <1>9 DEF HandoffInv, Undisturbed

\* Deleting a task deletes its files, and nothing else.
LEMMA DeleteKeeps ==
    ASSUME HandoffInv, NEW n \in pending, Delete(n)
    PROVE  HandoffInv'
<1> DEFINE t == mail[n].task
           Left(files) == files \ Of(t, files)
<1>1. /\ desk = << >> /\ desk' = << >> /\ mail' = mail /\ post' = post /\ mishaps \subseteq mishaps'
      /\ outbox' = Left(outbox) /\ pending' = Left(pending) /\ sent' = Left(sent)
      /\ failed' = Left(failed) /\ stamped' = Left(stamped)
      /\ new' = [r \in Roles |-> Left(new[r])] /\ work' = [r \in Roles |-> Left(work[r])]
      /\ done' = [r \in Roles |-> Left(done[r])]
      /\ lane' = [lane EXCEPT ![t] = "deleted"]
    BY DEF Delete, Hasty
<1>2. Files' = Files /\ n \in Files /\ t \in Tasks
    BY <1>1, LetterFields DEF Files, HandoffInv, HandoffTypes
<1>3. \A m \in Files : /\ Recipient(m)' = Recipient(m) /\ Recipient(m) \in Roles
                       /\ Gone(m) => Gone(m)'
                       /\ mail[m].task = t => Gone(m)'
    <2> SUFFICES ASSUME NEW m \in Files
                 PROVE  /\ Recipient(m)' = Recipient(m) /\ Recipient(m) \in Roles
                        /\ (Gone(m) => Gone(m)') /\ (mail[m].task = t => Gone(m)')
        OBVIOUS
    <2>1. mail[m].task \in Tasks /\ DOMAIN lane = Tasks /\ Recipient(m) \in Roles
        BY LetterFields DEF HandoffInv, HandoffTypes
    <2> QED BY <1>1, <2>1 DEF Gone, Recipient
<1>4. \A files : Left(files) = {m \in files : mail[m].task # t}
    BY DEF Of
<1> HIDE DEF Left
<1>5. HandoffTypes'
    BY <1>1, <1>2, <1>4 DEF HandoffInv, HandoffTypes, PostTypes, Delivery, Letters
<1>6. \A r \in Roles : Box(r)' = {m \in Box(r) : mail[m].task # t}
    BY <1>1, <1>4 DEF Box
<1>7. Kept'
    <2>1. \A m \in Files : Gone(m)' \/ mail[m].task # t
        BY <1>3
    <2>2. \A m \in Files : \/ Gone(m)' \/ mail'[m].from = Master
                           \/ m \in outbox' \cup pending' \cup sent' \cup failed'
        BY <1>1, <1>3, <1>4, <2>1 DEF HandoffInv, Kept
    <2>3. \A m \in pending' : mail'[m].from = Master
        BY <1>1, <1>4 DEF HandoffInv, Kept
    <2>4. \A m \in Files : Gone(m) \/ m \in Box(Recipient(m)) => Gone(m)' \/ m \in Box(Recipient(m))'
        <3> SUFFICES ASSUME NEW m \in Files, m \in Box(Recipient(m)), mail[m].task # t
                     PROVE  m \in Box(Recipient(m))'
            BY <1>3, <2>1
        <3>1. Recipient(m)' = Recipient(m) /\ Recipient(m) \in Roles
            BY <1>3
        <3> QED BY <1>1, <1>4, <3>1 DEF Box
    <2>5. sent' \subseteq Files /\ sent' \subseteq sent
        BY <1>1, <1>4 DEF HandoffInv, HandoffTypes
    <2>6. post.at \in {"wake", "file"} => post.now \in Files
        BY DEF HandoffInv, HandoffTypes, PostTypes, Delivery
    <2> QED BY <1>1, <1>2, <2>2, <2>3, <2>4, <2>5, <2>6 DEF HandoffInv, Kept
<1>8. Waiting => Waiting'
    <2> SUFFICES ASSUME Waiting PROVE Waiting'
        OBVIOUS
    <2>1. \A m : Unread(m) => Unread(m)'
        BY <1>6 DEF Unread
    <2>2. \A m : desk # <<"approve", m>> /\ desk' # <<"approve", m>>
        BY <1>1
    <2> QED BY <1>1, <1>4, <2>1, <2>2 DEF Waiting, Delivery
<1> QED BY <1>1, <1>5, <1>7, <1>8 DEF HandoffInv, Undisturbed

-----------------------------------------------------------------------------
(* The daemon. *)

\* Between two files the daemon delivers nothing.
LEMMA TurnsTyped ==
    ASSUME mail' = mail, NEW todo \in SUBSET Files, post' = Turns(todo)
    PROVE  PostTypes' /\ post'.at \in {"idle", "next"} /\ ~Delivery'
<1>1. Files' = Files
    BY DEF Files
<1>2. CASE todo = {}
    <2>1. post' = [at |-> "idle", todo |-> {}, now |-> 0, ok |-> FALSE, rest |-> << >>]
        BY <1>2 DEF Turns, Idle
    <2> QED BY <2>1 DEF PostTypes, Delivery
<1>3. CASE todo # {}
    <2>1. post' = [at |-> "next", todo |-> todo, now |-> 0, ok |-> FALSE, rest |-> << >>]
        BY <1>3 DEF Turns, Idle
    <2> QED BY <1>1, <1>3, <2>1 DEF PostTypes, Delivery
<1> QED BY <1>2, <1>3

\* A file leaves the outbox for the directory it belongs into, or has left it.
LEMMA TurnEnds ==
    ASSUME HandoffInv, NEW n \in Files, PostTypes', ~Delivery',
           UNCHANGED <<mail, new, work, done, lane, desk>>, mishaps \subseteq mishaps',
           post.at = "next" \/ post.now = n,
           outbox' = outbox \ {n}, stamped' \in SUBSET stamped, stamped \ {n} \subseteq stamped',
           pending' = pending \/ (pending' = pending \cup {n} /\ mail[n].from = Master
                                    /\ n \in outbox /\ post.at = "next"),
           sent' = sent \/ (sent' = sent \cup {n} /\ (Gone(n) \/ n \in Box(Recipient(n)))),
           failed' = failed \/ failed' = failed \cup {n},
           n \in outbox => n \in pending' \cup sent' \cup failed'
    PROVE  HandoffInv'
<1>1. Files' = Files /\ \A r : Box(r)' = Box(r)
    BY DEF Files, Box
<1>2. \A m : (Gone(m)' <=> Gone(m)) /\ Recipient(m)' = Recipient(m)
    BY DEF Gone, Recipient
<1>3. post'.at \notin {"write", "wake", "file"}
    BY DEF Delivery
<1>4. HandoffTypes'
    <2>1. /\ outbox' \subseteq Files /\ pending' \subseteq Files /\ sent' \subseteq Files
          /\ failed' \subseteq Files /\ stamped' \subseteq Files
        BY DEF HandoffInv, HandoffTypes
    <2> QED BY <1>1, <1>3, <2>1 DEF HandoffInv, HandoffTypes, Letters
<1>5. Kept'
    <2>1. \A m \in Files : \/ Gone(m)' \/ mail'[m].from = Master
                           \/ m \in outbox' \cup pending' \cup sent' \cup failed'
        BY <1>2 DEF HandoffInv, Kept
    <2>2. \A m \in pending' : mail'[m].from = Master
        BY DEF HandoffInv, Kept
    <2>3. \A m \in sent' : Gone(m)' \/ m \in Box(Recipient(m))'
        <3>1. \A m \in sent' : Gone(m) \/ m \in Box(Recipient(m))
            BY DEF HandoffInv, Kept
        <3>2. \A m : Box(Recipient(m))' = Box(Recipient(m))
            BY <1>2 DEF Box
        <3> QED BY <1>2, <3>1, <3>2
    <2> QED BY <1>1, <1>3, <2>1, <2>2, <2>3 DEF Kept
<1>6. Waiting => Waiting'
    <2> SUFFICES ASSUME Waiting PROVE Waiting'
        OBVIOUS
    <2>1. \A m : Unread(m)' <=> Unread(m)
        BY <1>1 DEF Unread
    <2>2. \A m \in outbox' : Unread(m)
        BY DEF Waiting
    <2>3. \A m \in pending' : desk = <<"approve", m>> \/ (Unread(m) /\ m \notin outbox')
        BY DEF Waiting
    <2>4. \A m \in outbox' : desk = <<"approve", m>> => m \in stamped'
        BY DEF Waiting
    <2>5. \A r \in Roles : new[r] \cap (work[r] \cup done[r]) = {}
        BY DEF Waiting
    <2> QED BY <1>3, <2>1, <2>2, <2>3, <2>4, <2>5 DEF Waiting
<1> QED BY <1>4, <1>5, <1>6 DEF HandoffInv, Undisturbed

\* The daemon turns to another file, or to nothing.
LEMMA PostMoves ==
    ASSUME HandoffInv, PostTypes', ~Delivery', ~Delivery, mishaps \subseteq mishaps',
           UNCHANGED <<mail, outbox, pending, sent, failed, stamped, new, work, done, lane, desk>>
    PROVE  HandoffInv'
<1>1. Files' = Files /\ \A r : Box(r)' = Box(r)
    BY DEF Files, Box
<1>2. HandoffTypes'
    BY <1>1 DEF HandoffInv, HandoffTypes, Letters
<1>3. post.at \notin {"write", "wake", "file"} /\ post'.at \notin {"write", "wake", "file"}
    BY DEF Delivery
<1>4. Kept'
    BY <1>1, <1>3 DEF HandoffInv, Kept, Gone, Recipient, Box
<1>5. Waiting => Waiting'
    <2>1. \A m : Unread(m)' <=> Unread(m)
        BY <1>1 DEF Unread
    <2> QED BY <1>3, <2>1 DEF Waiting, Delivery
<1> QED BY <1>2, <1>4, <1>5 DEF HandoffInv, Undisturbed

\* The daemon lists what is in the outbox.
LEMMA PollKeeps == ASSUME HandoffInv, Poll PROVE HandoffInv'
<1>1. /\ post.at = "idle" /\ outbox # {} /\ post' = [post EXCEPT !.at = "next", !.todo = outbox]
      /\ UNCHANGED <<mail, outbox, pending, sent, failed, stamped, new, work, done, lane, desk, mishaps>>
    BY DEF Poll, Directories, Inboxes
<1>2. PostTypes' /\ ~Delivery' /\ ~Delivery
    BY <1>1 DEF HandoffInv, HandoffTypes, PostTypes, Delivery, Files
<1> QED BY <1>1, <1>2, PostMoves

\* A delivery starts: the board is told, and the file is still in no inbox.
LEMMA DeliveryStarts ==
    ASSUME HandoffInv, post.at = "next", NEW n \in post.todo, n \in outbox, ~BoardRefuses(n),
           lane' = BoardAfter(n),
           post' = [at |-> "write", todo |-> post.todo \ {n}, now |-> n,
                    ok |-> n \in stamped, rest |-> mail[n].to],
           UNCHANGED <<mail, outbox, pending, sent, failed, stamped, new, work, done, desk, mishaps>>
    PROVE  HandoffInv'
<1>1. Files' = Files /\ n \in Files /\ \A r : Box(r)' = Box(r)
    BY DEF Files, Box, HandoffInv, HandoffTypes
<1>2. n \in Nat /\ mail[n].to \in Seq(Roles)
    <2>1. n \in Nat /\ mail[n].to = <<Recipient(n)>> /\ Recipient(n) \in Roles
        BY <1>1, LetterFields
    <2>2. \A r \in Roles : <<r>> \in Seq(Roles)
        OBVIOUS
    <2> QED BY <2>1, <2>2
<1>3. PostTypes' /\ post'.at = "write" /\ post'.now = n
    <2>1. (n \in stamped) \in BOOLEAN
        <3>1. CASE n \in stamped
            BY <3>1
        <3>2. CASE n \notin stamped
            BY <3>2
        <3> QED BY <3>1, <3>2
    <2>2. post.todo \ {n} \in SUBSET Files
        BY DEF HandoffInv, HandoffTypes, PostTypes
    <2> QED BY <1>1, <1>2, <2>1, <2>2 DEF PostTypes, Delivery
<1>4. DOMAIN lane' = Tasks /\ \A t \in Tasks : lane[t] = "deleted" => lane'[t] = "deleted"
    <2>1. DOMAIN lane = Tasks
        BY DEF HandoffInv, HandoffTypes
    <2>2. CASE ~mail[n].git \/ (mail[n].copy /\ mail[n].from # Terminal)
        BY <2>1, <2>2 DEF BoardAfter
    <2>3. CASE mail[n].git /\ mail[n].from = Terminal
        <3>1. lane' = [t \in Tasks |-> IF t \in Completes(n) THEN "done" ELSE lane[t]]
            BY <2>3 DEF BoardAfter
        <3>2. \A t \in Completes(n) : lane[t] # "deleted"
            BY <2>3, RolesOfPack DEF Completes, BoardRefuses
        <3> QED BY <2>1, <3>1, <3>2
    <2>4. CASE mail[n].git /\ mail[n].from # Terminal /\ ~mail[n].copy
        BY <2>1, <2>4 DEF BoardAfter, BoardRefuses
    <2> QED BY <2>2, <2>3, <2>4
<1>5. HandoffTypes'
    BY <1>1, <1>3, <1>4 DEF HandoffInv, HandoffTypes, Letters
<1>6. \A m \in Files : (Gone(m) => Gone(m)') /\ Recipient(m)' = Recipient(m)
    BY <1>4, LetterFields DEF Gone, Recipient
<1>7. Kept'
    <2>1. \A m \in sent : Gone(m)' \/ m \in Box(Recipient(m))'
        <3>1. sent \subseteq Files /\ \A m \in sent : Gone(m) \/ m \in Box(Recipient(m))
            BY DEF HandoffInv, HandoffTypes, Kept
        <3>2. \A m : Box(Recipient(m))' = Box(Recipient(m))
            BY DEF Box, Recipient
        <3> QED BY <1>6, <3>1, <3>2
    <2> QED BY <1>1, <1>3, <1>6, <2>1 DEF HandoffInv, Kept
<1>8. Waiting => Waiting'
    <2> SUFFICES ASSUME Waiting PROVE Waiting'
        OBVIOUS
    <2>1. \A m : Unread(m)' <=> Unread(m)
        BY <1>1 DEF Unread
    <2>2. \A m \in outbox : Unread(m)
        BY DEF Waiting
    <2>3. \A m \in pending : desk = <<"approve", m>> \/ (Unread(m) /\ m \notin outbox /\ m # n)
        BY DEF Waiting
    <2>4. (post.at = "write" => Unread(post.now))'
        BY <1>3, <2>1, <2>2
    <2>5. Unread(n)'
        BY <2>1, <2>2
    <2> QED BY <1>3, <2>1, <2>2, <2>3, <2>4 DEF Waiting
<1> QED BY <1>5, <1>7, <1>8 DEF HandoffInv, Undisturbed

\* Every sender has a worktree.
LEMMA WorktreeIsNumber ==
    ASSUME HandoffInv, NEW n \in Files
    PROVE  Worktree(n) \in Nat
<1>1. mail[n].from \in Roles \cup {User}
    BY LetterFields DEF Letters
<1>2. CASE mail[n].from = User
    BY <1>2 DEF Worktree
<1>3. CASE mail[n].from \in Roles /\ mail[n].from # User
    <2>1. \E i \in DOMAIN Pack : Pack[i] = mail[n].from
        BY <1>3 DEF Roles
    <2>2. Rank(mail[n].from) \in DOMAIN Pack /\ DOMAIN Pack \subseteq Nat
        BY <2>1, PackOK DEF Rank
    <2> QED BY <1>3, <2>2 DEF Worktree
<1> QED BY <1>1, <1>2, <1>3

\* What the daemon takes up is in its list.
LEMMA NextOfList ==
    ASSUME HandoffInv, post.at = "next"
    PROVE  NextFile \in post.todo /\ NextFile \in Files
<1>1. post.todo \in SUBSET Files /\ post.todo \in SUBSET Nat /\ post.todo # {}
    BY DEF HandoffInv, HandoffTypes, PostTypes, Files
<1> DEFINE worktrees == {Worktree(m) : m \in post.todo}
<1>2. \A m \in post.todo : Worktree(m) \in Nat
    BY <1>1, WorktreeIsNumber
<1>3. worktrees \in SUBSET Nat /\ worktrees # {}
    BY <1>1, <1>2
<1>4. Min(worktrees) \in worktrees
    BY <1>3, FirstFile
<1>5. {m \in post.todo : Worktree(m) = Min(worktrees)} # {}
    BY <1>4
<1>6. First({m \in post.todo : Worktree(m) = Min(worktrees)}) \in post.todo
    BY <1>1, <1>5, FirstOfFiles
<1>7. NextFile = First({m \in post.todo : Worktree(m) = Min(worktrees)})
    BY DEF NextFile
<1> QED BY <1>1, <1>6, <1>7

\* The daemon takes up the next letter of its list.
LEMMA TakeKeeps == ASSUME HandoffInv, Take PROVE HandoffInv'
<1> DEFINE n == NextFile
<1>1. /\ post.at = "next" /\ UNCHANGED <<mail, new, work, done, desk, mishaps>>
      /\ post.todo \in SUBSET Files /\ post.todo \in SUBSET Nat /\ post.todo # {}
    BY DEF Take, Inboxes, HandoffInv, HandoffTypes, PostTypes, Files
<1>2. n \in post.todo /\ n \in Files
    BY <1>1, NextOfList
<1>3. post.todo \ {n} \in SUBSET Files
    BY <1>1
<1> HIDE DEF n
<1>4. \/ n \notin outbox /\ post' = Turns(post.todo \ {n}) /\ UNCHANGED <<Directories, lane>>
      \/ /\ n \in outbox /\ Held(n) /\ pending' = pending \cup {n} /\ LeavesOutbox(n)
         /\ post' = Turns(post.todo \ {n}) /\ UNCHANGED <<sent, failed, lane>>
      \/ /\ n \in outbox /\ Fails(n) /\ post' = Turns(post.todo \ {n})
         /\ UNCHANGED <<pending, sent, lane>>
      \/ /\ n \in outbox /\ ~BoardRefuses(n) /\ lane' = BoardAfter(n)
         /\ post' = [at |-> "write", todo |-> post.todo \ {n}, now |-> n,
                     ok |-> n \in stamped, rest |-> mail[n].to]
         /\ UNCHANGED Directories
    BY DEF Take, n
<1>9. post' = Turns(post.todo \ {n}) => PostTypes' /\ ~Delivery'
    BY <1>1, <1>3, TurnsTyped
<1>5. CASE n \notin outbox /\ post' = Turns(post.todo \ {n}) /\ UNCHANGED <<Directories, lane>>
    BY <1>1, <1>2, <1>9, <1>5, TurnEnds DEF Directories
<1>6. CASE /\ n \in outbox /\ Held(n) /\ pending' = pending \cup {n} /\ LeavesOutbox(n)
           /\ post' = Turns(post.todo \ {n}) /\ UNCHANGED <<sent, failed, lane>>
    BY <1>1, <1>2, <1>9, <1>6, TurnEnds DEF Held, LeavesOutbox
<1>7. CASE /\ n \in outbox /\ Fails(n) /\ post' = Turns(post.todo \ {n})
           /\ UNCHANGED <<pending, sent, lane>>
    BY <1>1, <1>2, <1>9, <1>7, TurnEnds DEF Fails, LeavesOutbox
<1>8. CASE /\ n \in outbox /\ ~BoardRefuses(n) /\ lane' = BoardAfter(n)
           /\ post' = [at |-> "write", todo |-> post.todo \ {n}, now |-> n,
                       ok |-> n \in stamped, rest |-> mail[n].to]
           /\ UNCHANGED Directories
    BY <1>1, <1>2, <1>8, DeliveryStarts DEF Directories
<1> QED BY <1>4, <1>5, <1>6, <1>7, <1>8

\* The file is written to the inbox of its recipient.
LEMMA WriteKeeps == ASSUME HandoffInv, Write PROVE HandoffInv'
<1> DEFINE n == post.now
           r == Recipient(post.now)
<1>1. n \in Files /\ r \in Roles /\ Head(post.rest) = r
    <2>1. n \in Files /\ post.rest = mail[n].to
        BY DEF Write, HandoffInv, HandoffTypes, PostTypes, Delivery
    <2> QED BY <2>1, LetterFields
<1>2. /\ post.at = "write" /\ new' = [new EXCEPT ![r] = @ \cup {n}]
      /\ post' = [post EXCEPT !.at = "wake"]
      /\ UNCHANGED <<mail, outbox, pending, sent, failed, stamped, work, done, lane, desk, mishaps>>
    BY <1>1 DEF Write, Directories
<1>3. new \in [Roles -> SUBSET Files] /\ Files' = Files
    BY <1>2 DEF HandoffInv, HandoffTypes, Files
<1>4. PostTypes' /\ post'.at = "wake" /\ post'.now = n
    BY <1>2, <1>3 DEF HandoffInv, HandoffTypes, PostTypes, Delivery
<1>5. HandoffTypes'
    <2>1. new' \in [Roles -> SUBSET Files]
        BY <1>1, <1>2, <1>3
    <2> QED BY <1>2, <1>3, <1>4, <2>1 DEF HandoffInv, HandoffTypes, Letters
<1>6. \A q \in Roles : Box(q)' = IF q = r THEN Box(q) \cup {n} ELSE Box(q)
    BY <1>1, <1>2, <1>3 DEF Box
<1>7. \A m \in Files : (Gone(m)' <=> Gone(m)) /\ Recipient(m)' = Recipient(m) /\ Recipient(m) \in Roles
    BY <1>2, LetterFields DEF Gone, Recipient
<1>8. Kept'
    <2>1. \A m \in sent : Gone(m)' \/ m \in Box(Recipient(m))'
        <3>1. sent \subseteq Files /\ \A m \in sent : Gone(m) \/ m \in Box(Recipient(m))
            BY DEF HandoffInv, HandoffTypes, Kept
        <3>2. \A m \in Files : Box(Recipient(m))' = Box(r)' \/ Box(Recipient(m))' = Box(Recipient(m))
            BY <1>1, <1>2, <1>3, <1>7 DEF Box
        <3>3. \A m \in Files : m \in Box(Recipient(m)) => m \in Box(Recipient(m))'
            BY <1>1, <1>2, <1>3, <1>7 DEF Box
        <3> QED BY <1>7, <3>1, <3>3
    <2>2. \A m : m = n => m \in Box(Recipient(m))'
        BY <1>1, <1>2, <1>3, <1>7 DEF Box
    <2>3. (post.now \in Box(Recipient(post.now)))'
        BY <1>4, <2>2
    <2> QED BY <1>2, <1>3, <1>7, <2>1, <2>3 DEF HandoffInv, Kept
<1>9. Waiting => Waiting'
    <2> SUFFICES ASSUME Waiting PROVE Waiting'
        OBVIOUS
    <2>1. Unread(n) /\ \A m : Unread(m) /\ m # n => Unread(m)'
        BY <1>2, <1>6 DEF Unread, Waiting
    <2>2. \A m \in outbox : Unread(m)' \/ m = n
        BY <1>2, <2>1 DEF Waiting
    <2>3. \A m \in pending : desk = <<"approve", m>> \/ (Unread(m)' /\ m \notin outbox /\ m # n)
        BY <1>2, <2>1 DEF Waiting, Delivery
    <2>4. \A q \in Roles : new'[q] \cap (work[q] \cup done[q]) = {}
        BY <1>1, <1>2, <1>3, <2>1 DEF Waiting, Unread, Box
    <2> QED BY <1>2, <1>4, <2>2, <2>3, <2>4 DEF Waiting
<1> QED BY <1>2, <1>5, <1>8, <1>9 DEF HandoffInv, Undisturbed

\* Its agent is woken, and the file can be filed; or the delivery fails.
LEMMA WakeKeeps == ASSUME HandoffInv, Wake PROVE HandoffInv'
<1>1. /\ post.at = "wake" /\ post.now \in Files /\ post.rest = mail[post.now].to
      /\ UNCHANGED <<mail, new, work, done, lane, desk>>
    BY DEF Wake, Inboxes, HandoffInv, HandoffTypes, PostTypes, Delivery
<1>2. Len(post.rest) = 1 /\ Tail(post.rest) = << >>
    <2>1. post.rest = <<Recipient(post.now)>>
        BY <1>1, LetterFields
    <2>2. \A r : Len(<<r>>) = 1 /\ Tail(<<r>>) = << >>
        OBVIOUS
    <2> QED BY <2>1, <2>2
<1>3. CASE UNCHANGED <<Directories, mishaps>> /\ post' = [post EXCEPT !.rest = << >>, !.at = "file"]
    <2>1. Files' = Files /\ (\A q : Box(q)' = Box(q)) /\ \A m : Gone(m)' = Gone(m) /\ Recipient(m)' = Recipient(m)
        BY <1>1 DEF Files, Box, Gone, Recipient
    <2>2. PostTypes' /\ post'.at = "file" /\ post'.now = post.now
        <3>1. post \in [at : {"idle", "next", "write", "wake", "file", "tell"}, todo : SUBSET Files, now : Nat,
                        ok : BOOLEAN, rest : Seq(Roles)]
            BY DEF HandoffInv, HandoffTypes, PostTypes
        <3>2. << >> \in Seq(Roles)
            OBVIOUS
        <3>3. /\ post' \in [at : {"idle", "next", "write", "wake", "file", "tell"}, todo : SUBSET Files, now : Nat,
                            ok : BOOLEAN, rest : Seq(Roles)]
              /\ post'.at = "file" /\ post'.now = post.now
            BY <1>3, <3>1, <3>2
        <3> QED BY <1>1, <2>1, <3>3 DEF PostTypes, Delivery
    <2>3. HandoffTypes'
        BY <1>1, <1>3, <2>1, <2>2 DEF HandoffInv, HandoffTypes, Directories, Letters
    <2>4. \A m : (m \in Box(Recipient(m)))' <=> m \in Box(Recipient(m))
        BY <1>1 DEF Box, Recipient
    <2>5. (Gone(post.now) \/ post.now \in Box(Recipient(post.now)))'
        <3>1. Gone(post.now) \/ post.now \in Box(Recipient(post.now))
            BY <1>1 DEF HandoffInv, Kept
        <3>2. \A m : m = post'.now => (Gone(m)' \/ (m \in Box(Recipient(m)))')
            BY <2>1, <2>2, <2>4, <3>1
        <3> QED BY <3>2
    <2>6. Kept'
        BY <1>1, <1>3, <2>1, <2>4, <2>5 DEF HandoffInv, Kept, Directories
    <2>7. \A m : Unread(m)' <=> Unread(m)
        BY <2>1 DEF Unread
    <2>8. Waiting => Waiting'
        BY <1>1, <1>3, <2>2, <2>7 DEF Waiting, Delivery, Directories
    <2> QED BY <1>3, <2>3, <2>6, <2>8 DEF HandoffInv, Undisturbed
<1>4. CASE Fault("deaf") /\ Fails(post.now) /\ post' = Turns(post.todo) /\ UNCHANGED <<pending, sent>>
    <2>1. post.todo \in SUBSET Files /\ mishaps \subseteq mishaps'
        BY <1>4 DEF HandoffInv, HandoffTypes, PostTypes, Fault
    <2>2. PostTypes' /\ ~Delivery'
        BY <1>1, <1>4, <2>1, TurnsTyped
    <2> QED BY <1>1, <1>4, <2>1, <2>2, TurnEnds DEF Fails, LeavesOutbox
<1> QED BY <1>2, <1>3, <1>4 DEF Wake

\* The daemon files the letter it has dealt with.
LEMMA FileKeeps == ASSUME HandoffInv, File PROVE HandoffInv'
<1>1. /\ post.at = "file" /\ post.now \in Files /\ post.todo \in SUBSET Files
      /\ UNCHANGED <<mail, new, work, done, lane, desk, pending, failed, mishaps>>
    BY DEF File, Directories, Inboxes, HandoffInv, HandoffTypes, PostTypes, Delivery
<1>2. Gone(post.now) \/ post.now \in Box(Recipient(post.now))
    BY <1>1 DEF HandoffInv, Kept
<1>3. CASE post.now \in outbox
    <2>1. sent' = sent \cup {post.now} /\ LeavesOutbox(post.now) /\ post' = [post EXCEPT !.at = "tell"]
        BY <1>3 DEF File
    <2>2. PostTypes' /\ ~Delivery'
        BY <1>1, <2>1 DEF HandoffInv, HandoffTypes, PostTypes, Delivery, Files
    <2> QED BY <1>1, <1>2, <1>3, <2>1, <2>2, TurnEnds DEF LeavesOutbox
<1>4. CASE post.now \notin outbox
    <2>1. UNCHANGED Directories /\ post' = Turns(post.todo)
        BY <1>4 DEF File
    <2>2. PostTypes' /\ ~Delivery'
        BY <1>1, <2>1, TurnsTyped
    <2> QED BY <1>1, <1>4, <2>1, <2>2, TurnEnds DEF Directories
<1> QED BY <1>3, <1>4

\* The sender is told, or not, and the daemon goes on.
LEMMA TellKeeps == ASSUME HandoffInv, Tell PROVE HandoffInv'
<1>1. /\ post.at = "tell" /\ post' = Turns(post.todo) /\ post.todo \in SUBSET Files
      /\ UNCHANGED <<mail, outbox, pending, sent, failed, stamped, new, work, done, lane, desk>>
    BY DEF Tell, Directories, Inboxes, HandoffInv, HandoffTypes, PostTypes
<1>2. mishaps \subseteq mishaps'
    BY DEF Tell, Hasty, Fault
<1>3. PostTypes' /\ ~Delivery' /\ ~Delivery
    BY <1>1, TurnsTyped DEF Delivery
<1> QED BY <1>1, <1>2, <1>3, PostMoves

\* A daemon that is killed forgets its list.
LEMMA KillDaemonKeeps == ASSUME HandoffInv, KillDaemon PROVE HandoffInv'
<1>1. /\ post' = Turns({}) /\ "daemon" \in mishaps'
      /\ UNCHANGED <<mail, outbox, pending, sent, failed, stamped, new, work, done, lane, desk>>
    BY DEF KillDaemon, Fault, Directories, Inboxes, Turns
<1>2. Files' = Files /\ (\A q : Box(q)' = Box(q)) /\ \A m : Gone(m)' = Gone(m) /\ Recipient(m)' = Recipient(m)
    BY <1>1 DEF Files, Box, Gone, Recipient
<1>3. PostTypes' /\ post'.at \in {"idle", "next"}
    BY <1>1, TurnsTyped
<1>4. HandoffTypes'
    BY <1>1, <1>2, <1>3 DEF HandoffInv, HandoffTypes, Letters
<1>5. Kept'
    <2>1. \A m : (m \in Box(Recipient(m)))' <=> m \in Box(Recipient(m))
        BY <1>1 DEF Box, Recipient
    <2> QED BY <1>1, <1>2, <1>3, <2>1 DEF HandoffInv, Kept
<1> QED BY <1>1, <1>4, <1>5 DEF HandoffInv, Undisturbed

-----------------------------------------------------------------------------
\* Every step keeps the invariant.
LEMMA HandoffStepKeeps == HandoffInv /\ CopyInv /\ [HandoffStep]_handoffVars => HandoffInv'
<1> SUFFICES ASSUME HandoffInv, CopyInv, [HandoffStep]_handoffVars PROVE HandoffInv'
    OBVIOUS
<1>1. CASE \E t \in Tasks : CreateTask(t)
    BY <1>1, CreateKeeps
<1>2. CASE \E n \in pending : Approve(n) \/ Retry(n) \/ Delete(n)
    BY <1>2, ApproveKeeps, RetryKeeps, DeleteKeeps
<1>3. CASE DeskEnds
    BY <1>3, DeskEndsKeeps
<1>4. CASE Daemon \/ KillDaemon
    BY <1>4, PollKeeps, TakeKeeps, WriteKeeps, WakeKeeps, FileKeeps, TellKeeps, KillDaemonKeeps DEF Daemon
<1>5. CASE \E r \in Roles : ReadyForNext(r) \/ Submit(r) \/ SendCopy(r) \/ DoneWithCurrent(r) \/ KillAgent(r)
    BY <1>5, ReadyKeeps, SubmitKeeps, SendCopyKeeps, DoneKeeps, KillAgentKeeps
<1>6. CASE UNCHANGED handoffVars
    BY <1>6, SameBoxes, MovesKeep DEF handoffVars, Directories
<1> QED BY <1>1, <1>2, <1>3, <1>4, <1>5, <1>6 DEF HandoffStep

-----------------------------------------------------------------------------
(* The copies. *)

\* A step that writes nothing and loses no unwritten copy leaves none missing.
LEMMA CopiesSame ==
    ASSUME CopyInv, UNCHANGED <<mail, unsent>>, mishaps \subseteq mishaps',
           DOMAIN agent' = Roles, \A r \in Roles : unsent[r] # << >> => agent'[r] = "queued"
    PROVE  CopyInv'
<1>1. \A r : Copied(r)' <=> Copied(r)
    BY DEF Copied
<1> QED BY <1>1 DEF CopyInv, Letters

\* A letter that no role has handed on, or a copy, is owed no copies, and those
\* of another stay written.
LEMMA CopiesStay ==
    ASSUME HandoffInv, NEW r \in Roles, Copied(r), NEW l, mail' = Append(mail, l),
           l.from # r \/ l.copy,
           \A j \in DOMAIN unsent[r] :
               unsent[r][j] = l \/ \E i \in DOMAIN unsent'[r] : unsent'[r][i] = unsent[r][j]
    PROVE  Copied(r)'
<1> DEFINE k == Len(mail) + 1
<1>1. /\ Files = 1 .. Len(mail) /\ DOMAIN mail' = Files \cup {k} /\ k \notin Files
      /\ mail'[k] = l /\ \A n \in Files : mail'[n] = mail[n] /\ k > n
    BY DEF HandoffInv, HandoffTypes, Files
<1> HIDE DEF k
<1> SUFFICES ASSUME NEW n \in DOMAIN mail', mail'[n].from = r, ~mail'[n].copy,
                    NEW i \in DOMAIN ReverseRoles(r)
             PROVE  \/ \E m \in DOMAIN mail' : m > n /\ mail'[m] = CopyTo(ReverseRoles(r)[i], mail'[n])
                    \/ \E j \in DOMAIN unsent'[r] : unsent'[r][j] = CopyTo(ReverseRoles(r)[i], mail'[n])
    BY DEF Copied
<1>2. n \in Files /\ mail'[n] = mail[n]
    BY <1>1
<1> DEFINE copy == CopyTo(ReverseRoles(r)[i], mail[n])
<1>3. (\E m \in Files : m > n /\ mail[m] = copy) \/ (\E j \in DOMAIN unsent[r] : unsent[r][j] = copy)
    BY <1>2 DEF Copied, Files
<1> HIDE DEF copy
<1>4. CASE \E m \in Files : m > n /\ mail[m] = copy
    BY <1>1, <1>2, <1>4 DEF copy
<1>5. CASE \E j \in DOMAIN unsent[r] : unsent[r][j] = copy
    <2>1. (l = copy) \/ \E j \in DOMAIN unsent'[r] : unsent'[r][j] = copy
        BY <1>5
    <2> QED BY <1>1, <1>2, <2>1 DEF copy
<1> QED BY <1>3, <1>4, <1>5

\* Every earlier role is one of the pack.
LEMMA ReverseRolesTyped ==
    ASSUME NEW r \in Roles
    PROVE  ReverseRoles(r) \in Seq(Roles)
<1>1. Pack \in Seq(Roles) /\ Len(Pack) \in Nat /\ DOMAIN Pack = 1 .. Len(Pack)
    BY PackOK DEF Roles
<1>2. Rank(r) \in 1 .. Len(Pack)
    <2>1. \E i \in DOMAIN Pack : Pack[i] = r
        BY DEF Roles
    <2> QED BY <1>1, <2>1 DEF Rank
<1>3. CASE Propagation[r] = "back-one" /\ Rank(r) > 1
    <2>1. Rank(r) - 1 \in DOMAIN Pack
        BY <1>1, <1>2, <1>3
    <2>2. Pack[Rank(r) - 1] \in Roles
        BY <2>1 DEF Roles
    <2> QED BY <1>3, <2>2 DEF ReverseRoles
<1>4. CASE Propagation[r] = "back-all"
    <2>1. SubSeq(Pack, 1, Rank(r) - 1) \in Seq(Roles)
        BY <1>1, <1>2
    <2>2. ReverseRoles(r) = SubSeq(Pack, 1, Rank(r) - 1)
        BY <1>4 DEF ReverseRoles
    <2> QED BY <2>1, <2>2
<1>5. CASE Propagation[r] # "back-all" /\ ~(Propagation[r] = "back-one" /\ Rank(r) > 1)
    BY <1>5 DEF ReverseRoles
<1> QED BY <1>3, <1>4, <1>5

\* What a copy says, and what it takes from the letter.
LEMMA CopyFields ==
    ASSUME NEW letter \in Letters, NEW q \in Roles
    PROVE  /\ CopyTo(q, letter) \in Letters /\ CopyTo(q, letter).copy /\ CopyTo(q, letter).back
           /\ CopyTo(q, letter).to = <<q>> /\ CopyTo(q, letter).from = letter.from
           /\ CopyTo(q, letter).task = letter.task /\ CopyTo(q, letter).git = letter.git
BY DEF CopyTo, Letters

\* A handoff, with the copies its command is going to write.
LEMMA SubmitCopies ==
    ASSUME HandoffInv, CopyInv, NEW r \in Roles, Submit(r)
    PROVE  CopyInv'
<1> DEFINE letter == Letter(Current(r), r, Recipients(r))
           k == Len(mail) + 1
<1>1. /\ mail' = Append(mail, letter) /\ unsent' = [unsent EXCEPT ![r] = Copies(r, letter)]
      /\ agent[r] = "work" /\ agent' = [agent EXCEPT ![r] = "queued"] /\ mishaps' = mishaps
    BY DEF Submit
<1>2. letter \in Letters /\ letter.from = r /\ ~letter.copy
    <2>1. work[r] \in SUBSET Files /\ work[r] \in SUBSET Nat /\ work[r] # {}
        BY DEF HandoffInv, HandoffTypes, Files, Submit, MaySend
    <2>2. First(work[r]) \in Files
        BY <2>1, FirstOfFiles
    <2>3. Current(r) \in Tasks
        BY <2>2, LetterFields DEF Current
    <2> QED BY <2>3, RecipientsOfRole DEF Letter, Letters
<1>3. unsent \in [Roles -> Seq(Letters)] /\ unsent[r] = << >>
    BY <1>1 DEF CopyInv
<1>4. /\ Files = 1 .. Len(mail) /\ DOMAIN mail' = Files \cup {k} /\ k \notin Files
      /\ mail'[k] = letter /\ \A n \in Files : mail'[n] = mail[n] /\ k > n
    BY <1>1 DEF HandoffInv, HandoffTypes, Files
<1> HIDE DEF letter, k
<1>5. /\ Copies(r, letter) \in Seq(Letters) /\ DOMAIN Copies(r, letter) = DOMAIN ReverseRoles(r)
      /\ \A i \in DOMAIN ReverseRoles(r) : Copies(r, letter)[i] = CopyTo(ReverseRoles(r)[i], letter)
      /\ \A i \in DOMAIN ReverseRoles(r) : Copies(r, letter)[i].copy
    <2>1. ReverseRoles(r) \in Seq(Roles)
        BY ReverseRolesTyped
    <2>2. /\ DOMAIN ReverseRoles(r) = 1 .. Len(ReverseRoles(r)) /\ Len(ReverseRoles(r)) \in Nat
          /\ \A i \in DOMAIN ReverseRoles(r) : ReverseRoles(r)[i] \in Roles
        BY <2>1
    <2>3. \A i \in DOMAIN ReverseRoles(r) :
             CopyTo(ReverseRoles(r)[i], letter) \in Letters /\ CopyTo(ReverseRoles(r)[i], letter).copy
        BY <1>2, <2>2, CopyFields
    <2> HIDE DEF Letters
    <2> QED BY <2>2, <2>3 DEF Copies
<1>6. unsent' \in [Roles -> Seq(Letters)] /\ unsent'[r] = Copies(r, letter)
      /\ \A q \in Roles : q # r => unsent'[q] = unsent[q]
    BY <1>1, <1>3, <1>5
<1>7. DOMAIN agent' = Roles /\ \A q \in Roles : unsent'[q] # << >> => agent'[q] = "queued"
    <2>1. DOMAIN agent' = Roles /\ agent'[r] = "queued" /\ \A q \in Roles : q # r => agent'[q] = agent[q]
        BY <1>1 DEF CopyInv
    <2> QED BY <1>6, <2>1 DEF CopyInv
<1>8. \A q \in Roles : \A j \in DOMAIN unsent'[q] : unsent'[q][j].copy
    BY <1>5, <1>6 DEF CopyInv
<1>9. ASSUME NEW q \in Roles, q # r, Copied(q) PROVE Copied(q)'
    BY <1>1, <1>2, <1>6, <1>9, CopiesStay
<1>10. ASSUME Copied(r) PROVE Copied(r)'
    <2> SUFFICES ASSUME NEW n \in DOMAIN mail', mail'[n].from = r, ~mail'[n].copy,
                        NEW i \in DOMAIN ReverseRoles(r)
                 PROVE  \/ \E m \in DOMAIN mail' : m > n /\ mail'[m] = CopyTo(ReverseRoles(r)[i], mail'[n])
                        \/ \E j \in DOMAIN unsent'[r] : unsent'[r][j] = CopyTo(ReverseRoles(r)[i], mail'[n])
        BY DEF Copied
    <2>1. CASE n = k
        BY <1>4, <1>5, <1>6, <2>1
    <2>2. CASE n \in Files
        <3>1. \E m \in Files : m > n /\ mail[m] = CopyTo(ReverseRoles(r)[i], mail[n])
            <4>1. mail[n].from = r /\ ~mail[n].copy /\ DOMAIN unsent[r] = {}
                BY <1>3, <1>4, <2>2
            <4> QED BY <1>10, <2>2, <4>1 DEF Copied, Files
        <3> QED BY <1>4, <2>2, <3>1
    <2> QED BY <1>4, <2>1, <2>2
<1>11. \A q \in Roles : Copied(q)' \/ q \in mishaps'
    BY <1>1, <1>9, <1>10 DEF CopyInv
<1> QED BY <1>6, <1>7, <1>8, <1>11 DEF CopyInv, Letters

\* A copy that is written is no longer owed.
LEMMA SendCopyCopies ==
    ASSUME HandoffInv, CopyInv, NEW r \in Roles, SendCopy(r)
    PROVE  CopyInv'
<1>1. /\ mail' = Append(mail, Head(unsent[r])) /\ unsent' = [unsent EXCEPT ![r] = Tail(@)]
      /\ unsent[r] # << >> /\ agent' = agent /\ mishaps' = mishaps
    BY DEF SendCopy
<1>2. unsent \in [Roles -> Seq(Letters)] /\ unsent[r] \in Seq(Letters)
    BY DEF CopyInv
<1>3. /\ Tail(unsent[r]) \in Seq(Letters)
      /\ \A j \in DOMAIN Tail(unsent[r]) : j + 1 \in DOMAIN unsent[r] /\ Tail(unsent[r])[j] = unsent[r][j + 1]
      /\ \A j \in DOMAIN unsent[r] :
            j = 1 \/ (j - 1 \in DOMAIN Tail(unsent[r]) /\ Tail(unsent[r])[j - 1] = unsent[r][j])
      /\ Head(unsent[r]) = unsent[r][1] /\ 1 \in DOMAIN unsent[r]
    BY <1>1, <1>2
<1>4. unsent' \in [Roles -> Seq(Letters)] /\ unsent'[r] = Tail(unsent[r])
      /\ \A q \in Roles : q # r => unsent'[q] = unsent[q]
    BY <1>1, <1>2, <1>3
<1>5. Head(unsent[r]).copy
    BY <1>3 DEF CopyInv
<1>6. DOMAIN agent' = Roles /\ \A q \in Roles : unsent'[q] # << >> => agent'[q] = "queued"
    BY <1>1, <1>4 DEF CopyInv
<1>7. \A q \in Roles : \A j \in DOMAIN unsent'[q] : unsent'[q][j].copy
    <2>1. ASSUME NEW j \in DOMAIN unsent'[r] PROVE unsent'[r][j].copy
        <3>1. j + 1 \in DOMAIN unsent[r] /\ unsent'[r][j] = unsent[r][j + 1]
            BY <1>3, <1>4
        <3> QED BY <3>1 DEF CopyInv
    <2>2. \A q \in Roles : q # r => \A j \in DOMAIN unsent'[q] : unsent'[q][j].copy
        BY <1>4 DEF CopyInv
    <2> QED BY <2>1, <2>2
<1>8. ASSUME NEW q \in Roles, Copied(q) PROVE Copied(q)'
    <2>1. ASSUME NEW j \in DOMAIN unsent[q]
          PROVE  unsent[q][j] = Head(unsent[r]) \/ \E i \in DOMAIN unsent'[q] : unsent'[q][i] = unsent[q][j]
        <3>1. CASE q # r
            BY <1>4, <3>1
        <3>2. CASE q = r
            <4>1. CASE j = 1
                BY <1>3, <3>2, <4>1
            <4>2. CASE j # 1
                <5>1. j - 1 \in DOMAIN unsent'[r] /\ unsent'[r][j - 1] = unsent[r][j]
                    BY <1>3, <1>4, <3>2, <4>2
                <5> QED BY <3>2, <5>1
            <4> QED BY <4>1, <4>2
        <3> QED BY <3>1, <3>2
    <2> QED BY <1>1, <1>5, <1>8, <2>1, CopiesStay
<1>9. \A q \in Roles : Copied(q)' \/ q \in mishaps'
    BY <1>1, <1>8 DEF CopyInv
<1> QED BY <1>4, <1>6, <1>7, <1>9 DEF CopyInv, Letters

\* The user's note is owed no copies.
LEMMA CreateCopies ==
    ASSUME HandoffInv, CopyInv, NEW t \in Tasks, CreateTask(t)
    PROVE  CopyInv'
<1>1. unsent' = unsent /\ agent' = agent /\ mishaps \subseteq mishaps'
    BY DEF CreateTask, Agents, Fault
<1>2. CASE mail' = mail
    BY <1>1, <1>2, CopiesSame DEF CopyInv
<1>3. CASE mail' = Append(mail, Letter(t, User, <<Master>>))
    <2>1. \A r \in Roles : r # User
        BY PackShape DEF Roles
    <2>2. Letter(t, User, <<Master>>).from = User
        BY DEF Letter
    <2>3. ASSUME NEW r \in Roles, Copied(r) PROVE Copied(r)'
        BY <1>1, <1>3, <2>1, <2>2, <2>3, CopiesStay
    <2> QED BY <1>1, <2>3 DEF CopyInv, Letters
<1> QED BY <1>2, <1>3 DEF CreateTask

\* A command ends when its copies are written, or is killed.
LEMMA AgentCopies ==
    ASSUME CopyInv, NEW r \in Roles, ReadyForNext(r) \/ DoneWithCurrent(r) \/ KillAgent(r)
    PROVE  CopyInv'
<1>1. mail' = mail /\ mishaps \subseteq mishaps'
    BY DEF ReadyForNext, DoneWithCurrent, KillAgent, Fault
<1>2. DOMAIN agent' = Roles /\ \A q \in Roles : q # r => agent'[q] = agent[q]
    <2>1. \/ agent' = agent \/ agent' = [agent EXCEPT ![r] = "rest"]
          \/ agent' = [agent EXCEPT ![r] = "work"]
        BY DEF ReadyForNext, DoneWithCurrent, KillAgent, Refuses, Works
    <2>2. DOMAIN agent = Roles
        BY DEF CopyInv
    <2> QED BY <2>1, <2>2
<1>3. CASE ReadyForNext(r) \/ DoneWithCurrent(r)
    <2>1. unsent' = unsent
        BY <1>3 DEF ReadyForNext, DoneWithCurrent
    <2>2. unsent[r] = << >>
        BY <1>3 DEF ReadyForNext, DoneWithCurrent, CopyInv
    <2> QED BY <1>1, <1>2, <2>1, <2>2, CopiesSame DEF CopyInv
<1>4. CASE KillAgent(r)
    <2>1. unsent' = [unsent EXCEPT ![r] = << >>] /\ r \in mishaps'
        BY <1>4 DEF KillAgent, Fault
    <2>2. unsent' \in [Roles -> Seq(Letters)] /\ unsent'[r] = << >>
          /\ \A q \in Roles : q # r => unsent'[q] = unsent[q]
        BY <2>1 DEF CopyInv
    <2>3. \A q \in Roles : q # r => (Copied(q)' <=> Copied(q))
        BY <1>1, <2>2 DEF Copied
    <2>4. \A q \in Roles : unsent'[q] # << >> => agent'[q] = "queued"
        BY <1>2, <2>2 DEF CopyInv
    <2>5. \A q \in Roles : \A j \in DOMAIN unsent'[q] : unsent'[q][j].copy
        <3>1. DOMAIN unsent'[r] = {}
            BY <2>2
        <3> QED BY <2>2, <3>1 DEF CopyInv
    <2>6. \A q \in Roles : Copied(q)' \/ q \in mishaps'
        BY <1>1, <2>1, <2>3 DEF CopyInv
    <2> QED BY <1>2, <2>2, <2>4, <2>5, <2>6 DEF CopyInv, Letters
<1> QED BY <1>3, <1>4

\* Nobody owes copies at the start, and every step of every process leaves
\* none missing but a killed sender's.
LEMMA CopiesInitially == HandoffInit => CopyInv
<1> SUFFICES ASSUME HandoffInit PROVE CopyInv
    OBVIOUS
<1>1. mail = << >> /\ unsent = [r \in Roles |-> << >>] /\ DOMAIN agent = Roles
    BY DEF HandoffInit
<1>2. \A r \in Roles : unsent[r] = << >>
    BY <1>1
<1>3. unsent \in [Roles -> Seq(Letters)]
    <2>1. << >> \in Seq(Letters)
        OBVIOUS
    <2> QED BY <1>1, <2>1
<1>4. \A r \in Roles : Copied(r)
    BY <1>1 DEF Copied
<1> QED BY <1>1, <1>2, <1>3, <1>4 DEF CopyInv

\* Every step keeps CopyInv: a copy is written only by its sender, after the
\* handoff it goes with, and no one else touches what it has still to write
\* (send.ts:680-687).
LEMMA CopyStepKeeps == HandoffInv /\ CopyInv /\ [HandoffStep]_handoffVars => CopyInv'
<1> SUFFICES ASSUME HandoffInv, CopyInv, [HandoffStep]_handoffVars PROVE CopyInv'
    OBVIOUS
<1>1. CASE \E t \in Tasks : CreateTask(t)
    BY <1>1, CreateCopies
<1>2. CASE (\E n \in pending : Approve(n) \/ Retry(n) \/ Delete(n)) \/ DeskEnds \/ Daemon \/ KillDaemon
    <2>1. UNCHANGED <<mail, unsent, agent>> /\ mishaps \subseteq mishaps'
        BY <1>2 DEF Approve, Retry, Delete, DeskEnds, Daemon, Poll, Take, Write, Wake, File, Tell,
                    KillDaemon, Agents, Hasty, Fault
    <2> QED BY <2>1, CopiesSame DEF CopyInv
<1>3. CASE \E r \in Roles : Submit(r) \/ SendCopy(r)
    BY <1>3, SubmitCopies, SendCopyCopies
<1>4. CASE \E r \in Roles : ReadyForNext(r) \/ DoneWithCurrent(r) \/ KillAgent(r)
    BY <1>4, AgentCopies
<1>5. CASE UNCHANGED handoffVars
    BY <1>5, CopiesSame DEF handoffVars, CopyInv
<1> QED BY <1>1, <1>2, <1>3, <1>4, <1>5 DEF HandoffStep

(* Whatever the pack and its propagation, the tasks and the processes killed
   between whichever two steps, a handoff or copy that was written is found in
   an outbox, held, filed as failed, or filed as sent and then in the inbox of
   its recipient; it is in one place of an inbox, unless the daemon or the
   dashboard was killed half-way; and every role that is to get a copy of what
   another has handed on has one, or its command is about to write it, unless
   that other role was killed. *)
THEOREM HandoffsDelivered == HandoffSpec => []DeliveredExactlyOnce
<1>1. HandoffInit => HandoffInv /\ CopyInv
    BY HandoffInitially, CopiesInitially
<1>2. HandoffInv /\ CopyInv /\ [HandoffStep]_handoffVars => (HandoffInv /\ CopyInv)'
    BY HandoffStepKeeps, CopyStepKeeps
<1>3. HandoffSpec => [](HandoffInv /\ CopyInv)
    BY <1>1, <1>2, PTL DEF HandoffSpec
<1> QED BY <1>3, InvMeansDelivered, PTL

-----------------------------------------------------------------------------
(* Where the work is. *)

\* What a letter says is decided by its task and its sender; a copy goes to an
\* earlier role, which is not the last, and not from the first.
Address(from) == IF from = User THEN <<Master>> ELSE Recipients(from)
IsLetter(l) == l = Letter(l.task, l.from, Address(l.from))
IsCopy(l) ==
    /\ l.from \in Roles \ {Master}
    /\ \E q \in Roles \ {Terminal} : l = CopyTo(q, Letter(l.task, l.from, Address(l.from)))
Addressable(l) == IF l.copy THEN IsCopy(l) ELSE IsLetter(l)
Addressed(n) == Addressable(mail[n])

\* A delivery has a file in the outbox, unless its task was deleted meanwhile,
\* and the board has been told.
OnTheWay ==
    /\ Delivery => Gone(post.now) \/ post.now \in outbox
    /\ (Delivery \/ post.at = "tell") /\ post.ok => mail[post.now].from = Master
    /\ (Delivery \/ post.at = "tell") /\ mail[post.now].from = Master => post.ok
    /\ post.at = "write" /\ mail[post.now].git /\ ~mail[post.now].copy /\ ~Gone(post.now) =>
          lane[mail[post.now].task] = IF mail[post.now].from = Terminal THEN "done" ELSE Recipient(post.now)

AgentTypes ==
    /\ agent \in [Roles -> {"rest", "work", "queued"}]
    /\ batch \in [Roles -> {"none", "open", "archiving"}]
    /\ \A r \in Roles \ BatchRoles : batch[r] = "none"

Placed ==
    /\ \A n \in Files : Addressed(n) /\ lane[mail[n].task] # "none"
    /\ \A r \in Roles : \A n \in Box(r) : Recipient(n) = r
    /\ \A n \in stamped : mail[n].from = Master
    /\ \A n \in failed : Gone(n) \/ n \in Box(Recipient(n))

\* The copies that are owed are those of letters of their role.
Owed ==
    \A r \in Roles : \A j \in DOMAIN unsent[r] :
        LET l == unsent[r][j] IN IsCopy(l) /\ l.from = r /\ l.task \in Tasks /\ lane[l.task] # "none"

Known == AgentTypes /\ Placed /\ OnTheWay /\ Owed

\* What a role has in process is one task or a batch, unless the role or the
\* dashboard met the other half-way.
Whole ==
    \A r \in Roles : {r, "hasty"} \cap mishaps = {} =>
        IF r \in BatchRoles THEN batch[r] # "archiving" /\ (batch[r] # "none" => work[r] # {})
        ELSE \E n \in Nat : work[r] \subseteq {n}

\* An idle agent with work knows of it, and so does one with mail, message by
\* message, once it has been delivered.
Aware(r) == r \in awake \/ r \in refused
Coming(n) == n \in outbox /\ ~(post.at = "file" /\ post.now = n)
WorkSeen == \A r \in Roles : agent[r] = "rest" /\ work[r] # {} => Aware(r)
MailSeen ==
    \A r \in Roles : \A n \in new[r] :
        agent[r] = "rest" /\ work[r] = {} =>
            \/ Aware(r) \/ Gone(n) \/ "deaf" \in mishaps
            \/ Coming(n)
HeldUnread == \A n \in outbox : Held(n) => Unread(n) /\ ~(Delivery /\ post.now = n)

\* As long as nothing went wrong and no task is deleted, the master idles
\* beside its mail only while its own handoff is on its way, or somebody is
\* about to wake it.
Clean ==
    /\ {"deaf", "web", "daemon", "hasty"} \cap mishaps = {}
    /\ \A t \in Tasks : lane[t] # "deleted"
Approving(n) == n \in pending /\ (n \in outbox \/ (post.at = "tell" /\ post.now = n))
Overlooked(n) == agent[Master] = "rest" /\ Master \notin awake /\ work[Master] = {} /\ ~Coming(n)
Blocked ==
    \/ Outbound(Master) # {} \/ (post.at = "tell" /\ mail[post.now].from = Master)
    \/ \E m \in Files : desk = <<"retry", m>>
MasterTold ==
    Clean =>
        /\ agent[Master] # "rest" => work[Master] # {}
        /\ \A n \in Files : desk = <<"approve", n>> => Approving(n)
        /\ \A n \in new[Master] : Overlooked(n) => Blocked

WakeInv == Known /\ Whole /\ WorkSeen /\ MailSeen /\ HeldUnread /\ MasterTold

-----------------------------------------------------------------------------
(* The pack is a line of roles. *)

\* The last role is another one than the first, hands back to it, and no
\* column of the board or sender of notes is a role.
LEMMA EndsOfPack ==
    /\ Master \in Roles /\ Terminal \in Roles /\ Master # Terminal
    /\ Master \notin BatchRoles /\ BatchRoles \subseteq {Terminal}
    /\ User \notin Roles /\ "none" \notin Roles /\ "done" \notin Roles /\ "deleted" \notin Roles
    /\ "deaf" \notin Roles
    /\ Recipients(Terminal) = <<Master>>
<1>1. Len(Pack) \in Nat /\ DOMAIN Pack = 1 .. Len(Pack) /\ Len(Pack) > 1
    BY PackOK, PackShape
<1>2. Master # Terminal
    BY <1>1, PackShape DEF Master, Terminal
<1>3. User \notin Roles /\ "none" \notin Roles /\ "done" \notin Roles /\ "deaf" \notin Roles
    BY PackShape DEF User, Roles
<1>4. BatchRoles \subseteq {Terminal}
    BY PackShape DEF Terminal
<1> QED BY <1>2, <1>3, <1>4, RolesOfPack DEF Recipients

\* A role in the line hands on to the next one.
LEMMA NextInPack ==
    ASSUME NEW i \in DOMAIN Pack, i # Len(Pack)
    PROVE  i + 1 \in DOMAIN Pack /\ Recipients(Pack[i]) = <<Pack[i + 1]>> /\ Pack[i] # Terminal
<1>1. Len(Pack) \in Nat /\ DOMAIN Pack = 1 .. Len(Pack) /\ Len(Pack) > 1
    BY PackOK, PackShape
<1>2. i + 1 \in DOMAIN Pack /\ i + 1 > 1 /\ Pack[(i + 1) - 1] = Pack[i]
    BY <1>1
<1>3. Pack[i] # Terminal
    BY <1>1, PackShape DEF Terminal
<1> DEFINE Follows(k) == k > 1 /\ Pack[k - 1] = Pack[i]
<1>4. ASSUME NEW k \in DOMAIN Pack, Follows(k) PROVE k = i + 1
    <2>1. k - 1 \in DOMAIN Pack
        BY <1>1, <1>4
    <2> QED BY <1>1, <1>4, <2>1, PackShape
<1>5. Follows(i + 1)
    BY <1>2
<1> HIDE DEF Follows
<1>6. (CHOOSE k \in DOMAIN Pack : Follows(k)) = i + 1
    BY <1>2, <1>4, <1>5
<1>7. After(Pack[i]) = Pack[i + 1]
    BY <1>6 DEF After, Follows
<1> QED BY <1>2, <1>3, <1>7 DEF Recipients

\* A role receives the work of one other role.
LEMMA OneSender ==
    ASSUME NEW r \in Roles, NEW s \in Roles, Recipients(r) = Recipients(s), r # Terminal, s # Terminal
    PROVE  r = s /\ Recipients(r) # <<Master>>
<1>1. PICK i \in DOMAIN Pack : Pack[i] = r
    BY DEF Roles
<1>2. PICK j \in DOMAIN Pack : Pack[j] = s
    BY DEF Roles
<1>3. i # Len(Pack) /\ j # Len(Pack)
    BY <1>1, <1>2 DEF Terminal
<1>4. /\ i + 1 \in DOMAIN Pack /\ Recipients(r) = <<Pack[i + 1]>>
      /\ j + 1 \in DOMAIN Pack /\ Recipients(s) = <<Pack[j + 1]>>
    BY <1>1, <1>2, <1>3, NextInPack
<1>5. Pack[i + 1] = Pack[j + 1]
    <2>1. <<Pack[i + 1]>> = <<Pack[j + 1]>>
        BY <1>4
    <2>2. \A a, b : <<a>> = <<b>> => a = b
        OBVIOUS
    <2> QED BY <2>1, <2>2
<1>6. Len(Pack) \in Nat /\ DOMAIN Pack = 1 .. Len(Pack) /\ Len(Pack) > 1
    BY PackOK, PackShape
<1>7. i + 1 = j + 1
    BY <1>4, <1>5, PackShape
<1>8. i = j /\ 1 \in DOMAIN Pack /\ i + 1 # 1
    BY <1>6, <1>7
<1>9. Pack[i + 1] # Master
    BY <1>4, <1>8, PackShape DEF Master
<1> QED BY <1>1, <1>2, <1>4, <1>8, <1>9

\* The roles that a role sends copies to are earlier ones.
LEMMA EarlierRoles ==
    ASSUME NEW r \in Roles, NEW i \in DOMAIN ReverseRoles(r)
    PROVE  r # Master /\ ReverseRoles(r)[i] \in Roles \ {Terminal}
<1>1. Pack \in Seq(STRING) /\ Len(Pack) \in Nat /\ DOMAIN Pack = 1 .. Len(Pack) /\ Len(Pack) > 1
    BY PackOK, PackShape
<1>2. Rank(r) \in 1 .. Len(Pack) /\ Pack[Rank(r)] = r
    <2>1. \E j \in DOMAIN Pack : Pack[j] = r
        BY DEF Roles
    <2> QED BY <1>1, <2>1 DEF Rank
<1>3. ASSUME NEW j \in 1 .. Rank(r) - 1
      PROVE  r # Master /\ Pack[j] \in Roles \ {Terminal}
    <2>1. j \in DOMAIN Pack /\ 1 \in DOMAIN Pack /\ j < Len(Pack) /\ Rank(r) > 1
        BY <1>1, <1>2
    <2>2. Pack[j] # Terminal
        <3>1. j # Len(Pack) /\ Len(Pack) \in DOMAIN Pack
            BY <1>1, <2>1
        <3> QED BY <2>1, <3>1, PackShape DEF Terminal
    <2>3. r # Master
        BY <1>1, <1>2, <2>1, PackShape DEF Master
    <2> QED BY <2>1, <2>2, <2>3 DEF Roles
<1>4. CASE Propagation[r] = "back-one" /\ Rank(r) > 1
    <2>1. ReverseRoles(r) = <<Pack[Rank(r) - 1]>>
        BY <1>4 DEF ReverseRoles
    <2>2. i = 1 /\ ReverseRoles(r)[i] = Pack[Rank(r) - 1]
        BY <2>1
    <2>3. Rank(r) - 1 \in 1 .. Rank(r) - 1
        BY <1>2, <1>4
    <2> QED BY <1>3, <2>2, <2>3
<1>5. CASE Propagation[r] = "back-all"
    <2>1. ReverseRoles(r) = SubSeq(Pack, 1, Rank(r) - 1)
        BY <1>5 DEF ReverseRoles
    <2>2. i \in 1 .. Rank(r) - 1 /\ ReverseRoles(r)[i] = Pack[i]
        BY <1>1, <1>2, <2>1
    <2> QED BY <1>3, <2>2
<1>6. CASE Propagation[r] # "back-all" /\ ~(Propagation[r] = "back-one" /\ Rank(r) > 1)
    BY <1>6 DEF ReverseRoles
<1> QED BY <1>4, <1>5, <1>6

\* The fields of a copy.
LEMMA CopyIs ==
    ASSUME NEW l \in Letters, IsCopy(l)
    PROVE  /\ l.copy /\ l.back /\ l.git /\ l.from \in Roles \ {Master}
           /\ \E q \in Roles \ {Terminal} : l.to = <<q>>
<1>1. PICK q \in Roles \ {Terminal} : l = CopyTo(q, Letter(l.task, l.from, Address(l.from)))
    BY DEF IsCopy
<1> DEFINE a == Letter(l.task, l.from, Address(l.from))
<1>2. CopyTo(q, a).copy /\ CopyTo(q, a).back /\ CopyTo(q, a).git = a.git /\ CopyTo(q, a).to = <<q>>
    BY DEF CopyTo, Letter
<1>3. a.git = (l.from # User)
    BY DEF Letter
<1> HIDE DEF a
<1>4. l.from \in Roles \ {Master} /\ l.from # User
    BY EndsOfPack DEF IsCopy
<1> QED BY <1>1, <1>2, <1>3, <1>4 DEF a

\* The fields of a letter that is addressed as it should be.
LEMMA AddressedFields ==
    ASSUME HandoffInv, NEW n \in Files, Addressed(n)
    PROVE  /\ mail[n].from \in Roles \cup {User} /\ mail[n].task \in Tasks
           /\ mail[n].git <=> mail[n].from # User
           /\ mail[n].back <=> mail[n].copy \/ mail[n].from = Terminal
           /\ mail[n].to = <<Recipient(n)>> /\ (~mail[n].copy => mail[n].to = Address(mail[n].from))
           /\ Recipient(n) \in Roles
           /\ mail[n].from = User => Recipient(n) = Master /\ ~mail[n].copy
           /\ mail[n].from = Terminal /\ ~mail[n].copy => Recipient(n) = Master
           /\ mail[n].copy => mail[n].from \in Roles \ {Master} /\ Recipient(n) # Terminal
<1>1. mail[n] \in Letters /\ Recipient(n) \in Roles /\ mail[n].to = <<Recipient(n)>> /\ mail[n].task \in Tasks
      /\ mail[n].from \in Roles \cup {User}
    BY LetterFields DEF Letters
<1>2. CASE mail[n].copy
    <2>1. IsCopy(mail[n])
        BY <1>2 DEF Addressed, Addressable
    <2>2. /\ mail[n].back /\ mail[n].git /\ mail[n].from \in Roles \ {Master}
          /\ \E q \in Roles \ {Terminal} : mail[n].to = <<q>>
        BY <1>1, <2>1, CopyIs
    <2>3. Recipient(n) # Terminal
        BY <2>2 DEF Recipient
    <2> QED BY <1>1, <1>2, <2>2, <2>3, EndsOfPack
<1>3. CASE ~mail[n].copy
    <2> DEFINE l == Letter(mail[n].task, mail[n].from, Address(mail[n].from))
    <2>1. mail[n] = l
        BY <1>3 DEF Addressed, Addressable, IsLetter
    <2>2. l.git = (mail[n].from # User) /\ l.back = (mail[n].from = Terminal) /\ l.to = Address(mail[n].from)
        BY DEF Letter
    <2> HIDE DEF l
    <2>3. mail[n].to = Address(mail[n].from)
        BY <2>1, <2>2
    <2>4. mail[n].from = User => Recipient(n) = Master
        <3>1. mail[n].from = User => mail[n].to = <<Master>>
            BY <2>3 DEF Address
        <3> QED BY <1>1, <3>1
    <2>5. mail[n].from = Terminal => Recipient(n) = Master
        <3>1. mail[n].from = Terminal => mail[n].to = <<Master>>
            BY <2>3, EndsOfPack DEF Address
        <3> QED BY <1>1, <3>1
    <2>6. mail[n].git <=> mail[n].from # User
        BY <2>1, <2>2
    <2>7. mail[n].back <=> mail[n].from = Terminal
        BY <2>1, <2>2
    <2> QED BY <1>1, <1>3, <2>3, <2>4, <2>5, <2>6, <2>7
<1> QED BY <1>2, <1>3

\* Two letters to one role come from one sender, the reports aside.
LEMMA SameSender ==
    ASSUME HandoffInv, NEW m \in Files, NEW n \in Files, Addressed(m), Addressed(n),
           Recipient(m) = Recipient(n), ~mail[m].back, ~mail[n].back
    PROVE  mail[m].from = mail[n].from
<1>1. /\ mail[m].from \in Roles \cup {User} /\ mail[n].from \in Roles \cup {User}
      /\ mail[m].from # Terminal /\ mail[n].from # Terminal
      /\ Address(mail[m].from) = Address(mail[n].from)
    <2>1. ~mail[m].copy /\ ~mail[n].copy
        BY AddressedFields
    <2> QED BY <2>1, AddressedFields
<1>2. ASSUME NEW r \in Roles, r # Terminal PROVE Address(r) = Recipients(r) /\ Recipients(r) # <<Master>>
    BY <1>2, OneSender, EndsOfPack DEF Address
<1>3. Address(User) = <<Master>>
    BY DEF Address
<1>4. CASE mail[m].from = User \/ mail[n].from = User
    BY <1>1, <1>2, <1>3, <1>4
<1>5. CASE mail[m].from \in Roles /\ mail[n].from \in Roles
    BY <1>1, <1>2, <1>5, OneSender
<1> QED BY <1>1, <1>4, <1>5

-----------------------------------------------------------------------------
(* What no step undoes. *)

\* The letters stay what they are, and a deleted task deleted.
OldMail ==
    /\ Files \subseteq Files'
    /\ \A n \in Files : /\ mail'[n] = mail[n] /\ Recipient(n)' = Recipient(n)
                        /\ Gone(n) => Gone(n)'
    /\ mishaps \subseteq mishaps'

\* A step that leaves mail and board alone is one.
LEMMA SameMail ==
    ASSUME HandoffInv, UNCHANGED <<mail, lane>>, mishaps \subseteq mishaps'
    PROVE  OldMail /\ \A n : Gone(n)' <=> Gone(n)
BY DEF OldMail, Files, Recipient, Gone

\* So is one that tells the board something else than a deletion of others.
LEMMA BoardMoves ==
    ASSUME HandoffInv, mail' = mail, mishaps \subseteq mishaps',
           \A t \in Tasks : lane[t] = "deleted" => lane'[t] = "deleted"
    PROVE  OldMail
<1>1. \A n \in Files : Recipient(n)' = Recipient(n) /\ (Gone(n) => Gone(n)')
    BY LetterFields DEF Recipient, Gone
<1> QED BY <1>1 DEF OldMail, Files

\* A letter is added.
LEMMA LetterAdded ==
    ASSUME HandoffInv, NEW l \in Letters, mail' = Append(mail, l), mishaps \subseteq mishaps',
           \A t \in Tasks : lane[t] = "deleted" => lane'[t] = "deleted"
    PROVE  OldMail /\ Files' = Files \cup {Len(mail) + 1} /\ Len(mail) + 1 \notin Files
           /\ mail'[Len(mail) + 1] = l
<1>1. /\ Files = 1 .. Len(mail) /\ Files' = Files \cup {Len(mail) + 1} /\ Len(mail) + 1 \notin Files
      /\ mail'[Len(mail) + 1] = l
      /\ \A n \in Files : mail'[n] = mail[n]
    BY DEF HandoffInv, HandoffTypes, Files
<1>2. \A n \in Files : Recipient(n)' = Recipient(n) /\ (Gone(n) => Gone(n)')
    BY <1>1, LetterFields DEF Recipient, Gone
<1> QED BY <1>1, <1>2 DEF OldMail

\* What the daemon tells the board: what the last role sends completes tasks,
\* another handoff moves its own to its recipient, and a copy moves none.
LEMMA BoardTold ==
    ASSUME HandoffInv, NEW n \in Files, Addressed(n), ~BoardRefuses(n), lane' = BoardAfter(n)
    PROVE  /\ \A t \in Tasks : /\ lane[t] = "deleted" => lane'[t] = "deleted"
                               /\ lane'[t] = lane[t] \/ lane'[t] \in Roles \cup {"done"}
           /\ mail[n].from = Terminal =>
                \A t \in Tasks : lane'[t] = IF t \in Completes(n) THEN "done" ELSE lane[t]
           /\ mail[n].from # Terminal =>
                \A t \in Tasks : t # mail[n].task => lane'[t] = lane[t]
           /\ mail[n].git /\ ~mail[n].copy /\ mail[n].from # Terminal => lane'[mail[n].task] = Recipient(n)
           /\ ~mail[n].git \/ (mail[n].copy /\ mail[n].from # Terminal) => lane' = lane
<1>1. /\ mail[n].git <=> mail[n].from # User
      /\ mail[n].to = <<Recipient(n)>> /\ Recipient(n) \in Roles /\ mail[n].task \in Tasks
    BY AddressedFields
<1>2. DOMAIN lane = Tasks
    BY DEF HandoffInv, HandoffTypes
<1>3. Head(mail[n].to) = Recipient(n)
    BY <1>1
<1>4. CASE ~mail[n].git \/ (mail[n].copy /\ mail[n].from # Terminal)
    BY <1>1, <1>4, EndsOfPack DEF BoardAfter
<1>5. CASE mail[n].git /\ mail[n].from = Terminal
    <2>1. lane' = [t \in Tasks |-> IF t \in Completes(n) THEN "done" ELSE lane[t]]
        BY <1>5 DEF BoardAfter
    <2>2. \A t \in Completes(n) : lane[t] # "deleted"
        BY <1>5, RolesOfPack DEF Completes, BoardRefuses
    <2> QED BY <1>2, <1>5, <2>1, <2>2
<1>6. CASE mail[n].git /\ ~mail[n].copy /\ mail[n].from # Terminal
    <2>1. lane' = [lane EXCEPT ![mail[n].task] = Recipient(n)]
        BY <1>3, <1>6 DEF BoardAfter
    <2>2. lane[mail[n].task] # "deleted"
        BY <1>6 DEF BoardRefuses
    <2> QED BY <1>1, <1>2, <1>6, <2>1, <2>2
<1> QED BY <1>4, <1>5, <1>6

\* The file the daemon takes up is one of its list, and of the outbox unless it
\* has left it.
LEMMA TakesOne ==
    ASSUME HandoffInv, Take
    PROVE  /\ NextFile \in Files
           /\ post.at = "next" /\ ~Delivery
           /\ UNCHANGED <<mail, new, work, done, batch, agent, unsent, awake, refused, desk, mishaps>>
           /\ post.todo \ {NextFile} \in SUBSET Files
<1>1. /\ post.at = "next"
      /\ UNCHANGED <<mail, new, work, done, batch, agent, unsent, awake, refused, desk, mishaps>>
      /\ post.todo \in SUBSET Files
    BY DEF Take, Inboxes, Agents, HandoffInv, HandoffTypes, PostTypes
<1> QED BY <1>1, NextOfList DEF Delivery

\* What it then does with it.
Skipped(n) == n \notin outbox /\ post' = Turns(post.todo \ {n}) /\ UNCHANGED <<Directories, lane>>
HeldBack(n) ==
    /\ n \in outbox /\ Held(n) /\ pending' = pending \cup {n} /\ LeavesOutbox(n)
    /\ post' = Turns(post.todo \ {n}) /\ UNCHANGED <<sent, failed, lane>>
Refused(n) ==
    /\ n \in outbox /\ ~Held(n) /\ BoardRefuses(n) /\ Fails(n)
    /\ post' = Turns(post.todo \ {n}) /\ UNCHANGED <<pending, sent, lane>>
Started(n) ==
    /\ n \in outbox /\ ~Held(n) /\ ~BoardRefuses(n) /\ lane' = BoardAfter(n)
    /\ post' = [at |-> "write", todo |-> post.todo \ {n}, now |-> n,
                ok |-> n \in stamped, rest |-> mail[n].to]
    /\ UNCHANGED Directories

\* These are the cases.
LEMMA TakeCases ==
    ASSUME Take
    PROVE  Skipped(NextFile) \/ HeldBack(NextFile) \/ Refused(NextFile) \/ Started(NextFile)
BY DEF Take, Skipped, HeldBack, Refused, Started

\* The file being delivered, and its recipient.
LEMMA OnDelivery ==
    ASSUME HandoffInv, Delivery
    PROVE  /\ post.now \in Files /\ post.todo \in SUBSET Files
           /\ post.at \in {"write", "wake"} => Head(post.rest) = Recipient(post.now) /\ Len(post.rest) = 1
<1>1. post.now \in Files /\ post.todo \in SUBSET Files
    BY DEF HandoffInv, HandoffTypes, PostTypes
<1>2. post.at \in {"write", "wake"} => post.rest = mail[post.now].to
    BY DEF HandoffInv, HandoffTypes, PostTypes
<1>3. mail[post.now].to = <<Recipient(post.now)>>
    BY <1>1, LetterFields
<1>4. \A r : Head(<<r>>) = r /\ Len(<<r>>) = 1
    OBVIOUS
<1> QED BY <1>1, <1>2, <1>3, <1>4

\* A letter that is submitted is about a task of the board.
LEMMA SubmitsLetter ==
    ASSUME HandoffInv, NEW r \in Roles, Submit(r)
    PROVE  /\ \E k \in work[r] : k \in Files /\ Current(r) = mail[k].task
           /\ Letter(Current(r), r, Recipients(r)) \in Letters
           /\ mail' = Append(mail, Letter(Current(r), r, Recipients(r)))
           /\ outbox' = outbox \cup {Len(mail) + 1}
           /\ agent[r] = "work" /\ agent' = [agent EXCEPT ![r] = "queued"] /\ MaySend(r)
           /\ UNCHANGED <<pending, sent, failed, stamped, new, work, done, batch, lane, awake, refused,
                          post, desk, mishaps>>
<1>1. /\ mail' = Append(mail, Letter(Current(r), r, Recipients(r))) /\ outbox' = outbox \cup {Len(mail) + 1}
      /\ UNCHANGED <<pending, sent, failed, stamped, new, work, done, batch, lane, awake, refused,
                     post, desk, mishaps>>
      /\ work[r] # {} /\ agent[r] = "work" /\ agent' = [agent EXCEPT ![r] = "queued"] /\ MaySend(r)
    BY DEF Submit, MaySend, Inboxes
<1>2. work[r] \in SUBSET Files /\ work[r] \in SUBSET Nat
    BY DEF HandoffInv, HandoffTypes, Files
<1>3. First(work[r]) \in work[r]
    BY <1>1, <1>2, FirstOfFiles
<1>4. \E k \in work[r] : k \in Files /\ Current(r) = mail[k].task
    BY <1>2, <1>3 DEF Current
<1>5. Letter(Current(r), r, Recipients(r)) \in Letters
    <2>1. Current(r) \in Tasks
        BY <1>4, LetterFields
    <2> QED BY <2>1, RecipientsOfRole DEF Letter, Letters
<1> QED BY <1>1, <1>4, <1>5

\* A copy that is written is one of those its role owes.
LEMMA SendsCopy ==
    ASSUME HandoffInv, CopyInv, Owed, NEW r \in Roles, SendCopy(r)
    PROVE  \E l \in Letters :
              /\ l = unsent[r][1] /\ 1 \in DOMAIN unsent[r]
              /\ IsCopy(l) /\ l.copy /\ l.back /\ l.git /\ l.from = r /\ r # Master /\ lane[l.task] # "none"
              /\ \E q \in Roles \ {Terminal} : l.to = <<q>>
              /\ mail' = Append(mail, l) /\ outbox' = outbox \cup {Len(mail) + 1}
              /\ unsent' = [unsent EXCEPT ![r] = Tail(@)]
              /\ \A j \in DOMAIN unsent'[r] : \E i \in DOMAIN unsent[r] : unsent'[r][j] = unsent[r][i]
              /\ agent[r] = "queued"
              /\ UNCHANGED <<pending, sent, failed, stamped, new, work, done, batch, lane, agent, awake, refused,
                             post, desk, mishaps>>
<1>1. /\ mail' = Append(mail, Head(unsent[r])) /\ outbox' = outbox \cup {Len(mail) + 1}
      /\ unsent' = [unsent EXCEPT ![r] = Tail(@)] /\ unsent[r] # << >>
      /\ UNCHANGED <<pending, sent, failed, stamped, new, work, done, batch, lane, agent, awake, refused,
                     post, desk, mishaps>>
    BY DEF SendCopy, Inboxes
<1>2. unsent \in [Roles -> Seq(Letters)] /\ unsent[r] \in Seq(Letters) /\ agent[r] = "queued"
    BY <1>1 DEF CopyInv
<1>3. 1 \in DOMAIN unsent[r] /\ Head(unsent[r]) = unsent[r][1] /\ Head(unsent[r]) \in Letters
    BY <1>1, <1>2
<1>4. IsCopy(unsent[r][1]) /\ unsent[r][1].from = r /\ lane[unsent[r][1].task] # "none"
    BY <1>3 DEF Owed
<1>5. \A j \in DOMAIN Tail(unsent[r]) : j + 1 \in DOMAIN unsent[r] /\ Tail(unsent[r])[j] = unsent[r][j + 1]
    BY <1>1, <1>2
<1>6. unsent'[r] = Tail(unsent[r])
    BY <1>1, <1>2
<1> QED BY <1>1, <1>2, <1>3, <1>4, <1>5, <1>6, CopyIs

-----------------------------------------------------------------------------
(* Every step keeps what is known of the files. *)

\* A step that adds no letter, and moves each only into the inbox of its
\* recipient, where it stays.
LEMMA PlacedKept ==
    ASSUME HandoffInv, Placed, OldMail, mail' = mail,
           \A t \in Tasks : lane'[t] = "none" => lane[t] = "none",
           \A r \in Roles : \A n \in Box(r)' : n \in Box(r) \/ (n \in Files /\ Recipient(n) = r),
           \A n \in Files : n \in Box(Recipient(n)) => Gone(n)' \/ n \in Box(Recipient(n))',
           \A n \in stamped' : mail[n].from = Master,
           \A n \in failed' : n \in failed \/ (n \in Files /\ (Gone(n)' \/ n \in Box(Recipient(n))))
    PROVE  Placed'
<1>1. Files' = Files /\ \A n \in Files : Recipient(n)' = Recipient(n) /\ (Gone(n) => Gone(n)')
    BY DEF Files, OldMail
<1>2. \A n \in Files' : Addressed(n)' /\ lane'[mail'[n].task] # "none"
    BY <1>1, LetterFields DEF Placed, Addressed
<1>3. \A r \in Roles : \A n \in Box(r)' : Recipient(n)' = r
    <2>1. \A r \in Roles : Box(r) \subseteq Files
        BY DEF HandoffInv, HandoffTypes, Box
    <2> QED BY <1>1, <2>1 DEF Placed
<1>4. \A n \in failed' : Gone(n)' \/ n \in Box(Recipient(n))'
    <2>1. failed \subseteq Files
        BY DEF HandoffInv, HandoffTypes
    <2>2. \A n \in failed' : n \in Files /\ (Gone(n)' \/ n \in Box(Recipient(n)))
        BY <1>1, <2>1 DEF Placed
    <2> QED BY <2>2
<1>5. \A n \in stamped' : mail'[n].from = Master
    OBVIOUS
<1> QED BY <1>2, <1>3, <1>4, <1>5 DEF Placed

\* In particular one that leaves the inboxes alone.
LEMMA PlacedStill ==
    ASSUME HandoffInv, Placed, OldMail, UNCHANGED <<mail, new, work, done>>,
           \A t \in Tasks : lane'[t] = "none" => lane[t] = "none",
           \A n \in stamped' : mail[n].from = Master,
           \A n \in failed' : n \in failed \/ (n \in Files /\ (Gone(n)' \/ n \in Box(Recipient(n))))
    PROVE  Placed'
<1>1. \A r : Box(r)' = Box(r)
    BY DEF Box
<1>2. \A n : Box(Recipient(n))' = Box(Recipient(n))
    BY DEF Box, Recipient
<1> QED BY <1>1, <1>2, PlacedKept

\* Nothing is on the way between two deliveries.
LEMMA NothingOnTheWay == ASSUME ~Delivery', post'.at # "tell" PROVE OnTheWay'
BY DEF OnTheWay, Delivery

\* A delivery goes on while its file stays in the outbox and its task in its
\* lane, or until the task is deleted.
LEMMA StillOnTheWay ==
    ASSUME HandoffInv, Placed, OnTheWay, OldMail, post' = post,
           Delivery => \/ Gone(post.now)'
                       \/ /\ post.now \in outbox => post.now \in outbox'
                          /\ lane'[mail[post.now].task] = lane[mail[post.now].task]
    PROVE  OnTheWay'
<1>1. CASE Delivery
    <2>1. /\ post.now \in Files /\ mail'[post.now] = mail[post.now]
          /\ Recipient(post.now)' = Recipient(post.now) /\ (Gone(post.now) => Gone(post.now)')
        <3>1. post.now \in Files
            BY <1>1, OnDelivery
        <3>2. \A n \in Files : mail'[n] = mail[n] /\ Recipient(n)' = Recipient(n) /\ (Gone(n) => Gone(n)')
            BY DEF OldMail
        <3>3. Recipient(post.now)' = Recipient(post.now) /\ (Gone(post.now) => Gone(post.now)')
            BY <3>1, <3>2 DEF Recipient, Gone
        <3> QED BY <3>1, <3>2, <3>3
    <2> QED BY <1>1, <2>1 DEF OnTheWay, Delivery
<1>2. CASE ~Delivery
    <2>1. ~Delivery'
        BY <1>2 DEF Delivery
    <2>2. CASE post.at = "tell"
        <3>1. post.now \in Files
            BY <2>2 DEF HandoffInv, HandoffTypes, PostTypes
        <3>2. mail'[post.now] = mail[post.now]
            BY <3>1 DEF OldMail
        <3> QED BY <2>1, <2>2, <3>2 DEF OnTheWay, Delivery
    <2> QED BY <2>1, <2>2, NothingOnTheWay
<1> QED BY <1>1, <1>2

\* A role that writes no more than it owes, owes what it did.
LEMMA OwedKept ==
    ASSUME Owed, \A t \in Tasks : lane'[t] = "none" => lane[t] = "none",
           \A r \in Roles : \A j \in DOMAIN unsent'[r] :
               \E i \in DOMAIN unsent[r] : unsent'[r][j] = unsent[r][i]
    PROVE  Owed'
BY DEF Owed

\* In particular when nobody writes.
LEMMA OwedSame ==
    ASSUME Owed, unsent' = unsent, \A t \in Tasks : lane'[t] = "none" => lane[t] = "none"
    PROVE  Owed'
BY DEF Owed

\* Letters are added and addressed.
LEMMA PostedKnown ==
    ASSUME HandoffInv, Known, NEW l \in Letters, mail' = Append(mail, l),
           UNCHANGED <<stamped, failed, new, work, done, batch, post>>,
           outbox \subseteq outbox', AgentTypes', mishaps \subseteq mishaps', Owed',
           Addressable(l), lane'[l.task] # "none",
           \A t \in Tasks : lane'[t] = lane[t] \/ (lane[t] = "none" /\ lane'[t] \notin {"none", "deleted"})
    PROVE  Known'
<1>0. PICK k : k = Len(mail) + 1
    OBVIOUS
<1>1. /\ OldMail /\ Files' = Files \cup {k} /\ k \notin Files /\ mail'[k] = l
      /\ \A n \in Files : mail'[n] = mail[n] /\ Recipient(n)' = Recipient(n) /\ (Gone(n) => Gone(n)')
    BY <1>0, LetterAdded DEF OldMail
<1>2. \A n \in Files' : Addressed(n)' /\ lane'[mail'[n].task] # "none"
    <2>1. \A n \in Files : Addressed(n) /\ lane[mail[n].task] # "none" /\ mail[n].task \in Tasks
        BY LetterFields DEF Known, Placed
    <2>2. ASSUME NEW n \in Files PROVE Addressed(n)' /\ lane'[mail'[n].task] # "none"
        <3>1. mail'[n] = mail[n] /\ Addressed(n) /\ lane[mail[n].task] # "none" /\ mail[n].task \in Tasks
            BY <1>1, <2>1
        <3>2. Addressed(n)'
            BY <3>1 DEF Addressed
        <3> QED BY <3>1, <3>2
    <2>3. Addressed(k)' /\ lane'[mail'[k].task] # "none"
        BY <1>1 DEF Addressed
    <2>4. \A n \in Files' : n \in Files \/ n = k
        BY <1>1
    <2> QED BY <2>2, <2>3, <2>4
<1>3. /\ \A r \in Roles : Box(r) \subseteq Files
      /\ stamped \subseteq Files /\ failed \subseteq Files
    BY DEF HandoffInv, HandoffTypes, Box
<1>4. \A r \in Roles : \A n \in Box(r)' : Recipient(n)' = r
    BY <1>1, <1>3 DEF Known, Placed, Box
<1>5. \A n \in stamped' : mail'[n].from = Master
    BY <1>1, <1>3 DEF Known, Placed
<1>6. \A n \in failed' : Gone(n)' \/ n \in Box(Recipient(n))'
    <2>1. \A n \in failed : n \in Files /\ (Gone(n) \/ n \in Box(Recipient(n)))
        BY <1>3 DEF Known, Placed
    <2>2. \A n \in Files : n \in Box(Recipient(n)) => n \in Box(Recipient(n))'
        BY <1>1 DEF Box
    <2> QED BY <1>1, <2>1, <2>2
<1>7. Placed'
    BY <1>2, <1>4, <1>5, <1>6 DEF Placed
<1>8. OnTheWay'
    <2>1. Delivery => post.now \in Files /\ mail[post.now].task \in Tasks /\ lane[mail[post.now].task] # "none"
        BY OnDelivery, LetterFields DEF Known, Placed
    <2> QED BY <1>1, <2>1, StillOnTheWay DEF Known
<1> QED BY <1>7, <1>8 DEF Known

\* A task is created.
LEMMA CreateKnown == ASSUME HandoffInv, Known, NEW t \in Tasks, CreateTask(t) PROVE Known'
<1>1. /\ lane[t] = "none" /\ lane' = [lane EXCEPT ![t] = Master] /\ mishaps \subseteq mishaps'
      /\ UNCHANGED <<pending, sent, failed, stamped, new, work, done, batch, agent, unsent, awake, refused,
                     post, desk>>
    BY DEF CreateTask, Inboxes, Agents, Fault
<1>2. \A u \in Tasks : lane'[u] = lane[u] \/ (lane[u] = "none" /\ lane'[u] \notin {"none", "deleted"})
    BY <1>1, EndsOfPack DEF HandoffInv, HandoffTypes
<1>3. lane'[t] # "none" /\ AgentTypes' /\ Owed'
    <2>1. lane'[t] # "none" /\ AgentTypes'
        BY <1>1, EndsOfPack DEF HandoffInv, HandoffTypes, Known, AgentTypes
    <2> QED BY <1>1, <1>2, <2>1, OwedSame DEF Known
<1>4. CASE mail' = Append(mail, Letter(t, User, <<Master>>)) /\ outbox' = outbox \cup {Len(mail) + 1}
    <2> DEFINE l == Letter(t, User, <<Master>>)
    <2>1. l \in Letters /\ l.task = t /\ l.from = User /\ ~l.copy /\ l = Letter(t, User, Address(User))
        BY RolesOfPack DEF Letter, Letters, Address
    <2> HIDE DEF l
    <2>3. Addressable(l)
        BY <2>1 DEF Addressable, IsLetter
    <2>2. mail' = Append(mail, l) /\ outbox \subseteq outbox'
        BY <1>4 DEF l
    <2> QED BY <1>1, <1>2, <1>3, <2>1, <2>2, <2>3, PostedKnown
<1>5. CASE UNCHANGED <<mail, outbox>>
    <2>1. OldMail
        BY <1>1, <1>2, <1>5, BoardMoves
    <2>2. Placed'
        BY <1>1, <1>2, <1>5, <2>1, PlacedStill DEF Known, Placed
    <2>3. OnTheWay'
        <3>1. Delivery => mail[post.now].task \in Tasks /\ lane[mail[post.now].task] # "none"
            BY OnDelivery, LetterFields DEF Known, Placed
        <3> QED BY <1>1, <1>2, <1>5, <2>1, <3>1, StillOnTheWay DEF Known
    <2> QED BY <1>3, <2>2, <2>3 DEF Known
<1> QED BY <1>4, <1>5 DEF CreateTask

\* A role hands its work on, and owes the copies of it.
LEMMA SubmitKnown == ASSUME HandoffInv, CopyInv, Known, NEW r \in Roles, Submit(r) PROVE Known'
<1> DEFINE l == Letter(Current(r), r, Recipients(r))
<1>1. /\ l \in Letters /\ l.task = Current(r) /\ l.from = r /\ ~l.copy
      /\ l = Letter(l.task, l.from, Address(l.from))
    BY SubmitsLetter, EndsOfPack DEF Letter, Address
<1>2. unsent' = [unsent EXCEPT ![r] = Copies(r, l)]
    BY DEF Submit
<1> HIDE DEF l
<1>3. /\ mail' = Append(mail, l) /\ outbox \subseteq outbox' /\ agent' = [agent EXCEPT ![r] = "queued"]
      /\ UNCHANGED <<stamped, failed, new, work, done, batch, lane, post, mishaps>>
    BY SubmitsLetter DEF l
<1>4. lane'[l.task] # "none" /\ l.task \in Tasks
    <2>1. PICK k \in Files : Current(r) = mail[k].task
        BY SubmitsLetter
    <2>2. lane[mail[k].task] # "none" /\ mail[k].task \in Tasks
        BY LetterFields DEF Known, Placed
    <2> QED BY <1>1, <1>3, <2>1, <2>2
<1>5. AgentTypes'
    BY <1>3 DEF Known, AgentTypes
<1>6. Addressable(l)
    BY <1>1 DEF Addressable, IsLetter
<1>7. Owed'
    <2>1. /\ unsent'[r] = Copies(r, l) /\ \A q \in Roles : q # r => unsent'[q] = unsent[q]
        BY <1>2 DEF CopyInv
    <2>2. ASSUME NEW i \in DOMAIN Copies(r, l)
          PROVE  IsCopy(Copies(r, l)[i]) /\ Copies(r, l)[i].from = r /\ Copies(r, l)[i].task = l.task
        <3>1. i \in DOMAIN ReverseRoles(r) /\ Copies(r, l)[i] = CopyTo(ReverseRoles(r)[i], l)
            BY DEF Copies
        <3>2. r # Master /\ ReverseRoles(r)[i] \in Roles \ {Terminal}
            BY <3>1, EarlierRoles
        <3> DEFINE q == ReverseRoles(r)[i]
        <3>3. CopyTo(q, l).from = l.from /\ CopyTo(q, l).task = l.task
            BY <1>1, <3>2, CopyFields
        <3>4. CopyTo(q, l) = CopyTo(q, Letter(CopyTo(q, l).task, CopyTo(q, l).from, Address(CopyTo(q, l).from)))
            BY <1>1, <3>3
        <3> HIDE DEF q
        <3> QED BY <1>1, <3>1, <3>2, <3>3, <3>4 DEF IsCopy, q
    <2>3. \A q \in Roles : q # r => \A j \in DOMAIN unsent'[q] :
              IsCopy(unsent'[q][j]) /\ unsent'[q][j].from = q /\ unsent'[q][j].task \in Tasks
                 /\ lane'[unsent'[q][j].task] # "none"
        BY <1>3, <2>1 DEF Known, Owed
    <2> QED BY <1>4, <2>1, <2>2, <2>3 DEF Owed
<1> QED BY <1>1, <1>3, <1>4, <1>5, <1>6, <1>7, PostedKnown

\* A copy is written, and no longer owed.
LEMMA SendCopyKnown == ASSUME HandoffInv, CopyInv, Known, NEW r \in Roles, SendCopy(r) PROVE Known'
<1>1. PICK l \in Letters :
              /\ IsCopy(l) /\ l.copy /\ lane[l.task] # "none"
              /\ mail' = Append(mail, l) /\ outbox' = outbox \cup {Len(mail) + 1}
              /\ unsent' = [unsent EXCEPT ![r] = Tail(@)]
              /\ \A j \in DOMAIN unsent'[r] : \E i \in DOMAIN unsent[r] : unsent'[r][j] = unsent[r][i]
              /\ UNCHANGED <<stamped, failed, new, work, done, batch, lane, agent, post, mishaps>>
    BY SendsCopy DEF Known
<1>2. \A q \in Roles : \A j \in DOMAIN unsent'[q] : \E i \in DOMAIN unsent[q] : unsent'[q][j] = unsent[q][i]
    <2>1. \A q \in Roles : q # r => unsent'[q] = unsent[q]
        BY <1>1 DEF CopyInv
    <2> QED BY <1>1, <2>1
<1>3. Owed'
    BY <1>1, <1>2, OwedKept DEF Known
<1>4. AgentTypes' /\ Addressable(l)
    BY <1>1 DEF Known, AgentTypes, Addressable
<1> QED BY <1>1, <1>3, <1>4, PostedKnown

\* A request of the dashboard starts.
LEMMA RequestKnown == ASSUME HandoffInv, Known, NEW n \in pending, Approve(n) \/ Retry(n) PROVE Known'
<1>1. /\ UNCHANGED <<mail, failed, new, work, done, batch, lane, agent, unsent, post>>
      /\ stamped' \subseteq stamped \cup {n} /\ outbox \subseteq outbox' /\ mishaps \subseteq mishaps'
    BY DEF Approve, Retry, Inboxes, Agents, Hasty
<1>2. OldMail
    BY <1>1, SameMail
<1>3. \A m \in stamped' : mail[m].from = Master
    BY <1>1 DEF Known, Placed, HandoffInv, Kept
<1>4. Placed'
    BY <1>1, <1>2, <1>3, PlacedStill DEF Known
<1>5. OnTheWay' /\ Owed'
    BY <1>1, <1>2, StillOnTheWay, OwedSame DEF Known
<1> QED BY <1>1, <1>4, <1>5 DEF Known, AgentTypes

\* What the end of a request does: it drops the held copy, or takes the task
\* up again, or is cut short.
LEMMA RequestEnds ==
    ASSUME HandoffInv, DeskEnds
    PROVE  /\ desk' = << >> /\ mishaps \subseteq mishaps'
           /\ UNCHANGED <<mail, outbox, sent, failed, stamped, new, batch, lane, agent, unsent, refused, post>>
           /\ \/ /\ \E n \in Files : desk = <<"approve", n>> /\ pending' = pending \ {n}
                 /\ UNCHANGED <<work, done, awake, mishaps>>
              \/ /\ \E n \in Files : desk = <<"retry", n>> /\ Restored(Master, mail[n].task)
                 /\ awake' = IF agent[Master] = "rest" THEN awake \cup {Master} ELSE awake
                 /\ Hasty(work[Master] # {}) /\ pending' = pending
              \/ "web" \in mishaps' /\ UNCHANGED <<pending, work, done, awake>>
<1>1. /\ desk # << >> /\ desk' = << >> /\ mishaps \subseteq mishaps'
      /\ UNCHANGED <<mail, outbox, sent, failed, stamped, new, batch, lane, agent, unsent, refused, post>>
    BY DEF DeskEnds, Hasty, Fault
<1>2. PICK n \in Files : desk = <<"approve", n>> \/ desk = <<"retry", n>>
    BY <1>1 DEF HandoffInv, HandoffTypes
<1>3. desk[2] = n /\ (desk[1] = "approve" => desk = <<"approve", n>>) /\ (desk[1] = "retry" => desk = <<"retry", n>>)
    BY <1>2
<1>4. \/ desk[1] = "approve" /\ pending' = pending \ {desk[2]} /\ UNCHANGED <<work, done, awake, mishaps>>
      \/ /\ desk[1] = "retry" /\ Restored(Master, mail[desk[2]].task)
         /\ awake' = IF agent[Master] = "rest" THEN awake \cup {Master} ELSE awake
         /\ Hasty(work[Master] # {}) /\ pending' = pending
      \/ Fault("web") /\ UNCHANGED <<pending, work, done, awake>>
    BY DEF DeskEnds
<1>5. Fault("web") => "web" \in mishaps'
    BY DEF Fault
<1> QED BY <1>1, <1>3, <1>4, <1>5

\* Work that is taken up again was completed.
LEMMA Restores ==
    ASSUME HandoffInv, NEW t, Restored(Master, t)
    PROVE  \E back \in SUBSET Of(t, done[Master]) :
              /\ work' = [work EXCEPT ![Master] = @ \cup back] /\ done' = [done EXCEPT ![Master] = @ \ back]
              /\ back = {} \/ \E k \in Of(t, done[Master]) : back = {k}
              /\ Of(t, work[Master]) = {} /\ Of(t, done[Master]) # {} => back # {}
<1>1. Of(t, done[Master]) \in SUBSET done[Master] /\ done[Master] \in SUBSET Nat
    BY RolesOfPack DEF Of, HandoffInv, HandoffTypes, Files
<1>2. Of(t, done[Master]) # {} => First(Of(t, done[Master])) \in Of(t, done[Master])
    BY <1>1, FirstOfFiles
<1>3. CASE Of(t, work[Master]) # {} \/ Of(t, done[Master]) = {}
    <2>1. /\ work' = [work EXCEPT ![Master] = @ \cup {}] /\ done' = [done EXCEPT ![Master] = @ \ {}]
        BY <1>3 DEF Restored
    <2> WITNESS {} \in SUBSET Of(t, done[Master])
    <2> QED BY <1>3, <2>1
<1>4. CASE ~(Of(t, work[Master]) # {} \/ Of(t, done[Master]) = {})
    <2>1. PICK k \in Of(t, done[Master]) : k = First(Of(t, done[Master]))
        BY <1>2, <1>4
    <2>2. /\ work' = [work EXCEPT ![Master] = @ \cup {k}] /\ done' = [done EXCEPT ![Master] = @ \ {k}]
        BY <1>4, <2>1 DEF Restored
    <2> WITNESS {k} \in SUBSET Of(t, done[Master])
    <2> QED BY <2>1, <2>2
<1> QED BY <1>3, <1>4

\* The boxes hold the same files after it.
LEMMA RequestSameBoxes == ASSUME HandoffInv, DeskEnds PROVE \A r \in Roles : Box(r)' = Box(r)
<1>1. CASE UNCHANGED <<new, work, done>>
    BY <1>1 DEF Box
<1>2. ASSUME NEW t, Restored(Master, t), new' = new PROVE \A r \in Roles : Box(r)' = Box(r)
    <2>1. PICK back \in SUBSET Of(t, done[Master]) :
              work' = [work EXCEPT ![Master] = @ \cup back] /\ done' = [done EXCEPT ![Master] = @ \ back]
        BY <1>2, Restores
    <2>2. back \in SUBSET done[Master]
        BY DEF Of
    <2>3. BoxesSame
        BY <1>2, <2>1, <2>2, TakenUpAgain, RolesOfPack
    <2> QED BY <2>3 DEF BoxesSame, Box
<1> QED BY <1>1, <1>2, RequestEnds

\* The end of a request keeps what is known.
LEMMA DeskEndsKnown == ASSUME HandoffInv, Known, DeskEnds PROVE Known'
<1>1. /\ UNCHANGED <<mail, outbox, failed, stamped, batch, lane, agent, unsent, post>>
      /\ mishaps \subseteq mishaps'
    BY RequestEnds
<1>2. OldMail
    BY <1>1, SameMail
<1>3. \A r \in Roles : Box(r)' = Box(r)
    BY RequestSameBoxes
<1>4. \A n \in Files : Recipient(n)' = Recipient(n) /\ Recipient(n) \in Roles
    BY <1>1, LetterFields DEF Recipient
<1>5. \A n \in Files : n \in Box(Recipient(n)) => n \in Box(Recipient(n))'
    BY <1>3, <1>4
<1>6. Placed'
    BY <1>1, <1>2, <1>3, <1>5, PlacedKept DEF Known, Placed
<1>7. OnTheWay' /\ Owed'
    BY <1>1, <1>2, StillOnTheWay, OwedSame DEF Known
<1> QED BY <1>1, <1>6, <1>7 DEF Known, AgentTypes

\* A deleted task's files are deleted, and nothing else.
LEMMA Deletes ==
    ASSUME HandoffInv, NEW n \in pending, Delete(n)
    PROVE  /\ desk = << >> /\ UNCHANGED <<mail, batch, agent, unsent, awake, refused, post, desk>>
           /\ mishaps \subseteq mishaps' /\ OldMail
           /\ (\E r \in Roles : Of(mail[n].task, work[r]) # {}) => "hasty" \in mishaps'
           /\ \A t \in Tasks : lane'[t] = IF t = mail[n].task THEN "deleted" ELSE lane[t]
           /\ outbox' = {m \in outbox : mail[m].task # mail[n].task}
           /\ pending' = {m \in pending : mail[m].task # mail[n].task}
           /\ stamped' = {m \in stamped : mail[m].task # mail[n].task} /\ failed' \subseteq failed
           /\ \A r \in Roles : /\ new'[r] = {m \in new[r] : mail[m].task # mail[n].task}
                               /\ work'[r] = {m \in work[r] : mail[m].task # mail[n].task}
                               /\ done'[r] = {m \in done[r] : mail[m].task # mail[n].task}
<1> DEFINE t == mail[n].task
           Left(files) == files \ Of(t, files)
<1>1. /\ desk = << >> /\ UNCHANGED <<mail, batch, agent, unsent, awake, refused, post, desk>>
      /\ outbox' = Left(outbox) /\ pending' = Left(pending)
      /\ failed' = Left(failed) /\ stamped' = Left(stamped)
      /\ new' = [r \in Roles |-> Left(new[r])] /\ work' = [r \in Roles |-> Left(work[r])]
      /\ done' = [r \in Roles |-> Left(done[r])]
      /\ lane' = [lane EXCEPT ![t] = "deleted"]
    BY DEF Delete, Agents
<1>2. mishaps \subseteq mishaps' /\ ((\E r \in Roles : Of(t, work[r]) # {}) => "hasty" \in mishaps')
    BY DEF Delete, Hasty
<1>3. \A files : Left(files) = {m \in files : mail[m].task # t}
    BY DEF Of
<1>4. \A u \in Tasks : lane'[u] = IF u = t THEN "deleted" ELSE lane[u]
    BY <1>1 DEF HandoffInv, HandoffTypes
<1>5. OldMail
    BY <1>1, <1>2, <1>4, BoardMoves
<1> HIDE DEF Left
<1>6. /\ outbox' = {m \in outbox : mail[m].task # t} /\ pending' = {m \in pending : mail[m].task # t}
      /\ stamped' = {m \in stamped : mail[m].task # t} /\ failed' \subseteq failed
    BY <1>1, <1>3
<1>7. \A r \in Roles : /\ new'[r] = {m \in new[r] : mail[m].task # t}
                       /\ work'[r] = {m \in work[r] : mail[m].task # t}
                       /\ done'[r] = {m \in done[r] : mail[m].task # t}
    BY <1>1, <1>3
<1> QED BY <1>1, <1>2, <1>4, <1>5, <1>6, <1>7

\* Deleting keeps what is known of the files that are left.
LEMMA DeleteKnown == ASSUME HandoffInv, Known, NEW n \in pending, Delete(n) PROVE Known'
<1>1. n \in Files /\ mail[n].task \in Tasks
    BY LetterFields DEF HandoffInv, HandoffTypes
<1>2. /\ UNCHANGED <<mail, batch, agent, unsent, post>> /\ OldMail
      /\ \A t \in Tasks : lane'[t] = IF t = mail[n].task THEN "deleted" ELSE lane[t]
      /\ outbox' = {m \in outbox : mail[m].task # mail[n].task}
      /\ stamped' \subseteq stamped /\ failed' \subseteq failed
    BY Deletes
<1>3. \A r \in Roles : Box(r)' = {m \in Box(r) : mail[m].task # mail[n].task}
    <2>1. \A r \in Roles : /\ new'[r] = {m \in new[r] : mail[m].task # mail[n].task}
                           /\ work'[r] = {m \in work[r] : mail[m].task # mail[n].task}
                           /\ done'[r] = {m \in done[r] : mail[m].task # mail[n].task}
        BY Deletes
    <2> QED BY <2>1 DEF Box
<1>4. \A m \in Files : m \in Box(Recipient(m)) => Gone(m)' \/ m \in Box(Recipient(m))'
    <2> SUFFICES ASSUME NEW m \in Files, m \in Box(Recipient(m)), mail[m].task # mail[n].task
                 PROVE  m \in Box(Recipient(m))'
        <3>1. \A m \in Files : mail[m].task = mail[n].task => Gone(m)'
            BY <1>1, <1>2 DEF Gone
        <3> QED BY <3>1
    <2>1. Recipient(m)' = Recipient(m) /\ Recipient(m) \in Roles
        BY <1>2, LetterFields DEF Recipient
    <2>2. m \in Box(Recipient(m))'
        BY <1>3, <2>1
    <2> QED BY <2>2
<1>5. Placed' /\ Owed'
    <2>1. \A t \in Tasks : lane'[t] = "none" => lane[t] = "none"
        BY <1>2
    <2>2. Owed'
        BY <1>2, <2>1, OwedSame DEF Known
    <2> QED BY <1>2, <1>3, <1>4, <2>1, <2>2, PlacedKept DEF Known, Placed
<1>6. OnTheWay'
    <2>1. Delivery => mail[post.now].task \in Tasks /\ post.now \in Files
        BY OnDelivery, LetterFields
    <2>2. Delivery /\ mail[post.now].task = mail[n].task => Gone(post.now)'
        BY <1>1, <1>2 DEF Gone
    <2> QED BY <1>2, <2>1, <2>2, StillOnTheWay DEF Known
<1> QED BY <1>2, <1>5, <1>6 DEF Known, AgentTypes

\* A turn that ends leaves nothing on the way.
LEMMA TurnKnown ==
    ASSUME HandoffInv, Known, NEW todo \in SUBSET Files, post' = Turns(todo),
           UNCHANGED <<mail, new, work, done, batch, lane, agent, unsent>>, mishaps \subseteq mishaps',
           stamped' \subseteq stamped,
           \A n \in failed' : n \in failed \/ (n \in Files /\ (Gone(n) \/ n \in Box(Recipient(n))))
    PROVE  Known'
<1>1. OldMail /\ \A n : Gone(n)' <=> Gone(n)
    BY SameMail
<1>2. ~Delivery' /\ post'.at # "tell"
    BY TurnsTyped
<1>3. Placed' /\ Owed'
    BY <1>1, PlacedStill, OwedSame DEF Known, Placed
<1> QED BY <1>2, <1>3, NothingOnTheWay DEF Known, AgentTypes

\* A file that fails was in the outbox.
LEMMA TakeKnown == ASSUME HandoffInv, Known, Take PROVE Known'
<1>1. PICK n \in Files : /\ post.todo \ {n} \in SUBSET Files
                         /\ Skipped(n) \/ HeldBack(n) \/ Refused(n) \/ Started(n)
    BY TakesOne, TakeCases
<1>2. UNCHANGED <<mail, new, work, done, batch, agent, unsent, mishaps>>
    BY TakesOne
<1>3. CASE Skipped(n) \/ HeldBack(n) \/ Refused(n)
    <2>1. post' = Turns(post.todo \ {n}) /\ lane' = lane /\ stamped' \subseteq stamped
        BY <1>3 DEF Skipped, HeldBack, Refused, Fails, LeavesOutbox, Directories
    <2>2. failed' = failed \/ (failed' = failed \cup {n} /\ BoardRefuses(n))
        BY <1>3 DEF Skipped, HeldBack, Refused, Fails, LeavesOutbox, Directories
    <2>3. \A m \in failed' : m \in failed \/ (m \in Files /\ Gone(m))
        BY <2>2 DEF BoardRefuses, Gone
    <2> QED BY <1>1, <1>2, <2>1, <2>3, TurnKnown
<1>4. CASE Started(n)
    <2>1. /\ n \in outbox /\ ~Held(n) /\ ~BoardRefuses(n) /\ lane' = BoardAfter(n)
          /\ UNCHANGED <<outbox, stamped, failed>>
          /\ post' = [at |-> "write", todo |-> post.todo \ {n}, now |-> n, ok |-> n \in stamped, rest |-> mail[n].to]
        BY <1>4 DEF Started, Directories
    <2>2. /\ \A t \in Tasks : /\ lane[t] = "deleted" => lane'[t] = "deleted"
                              /\ lane'[t] = lane[t] \/ lane'[t] \in Roles \cup {"done"}
          /\ mail[n].from = Terminal =>
               \A t \in Tasks : lane'[t] = IF t \in Completes(n) THEN "done" ELSE lane[t]
          /\ mail[n].git /\ ~mail[n].copy /\ mail[n].from # Terminal => lane'[mail[n].task] = Recipient(n)
        BY <2>1, BoardTold DEF Known, Placed
    <2>3. OldMail
        BY <1>2, <2>2, BoardMoves
    <2>4. Placed' /\ Owed'
        BY <1>2, <2>1, <2>2, <2>3, EndsOfPack, PlacedStill, OwedSame DEF Known, Placed
    <2>5. OnTheWay'
        <3>1. post'.at = "write" /\ post'.now = n /\ (post'.ok <=> n \in stamped)
            BY <2>1
        <3>2. mail[n].task \in Tasks /\ mail[n].task \in Completes(n)
            BY <1>1, LetterFields DEF Completes
        <3>3. Delivery' => n \in outbox'
            BY <2>1
        <3>4. post'.ok => mail'[n].from = Master
            BY <1>2, <3>1 DEF Known, Placed
        <3>5. mail'[n] = mail[n] /\ Recipient(n)' = Recipient(n)
            BY <1>1, <2>3 DEF OldMail
        <3>6. mail[n].git /\ ~mail[n].copy => lane'[mail[n].task] = IF mail[n].from = Terminal THEN "done" ELSE Recipient(n)
            BY <2>2, <3>2
        <3>7. \A m : m = post'.now => Gone(m)' \/ m \in outbox'
            BY <3>1, <2>1
        <3>8. \A m : m = post'.now /\ mail'[m].git /\ ~mail'[m].copy =>
                 lane'[mail'[m].task] = IF mail'[m].from = Terminal THEN "done" ELSE Recipient(m)'
            BY <3>1, <3>5, <3>6
        <3>9. (Gone(post.now) \/ post.now \in outbox)'
            BY <3>7
        <3>10. (mail[post.now].git /\ ~mail[post.now].copy =>
                 lane[mail[post.now].task] = IF mail[post.now].from = Terminal THEN "done" ELSE Recipient(post.now))'
            BY <3>8
        <3>11. \A m : m = post'.now /\ mail'[m].from = Master => post'.ok
            <4>1. mail[n].from = Master => n \in stamped
                <5>1. mail[n].git <=> mail[n].from # User
                    BY AddressedFields DEF Known, Placed
                <5>2. Len(mail[n].to) = 1
                    <6>1. mail[n].to = <<Recipient(n)>>
                        BY LetterFields
                    <6> QED BY <6>1
                <5> QED BY <2>1, <5>1, <5>2, EndsOfPack DEF Held
            <4> QED BY <3>1, <3>5, <4>1
        <3>12. ((Delivery \/ post.at = "tell") /\ mail[post.now].from = Master => post.ok)'
            BY <3>11
        <3> QED BY <3>1, <3>4, <3>9, <3>10, <3>12 DEF OnTheWay
    <2> QED BY <1>2, <2>4, <2>5 DEF Known, AgentTypes
<1> QED BY <1>1, <1>3, <1>4

\* The file is written to the inbox of its recipient.
LEMMA Writes ==
    ASSUME HandoffInv, Write
    PROVE  /\ post.at = "write" /\ Delivery /\ post.now \in Files /\ Recipient(post.now) \in Roles
           /\ post' = [post EXCEPT !.at = "wake"] /\ post'.now = post.now /\ post'.ok = post.ok
           /\ post'.at = "wake" /\ post'.todo = post.todo
           /\ UNCHANGED <<mail, outbox, pending, sent, failed, stamped, work, done, batch, lane, agent, unsent,
                          awake, refused, desk, mishaps>>
           /\ new' = [new EXCEPT ![Recipient(post.now)] = @ \cup {post.now}]
           /\ \A r \in Roles : /\ new'[r] = IF r = Recipient(post.now) THEN new[r] \cup {post.now} ELSE new[r]
                               /\ Box(r)' = IF r = Recipient(post.now) THEN Box(r) \cup {post.now} ELSE Box(r)
<1>1. post.at = "write" /\ Delivery
    BY DEF Write, Delivery
<1>2. post.now \in Files /\ Head(post.rest) = Recipient(post.now) /\ Recipient(post.now) \in Roles
    BY <1>1, OnDelivery, LetterFields
<1>3. /\ post' = [post EXCEPT !.at = "wake"]
      /\ UNCHANGED <<mail, outbox, pending, sent, failed, stamped, work, done, batch, lane, agent, unsent,
                     awake, refused, desk, mishaps>>
      /\ new' = [new EXCEPT ![Recipient(post.now)] = @ \cup {post.now}]
    BY <1>2 DEF Write, Directories, Agents
<1>4. post'.now = post.now /\ post'.ok = post.ok /\ post'.at = "wake" /\ post'.todo = post.todo
    BY <1>3 DEF HandoffInv, HandoffTypes, PostTypes
<1>5. \A r \in Roles : new'[r] = IF r = Recipient(post.now) THEN new[r] \cup {post.now} ELSE new[r]
    BY <1>2, <1>3 DEF HandoffInv, HandoffTypes
<1>6. \A r \in Roles : Box(r)' = IF r = Recipient(post.now) THEN Box(r) \cup {post.now} ELSE Box(r)
    BY <1>3, <1>5 DEF Box
<1> QED BY <1>1, <1>2, <1>3, <1>4, <1>5, <1>6

\* It stays on the way.
LEMMA WriteKnown == ASSUME HandoffInv, Known, Write PROVE Known'
<1>1. /\ post.at = "write" /\ Delivery /\ post.now \in Files /\ Recipient(post.now) \in Roles
      /\ post'.now = post.now /\ post'.ok = post.ok /\ post'.at = "wake"
      /\ UNCHANGED <<mail, outbox, failed, stamped, work, done, batch, lane, agent, unsent, mishaps>>
      /\ \A r \in Roles : Box(r)' = IF r = Recipient(post.now) THEN Box(r) \cup {post.now} ELSE Box(r)
    BY Writes
<1>2. OldMail /\ \A n : Gone(n)' <=> Gone(n)
    BY <1>1, SameMail
<1>3. \A n \in Files : n \in Box(Recipient(n)) => n \in Box(Recipient(n))'
    <2>1. \A n \in Files : Recipient(n)' = Recipient(n) /\ Recipient(n) \in Roles
        BY <1>1, LetterFields DEF Recipient
    <2> QED BY <1>1, <2>1
<1>4. Placed'
    BY <1>1, <1>2, <1>3, PlacedKept DEF Known, Placed
<1>5. OnTheWay'
    <2>1. \A n : n = post'.now => (Gone(n) \/ n \in outbox)'
        BY <1>1, <1>2 DEF Known, OnTheWay
    <2>2. (Gone(post.now) \/ post.now \in outbox)'
        BY <2>1
    <2> QED BY <1>1, <2>2 DEF Known, OnTheWay
<1>6. Owed'
    BY <1>1, OwedSame DEF Known
<1> QED BY <1>1, <1>4, <1>5, <1>6 DEF Known, AgentTypes

\* The agent is woken and the file is to be filed next; or it fails.
LEMMA Wakes ==
    ASSUME HandoffInv, Wake
    PROVE  /\ post.at = "wake" /\ Delivery /\ post.now \in Files /\ mishaps \subseteq mishaps'
           /\ UNCHANGED <<mail, pending, sent, new, work, done, batch, lane, agent, unsent, refused, desk>>
           /\ \/ /\ awake' = Woken(Recipient(post.now)) /\ post'.now = post.now /\ post'.ok = post.ok
                 /\ post'.at = "file" /\ post'.todo = post.todo
                 /\ UNCHANGED <<outbox, failed, stamped, mishaps>>
              \/ /\ "deaf" \in mishaps' /\ mishaps' = mishaps \cup {"deaf"} /\ Fails(post.now)
                 /\ post' = Turns(post.todo) /\ awake' = awake
<1>1. /\ post.at = "wake" /\ Delivery
      /\ UNCHANGED <<mail, new, work, done, batch, lane, agent, unsent, refused, desk>>
    BY DEF Wake, Delivery, Inboxes
<1>2. post.now \in Files /\ Head(post.rest) = Recipient(post.now) /\ Len(post.rest) = 1
    BY <1>1, OnDelivery
<1>3. \/ /\ awake' = Woken(Recipient(post.now))
         /\ post' = [post EXCEPT !.rest = Tail(@), !.at = "file"]
         /\ UNCHANGED <<outbox, pending, sent, failed, stamped, mishaps>>
      \/ Fault("deaf") /\ Fails(post.now) /\ post' = Turns(post.todo) /\ UNCHANGED <<pending, sent, awake>>
    BY <1>2 DEF Wake, Directories
<1>4. post' = [post EXCEPT !.rest = Tail(@), !.at = "file"] =>
         post'.now = post.now /\ post'.ok = post.ok /\ post'.at = "file" /\ post'.todo = post.todo
    BY DEF HandoffInv, HandoffTypes, PostTypes
<1>5. Fault("deaf") => mishaps' = mishaps \cup {"deaf"}
    BY DEF Fault
<1> QED BY <1>1, <1>2, <1>3, <1>4, <1>5

\* Either way what is known is kept.
LEMMA WakeKnown == ASSUME HandoffInv, Known, Wake PROVE Known'
<1>1. /\ post.at = "wake" /\ Delivery /\ post.now \in Files /\ mishaps \subseteq mishaps'
      /\ UNCHANGED <<mail, new, work, done, batch, lane, agent, unsent>>
    BY Wakes
<1>2. OldMail /\ \A n : Gone(n)' <=> Gone(n)
    BY <1>1, SameMail
<1>3. CASE /\ post'.now = post.now /\ post'.ok = post.ok /\ post'.at = "file"
           /\ UNCHANGED <<outbox, failed, stamped>>
    <2>1. Placed'
        BY <1>1, <1>2, <1>3, PlacedStill DEF Known, Placed
    <2>2. \A n : n = post'.now => (Gone(n) \/ n \in outbox)'
        BY <1>1, <1>2, <1>3 DEF Known, OnTheWay
    <2>3. (Gone(post.now) \/ post.now \in outbox)'
        BY <2>2
    <2>4. OnTheWay'
        BY <1>1, <1>3, <2>3 DEF Known, OnTheWay
    <2>5. Owed'
        BY <1>1, OwedSame DEF Known
    <2> QED BY <1>1, <2>1, <2>4, <2>5 DEF Known, AgentTypes
<1>4. CASE Fails(post.now) /\ post' = Turns(post.todo)
    <2>1. Gone(post.now) \/ post.now \in Box(Recipient(post.now))
        BY <1>1 DEF HandoffInv, Kept
    <2>2. stamped' \subseteq stamped /\ (failed' = failed \/ failed' = failed \cup {post.now})
        BY <1>4 DEF Fails, LeavesOutbox
    <2>3. post.todo \in SUBSET Files
        BY <1>1, OnDelivery
    <2> QED BY <1>1, <1>4, <2>1, <2>2, <2>3, TurnKnown
<1> QED BY <1>3, <1>4, Wakes

\* A letter is filed, and its sender told, unless it has left the outbox.
LEMMA LeavesForSent ==
    ASSUME HandoffInv, File
    PROVE  /\ post.at = "file" /\ Delivery /\ post.now \in Files /\ post.todo \in SUBSET Files
           /\ UNCHANGED <<mail, pending, failed, new, work, done, batch, lane, agent, unsent, awake, refused,
                          desk, mishaps>>
           /\ \/ /\ post.now \in outbox /\ sent' = sent \cup {post.now} /\ outbox' = outbox \ {post.now}
                 /\ stamped' = stamped \ {post.now}
                 /\ post' = [post EXCEPT !.at = "tell"] /\ post'.at = "tell" /\ post'.now = post.now
                 /\ post'.ok = post.ok /\ post'.todo = post.todo
              \/ /\ post.now \notin outbox /\ post' = Turns(post.todo)
                 /\ UNCHANGED <<outbox, sent, stamped>>
<1>1. post.at = "file" /\ Delivery
    BY DEF File, Delivery
<1>2. [post EXCEPT !.at = "tell"].at = "tell" /\ [post EXCEPT !.at = "tell"].now = post.now
      /\ [post EXCEPT !.at = "tell"].ok = post.ok /\ [post EXCEPT !.at = "tell"].todo = post.todo
    BY DEF HandoffInv, HandoffTypes, PostTypes
<1> QED BY <1>1, <1>2, OnDelivery DEF File, Directories, Inboxes, Agents, LeavesOutbox

\* The sender of a handoff that was approved is woken, unless it is at work or
\* has no mail; or it is not reached.
LEMMA Tells ==
    ASSUME HandoffInv, Tell
    PROVE  /\ post.at = "tell" /\ post.now \in Files /\ post.todo \in SUBSET Files
           /\ post' = Turns(post.todo) /\ ~Delivery /\ ~Delivery' /\ post'.at # "tell"
           /\ UNCHANGED <<mail, outbox, pending, sent, failed, stamped, new, work, done, batch, lane, agent, unsent,
                          refused, desk>>
           /\ mishaps \subseteq mishaps' /\ awake \subseteq awake'
           /\ \/ "deaf" \in mishaps' /\ mishaps' = mishaps \cup {"deaf"} /\ awake' = awake
              \/ /\ mishaps' = mishaps \/ ("hasty" \in mishaps' /\ post.ok /\ post.now \in pending)
                 /\ awake' = awake \/ awake' = Woken(mail[post.now].from)
                 /\ post.ok /\ post.now \in pending => "hasty" \in mishaps'
                 /\ post.ok /\ Unblocked(mail[post.now].from) /\ mail[post.now].from # Recipient(post.now) =>
                       awake' = Woken(mail[post.now].from)
<1>1. /\ post.at = "tell" /\ post' = Turns(post.todo)
      /\ UNCHANGED <<mail, outbox, pending, sent, failed, stamped, new, work, done, batch, lane, agent, unsent,
                     refused, desk>>
    BY DEF Tell, Directories, Inboxes
<1>2. post.now \in Files /\ post.todo \in SUBSET Files
    BY <1>1 DEF HandoffInv, HandoffTypes, PostTypes
<1>3. ~Delivery /\ ~Delivery' /\ post'.at # "tell"
    BY <1>1, <1>2, TurnsTyped DEF Delivery
<1>4. mail[post.now].to = <<Recipient(post.now)>>
    BY <1>2, LetterFields
<1>5. {mail[post.now].to[i] : i \in DOMAIN mail[post.now].to} = {Recipient(post.now)}
    <2>1. DOMAIN mail[post.now].to = {1} /\ mail[post.now].to[1] = Recipient(post.now)
        BY <1>4
    <2> QED BY <2>1
<1>6. \A r : awake \subseteq Woken(r)
    BY DEF Woken
<1> QED BY <1>1, <1>2, <1>3, <1>5, <1>6 DEF Tell, Hasty, Fault

\* The daemon files a letter, tells its sender, lists the outbox, or is killed.
LEMMA DaemonKnown == ASSUME HandoffInv, Known, Poll \/ File \/ Tell \/ KillDaemon PROVE Known'
<1>1. CASE File
    <2>1. /\ post.now \in Files /\ post.todo \in SUBSET Files /\ stamped' \subseteq stamped
          /\ UNCHANGED <<mail, failed, new, work, done, batch, lane, agent, unsent, mishaps>>
        BY <1>1, LeavesForSent
    <2>2. CASE post' = Turns(post.todo)
        BY <2>1, <2>2, TurnKnown
    <2>3. CASE post'.at = "tell" /\ post'.now = post.now /\ post'.ok = post.ok
        <3>1. OldMail
            BY <2>1, SameMail
        <3>2. Placed' /\ Owed'
            BY <2>1, <3>1, PlacedStill, OwedSame DEF Known, Placed
        <3>3. Delivery
            BY <1>1 DEF File, Delivery
        <3>4. OnTheWay'
            BY <2>1, <2>3, <3>3 DEF Known, OnTheWay, Delivery
        <3> QED BY <2>1, <3>2, <3>4 DEF Known, AgentTypes
    <2> QED BY <1>1, <2>2, <2>3, LeavesForSent
<1>4. CASE Tell
    BY <1>4, Tells, TurnKnown
<1>2. CASE KillDaemon
    <2>1. /\ post' = Turns({}) /\ mishaps \subseteq mishaps'
          /\ UNCHANGED <<mail, stamped, failed, new, work, done, batch, lane, agent, unsent>>
        BY <1>2 DEF KillDaemon, Fault, Directories, Inboxes, Agents, Turns
    <2> QED BY <2>1, TurnKnown
<1>3. CASE Poll
    <2>1. /\ post' = [post EXCEPT !.at = "next", !.todo = outbox]
          /\ UNCHANGED <<mail, stamped, failed, new, work, done, batch, lane, agent, unsent, mishaps>>
        BY <1>3 DEF Poll, Directories, Inboxes, Agents
    <2>2. ~Delivery' /\ post'.at # "tell"
        BY <2>1 DEF HandoffInv, HandoffTypes, PostTypes, Delivery
    <2>3. OldMail
        BY <2>1, SameMail
    <2>4. Placed' /\ Owed'
        BY <2>1, <2>3, PlacedStill, OwedSame DEF Known, Placed
    <2> QED BY <2>1, <2>2, <2>4, NothingOnTheWay DEF Known, AgentTypes
<1> QED BY <1>1, <1>2, <1>3, <1>4

\* What the commands of an agent leave alone, and what they do to its inbox.
LEMMA Commands ==
    ASSUME HandoffInv, NEW r \in Roles, ReadyForNext(r) \/ DoneWithCurrent(r) \/ KillAgent(r)
    PROVE  /\ UNCHANGED <<mail, outbox, pending, sent, failed, stamped, lane, post, desk>>
           /\ mishaps \subseteq mishaps' /\ \A q \in Roles : Box(q)' = Box(q)
<1>1. UNCHANGED <<mail, outbox, pending, sent, failed, stamped, lane, post, desk>> /\ mishaps \subseteq mishaps'
    BY DEF ReadyForNext, DoneWithCurrent, KillAgent, Fault, Directories
<1>2. new \in [Roles -> SUBSET Nat] /\ work \in [Roles -> SUBSET Nat]
    BY DEF HandoffInv, HandoffTypes, Files
<1>3. CASE UNCHANGED <<new, work, done>>
    BY <1>1, <1>3 DEF Box
<1>4. ASSUME NEW files \in SUBSET new[r], Dequeues(r, files) PROVE \A q \in Roles : Box(q)' = Box(q)
    <2>1. BoxesSame
        BY <1>4, Dequeued DEF Dequeues
    <2> QED BY <2>1 DEF BoxesSame, Box
<1>5. ASSUME NEW files \in SUBSET work[r], Completed(r, files), new' = new PROVE \A q \in Roles : Box(q)' = Box(q)
    <2>1. BoxesSame
        BY <1>5, WorkDone DEF Completed
    <2> QED BY <2>1 DEF BoxesSame, Box
<1>6. \A files \in Firsts(Taken(r)) : files \in SUBSET Taken(r)
    BY DEF Firsts
<1>7. \A files \in Firsts(work[r]) \cup {work[r]} : files \in SUBSET work[r]
    BY DEF Firsts
<1>8. /\ new[r] # {} \/ r \in BatchRoles => Taken(r) \in SUBSET new[r]
    BY <1>2, FirstOfFiles DEF Taken
<1>9. \/ UNCHANGED <<new, work, done>>
      \/ \E files \in SUBSET new[r] : Dequeues(r, files)
      \/ \E files \in SUBSET work[r] : Completed(r, files) /\ new' = new
    <2>1. CASE ReadyForNext(r)
        BY <1>6, <1>8, <2>1 DEF ReadyForNext, Refuses, Inboxes
    <2>2. CASE DoneWithCurrent(r)
        BY <1>7, <2>2 DEF DoneWithCurrent, Refuses, Inboxes
    <2>3. CASE KillAgent(r)
        BY <2>3 DEF KillAgent, Inboxes
    <2> QED BY <2>1, <2>2, <2>3
<1> QED BY <1>1, <1>3, <1>4, <1>5, <1>9

\* They keep what is known.
LEMMA AgentKnown ==
    ASSUME HandoffInv, CopyInv, Known, NEW r \in Roles, ReadyForNext(r) \/ DoneWithCurrent(r) \/ KillAgent(r)
    PROVE  Known'
<1>1. /\ UNCHANGED <<mail, outbox, failed, stamped, lane, post>> /\ mishaps \subseteq mishaps'
      /\ \A q \in Roles : Box(q)' = Box(q)
    BY Commands
<1>2. OldMail
    BY <1>1, SameMail
<1>3. \A n \in Files : n \in Box(Recipient(n)) => n \in Box(Recipient(n))'
    <2>1. \A n \in Files : Recipient(n)' = Recipient(n) /\ Recipient(n) \in Roles
        BY <1>1, LetterFields DEF Recipient
    <2> QED BY <1>1, <2>1
<1>4. Placed'
    BY <1>1, <1>2, <1>3, PlacedKept DEF Known, Placed
<1>5. OnTheWay'
    BY <1>1, <1>2, StillOnTheWay DEF Known
<1>6. AgentTypes'
    <2>1. /\ agent' = agent \/ \E a \in {"rest", "work"} : agent' = [agent EXCEPT ![r] = a]
          /\ \/ batch' = batch
             \/ r \in BatchRoles /\ \E b \in {"open", "archiving"} : batch' = [batch EXCEPT ![r] = b]
             \/ batch' = [batch EXCEPT ![r] = "none"]
        <3>1. CASE ReadyForNext(r)
            BY <3>1 DEF ReadyForNext, Refuses, Works, Dequeues, Inboxes, Agents
        <3>2. CASE DoneWithCurrent(r)
            BY <3>2 DEF DoneWithCurrent, Refuses, Inboxes
        <3>3. CASE KillAgent(r)
            BY <3>3 DEF KillAgent, Inboxes
        <3> QED BY <3>1, <3>2, <3>3
    <2>2. agent' \in [Roles -> {"rest", "work", "queued"}]
        BY <2>1 DEF Known, AgentTypes
    <2>3. batch' \in [Roles -> {"none", "open", "archiving"}] /\ \A q \in Roles \ BatchRoles : batch'[q] = "none"
        BY <2>1 DEF Known, AgentTypes
    <2> QED BY <2>2, <2>3 DEF AgentTypes
<1>7. Owed'
    <2>1. CASE unsent' = unsent
        BY <1>1, <2>1, OwedSame DEF Known
    <2>2. CASE unsent' = [unsent EXCEPT ![r] = << >>]
        <3>1. DOMAIN unsent'[r] = {} /\ \A q \in Roles : q # r => unsent'[q] = unsent[q]
            BY <2>2 DEF CopyInv
        <3> QED BY <1>1, <3>1, OwedKept DEF Known
    <2> QED BY <2>1, <2>2 DEF ReadyForNext, DoneWithCurrent, KillAgent
<1> QED BY <1>4, <1>5, <1>6, <1>7 DEF Known

\* Every step keeps what is known.
LEMMA KnownKept == ASSUME HandoffInv, CopyInv, Known, HandoffStep PROVE Known'
<1>1. CASE \E t \in Tasks : CreateTask(t)
    BY <1>1, CreateKnown
<1>2. CASE \E n \in pending : Approve(n) \/ Retry(n) \/ Delete(n)
    BY <1>2, RequestKnown, DeleteKnown
<1>3. CASE DeskEnds
    BY <1>3, DeskEndsKnown
<1>4. CASE Daemon \/ KillDaemon
    BY <1>4, TakeKnown, WriteKnown, WakeKnown, DaemonKnown DEF Daemon
<1>5. CASE \E r \in Roles : ReadyForNext(r) \/ Submit(r) \/ SendCopy(r) \/ DoneWithCurrent(r) \/ KillAgent(r)
    BY <1>5, AgentKnown, SubmitKnown, SendCopyKnown
<1> QED BY <1>1, <1>2, <1>3, <1>4, <1>5 DEF HandoffStep

\* Nothing is known to be anywhere at the start.
LEMMA KnownInitially == HandoffInit => WakeInv
<1> SUFFICES ASSUME HandoffInit PROVE WakeInv
    OBVIOUS
<1>1. mail = << >> /\ Files = {} /\ post.at = "idle" /\ outbox = {} /\ stamped = {} /\ failed = {}
    BY DEF HandoffInit, Files, Idle
<1>2. \A r \in Roles : /\ new[r] = {} /\ work[r] = {} /\ done[r] = {} /\ Box(r) = {}
                       /\ batch[r] = "none" /\ agent[r] = "rest"
    BY DEF HandoffInit, Box
<1>3. AgentTypes
    BY DEF HandoffInit, AgentTypes
<1>4. Placed /\ OnTheWay /\ Owed
    <2>1. \A r \in Roles : DOMAIN unsent[r] = {}
        BY DEF HandoffInit
    <2> QED BY <1>1, <1>2, <2>1 DEF Placed, OnTheWay, Delivery, Owed
<1>5. Whole
    BY <1>2 DEF Whole
<1>6. MasterTold
    BY <1>1, <1>2, RolesOfPack DEF MasterTold
<1> QED BY <1>1, <1>2, <1>3, <1>4, <1>5, <1>6 DEF WakeInv, Known, WorkSeen, MailSeen, HeldUnread

-----------------------------------------------------------------------------
(* What a role has in process can be completed. *)

\* What an agent's command does: it is refused, goes on with the work there
\* is, finds none, takes some, or is killed half-way.
ToldToWait(r) ==
    /\ Ambiguous(r) \/ (work[r] = {} /\ Outbound(r) # {})
    /\ agent' = [agent EXCEPT ![r] = "rest"] /\ awake' = awake \ {r} /\ refused' = refused \cup {r}
    /\ UNCHANGED <<new, work, done, batch, mishaps>>
GoesOn(r) == ~Ambiguous(r) /\ work[r] # {} /\ Works(r) /\ UNCHANGED <<new, work, done, batch, mishaps>>
FindsNone(r) ==
    /\ work[r] = {} /\ new[r] = {} /\ awake' = awake \ {r} /\ refused' = refused \ {r}
    /\ UNCHANGED <<agent, new, work, done, batch, mishaps>>
TakesWork(r) ==
    /\ ~Ambiguous(r) /\ work[r] = {} /\ Outbound(r) = {} /\ new[r] # {}
    /\ Dequeues(r, Taken(r)) /\ Works(r) /\ UNCHANGED mishaps
CutShort(r) ==
    /\ r \in BatchRoles /\ work[r] = {} /\ mishaps' = mishaps \cup {r} /\ UNCHANGED <<agent, awake, refused>>
    /\ \E files \in SUBSET new[r] : Dequeues(r, files)

\* How ready_for_next ends, and done_with_current.
LEMMA ReadyCases ==
    ASSUME NEW r \in Roles, ReadyForNext(r)
    PROVE  /\ agent[r] = "rest" /\ r \in awake
           /\ ToldToWait(r) \/ GoesOn(r) \/ FindsNone(r) \/ TakesWork(r) \/ CutShort(r)
<1>1. agent[r] = "rest" /\ r \in awake
    BY DEF ReadyForNext
<1>2. CASE Ambiguous(r) /\ Refuses(r) /\ UNCHANGED mishaps
    BY <1>1, <1>2 DEF Refuses, Inboxes, ToldToWait
<1>3. CASE ~Ambiguous(r) /\ work[r] # {} /\ Works(r) /\ UNCHANGED <<Inboxes, mishaps>>
    BY <1>1, <1>3 DEF Inboxes, GoesOn
<1>4. CASE ~Ambiguous(r) /\ work[r] = {} /\ Outbound(r) # {} /\ Refuses(r) /\ UNCHANGED mishaps
    BY <1>1, <1>4 DEF Refuses, Inboxes, ToldToWait
<1>5. CASE /\ work[r] = {} /\ new[r] = {} /\ awake' = awake \ {r} /\ refused' = refused \ {r}
           /\ UNCHANGED <<agent, Inboxes, mishaps>>
    BY <1>1, <1>5 DEF Inboxes, FindsNone
<1>6. CASE /\ ~Ambiguous(r) /\ work[r] = {} /\ Outbound(r) = {} /\ new[r] # {}
           /\ Dequeues(r, Taken(r)) /\ Works(r) /\ UNCHANGED mishaps
    BY <1>1, <1>6 DEF TakesWork
<1>7. CASE /\ work[r] = {} /\ r \in BatchRoles /\ Fault(r) /\ UNCHANGED <<agent, awake, refused>>
           /\ \E files \in Firsts(Taken(r)) : Dequeues(r, files)
    <2>1. \A files \in Firsts(Taken(r)) : files \in SUBSET new[r]
        BY <1>7 DEF Firsts, Taken
    <2> QED BY <1>1, <1>7, <2>1 DEF Fault, CutShort
<1> QED BY <1>1, <1>2, <1>3, <1>4, <1>5, <1>6, <1>7 DEF ReadyForNext

\* The end of its work: refused, completed, or cut short.
NotDone(r) ==
    /\ work[r] = {} \/ Ambiguous(r) \/ batch[r] = "archiving"
    /\ agent' = [agent EXCEPT ![r] = "rest"] /\ awake' = awake \ {r} /\ refused' = refused \cup {r}
    /\ UNCHANGED <<new, work, done, batch, mishaps>>
AllDone(r) ==
    /\ ~Ambiguous(r) /\ work[r] # {} /\ Completed(r, work[r]) /\ batch' = [batch EXCEPT ![r] = "none"]
    /\ agent' = [agent EXCEPT ![r] = "rest"]
    /\ awake' = IF new[r] # {} THEN awake \cup {r} ELSE awake \ {r}
    /\ refused' = refused \ {r} /\ UNCHANGED <<new, mishaps>>
PartlyDone(r) ==
    /\ r \in BatchRoles /\ mishaps' = mishaps \cup {r} /\ UNCHANGED <<new, refused>>
    /\ \E files \in SUBSET work[r] : Completed(r, files)
    /\ \E b : batch' = [batch EXCEPT ![r] = b]
    /\ agent' = [agent EXCEPT ![r] = "rest"] /\ awake' = awake \cup {r}

\* An agent completes its work, is refused, or is killed half-way.
LEMMA DoneCases ==
    ASSUME NEW r \in Roles, DoneWithCurrent(r)
    PROVE  /\ agent[r] = "queued" \/ (agent[r] = "work" /\ ~MaySend(r))
           /\ NotDone(r) \/ AllDone(r) \/ PartlyDone(r)
<1>1. agent[r] = "queued" \/ (agent[r] = "work" /\ ~MaySend(r))
    BY DEF DoneWithCurrent
<1>2. CASE /\ work[r] = {} \/ Ambiguous(r) \/ batch[r] = "archiving"
           /\ Refuses(r) /\ UNCHANGED mishaps
    BY <1>1, <1>2 DEF Refuses, Inboxes, NotDone
<1>3. CASE /\ work[r] # {} /\ ~Ambiguous(r) /\ Completed(r, work[r]) /\ batch' = [batch EXCEPT ![r] = "none"]
           /\ agent' = [agent EXCEPT ![r] = "rest"]
           /\ awake' = IF new[r] # {} THEN awake \cup {r} ELSE awake \ {r}
           /\ refused' = refused \ {r} /\ UNCHANGED mishaps /\ UNCHANGED new
    BY <1>1, <1>3 DEF AllDone
<1>4. CASE /\ r \in BatchRoles /\ Fault(r) /\ UNCHANGED refused /\ UNCHANGED new
           /\ \E files \in Firsts(work[r]) \cup {work[r]} : Completed(r, files)
           /\ batch' = [batch EXCEPT ![r] = "archiving"]
           /\ agent' = [agent EXCEPT ![r] = "rest"] /\ awake' = awake \cup {r}
    <2>1. \A files \in Firsts(work[r]) \cup {work[r]} : files \in SUBSET work[r]
        BY DEF Firsts
    <2> QED BY <1>1, <1>4, <2>1 DEF Fault, PartlyDone
<1> QED BY <1>1, <1>2, <1>3, <1>4 DEF DoneWithCurrent

\* Only the work of one role changes.
LEMMA WholeElsewhere ==
    ASSUME HandoffInv, Whole, NEW r \in Roles, mishaps \subseteq mishaps',
           \A q \in Roles \ {r} : work'[q] = work[q] /\ batch'[q] = batch[q],
           {r, "hasty"} \cap mishaps' = {} =>
               IF r \in BatchRoles THEN batch'[r] # "archiving" /\ (batch'[r] # "none" => work'[r] # {})
               ELSE \E n \in Nat : work'[r] \subseteq {n}
    PROVE  Whole'
<1> SUFFICES ASSUME NEW q \in Roles, {q, "hasty"} \cap mishaps' = {}
             PROVE  IF q \in BatchRoles THEN batch'[q] # "archiving" /\ (batch'[q] # "none" => work'[q] # {})
                    ELSE \E n \in Nat : work'[q] \subseteq {n}
    BY DEF Whole
<1>1. CASE q = r
    BY <1>1
<1>2. CASE q # r
    <2>1. {q, "hasty"} \cap mishaps = {}
        OBVIOUS
    <2> QED BY <1>2, <2>1 DEF Whole
<1> QED BY <1>1, <1>2

\* None does.
LEMMA WholeStill ==
    ASSUME HandoffInv, Whole, UNCHANGED <<work, batch>>, mishaps \subseteq mishaps'
    PROVE  Whole'
BY DEF Whole

\* The dashboard's requests: what would meet other work is hasty.
LEMMA DeskWhole == ASSUME HandoffInv, Known, Whole, DeskEnds PROVE Whole'
<1>1. mishaps \subseteq mishaps' /\ batch' = batch
    BY RequestEnds
<1>2. CASE UNCHANGED work
    BY <1>1, <1>2, WholeStill
<1>3. ASSUME NEW t, Restored(Master, t), Hasty(work[Master] # {}) PROVE Whole'
    <2>1. PICK back \in SUBSET Of(t, done[Master]) :
              /\ work' = [work EXCEPT ![Master] = @ \cup back]
              /\ back = {} \/ \E k \in Of(t, done[Master]) : back = {k}
        BY <1>3, Restores
    <2>2. Master \in Roles /\ Master \notin BatchRoles
        BY EndsOfPack
    <2>3. done[Master] \in SUBSET Nat /\ DOMAIN work = Roles
        BY <2>2 DEF HandoffInv, HandoffTypes, Files
    <2>4. \A q \in Roles \ {Master} : work'[q] = work[q] /\ batch'[q] = batch[q]
        BY <1>1, <2>1
    <2>5. "hasty" \notin mishaps' => work[Master] = {}
        BY <1>3 DEF Hasty
    <2>6. \E n \in Nat : back \subseteq {n}
        <3>1. Of(t, done[Master]) \subseteq Nat
            BY <2>3 DEF Of
        <3>2. CASE back = {}
            BY <3>2
        <3>3. CASE \E k \in Of(t, done[Master]) : back = {k}
            BY <3>1, <3>3
        <3> QED BY <2>1, <3>2, <3>3
    <2>7. "hasty" \notin mishaps' => \E n \in Nat : work'[Master] \subseteq {n}
        <3>1. work'[Master] = work[Master] \cup back
            BY <2>1, <2>2, <2>3
        <3> QED BY <2>5, <2>6, <3>1
    <2> QED BY <1>1, <2>2, <2>4, <2>7, WholeElsewhere
<1> QED BY <1>2, <1>3, RequestEnds

\* A deletion that takes work away is hasty.
LEMMA DeleteWhole == ASSUME HandoffInv, Whole, NEW n \in pending, Delete(n) PROVE Whole'
<1>1. /\ batch' = batch /\ mishaps \subseteq mishaps'
      /\ (\E r \in Roles : Of(mail[n].task, work[r]) # {}) => "hasty" \in mishaps'
      /\ \A r \in Roles : work'[r] = {m \in work[r] : mail[m].task # mail[n].task}
    BY Deletes
<1>2. "hasty" \notin mishaps' => \A r \in Roles : work'[r] = work[r]
    BY <1>1 DEF Of
<1> QED BY <1>1, <1>2 DEF Whole

\* A command takes one task or the whole batch, unless it is killed.
LEMMA ReadyWhole == ASSUME HandoffInv, Known, Whole, NEW r \in Roles, ReadyForNext(r) PROVE Whole'
<1>2. CASE ToldToWait(r) \/ GoesOn(r) \/ FindsNone(r)
    BY <1>2, WholeStill DEF ToldToWait, GoesOn, FindsNone
<1>3. ASSUME NEW files, Dequeues(r, files) PROVE \A q \in Roles \ {r} : work'[q] = work[q] /\ batch'[q] = batch[q]
    BY <1>3 DEF Dequeues, HandoffInv, HandoffTypes
<1>4. CASE TakesWork(r)
    <2>1. /\ work[r] = {} /\ new[r] # {} /\ Dequeues(r, Taken(r)) /\ mishaps' = mishaps
        BY <1>4 DEF TakesWork
    <2>2. work'[r] = Taken(r)
        BY <2>1 DEF Dequeues, HandoffInv, HandoffTypes
    <2>3. r \notin BatchRoles => \E n \in Nat : work'[r] \subseteq {n}
        <3>1. First(new[r]) \in Nat
            BY <2>1, FirstOfFiles DEF HandoffInv, HandoffTypes, Files
        <3> QED BY <2>2, <3>1 DEF Taken
    <2>4. r \in BatchRoles => work'[r] # {} /\ batch' = [batch EXCEPT ![r] = "open"]
        <3>1. First(new[r]) \in new[r]
            BY <2>1, FirstOfFiles DEF HandoffInv, HandoffTypes, Files
        <3> QED BY <2>1, <2>2, <3>1 DEF Taken, Dequeues
    <2>5. r \in BatchRoles => batch'[r] # "archiving"
        BY <2>4 DEF Known, AgentTypes
    <2> QED BY <1>3, <2>1, <2>3, <2>4, <2>5, WholeElsewhere
<1>5. CASE CutShort(r)
    <2>1. r \in mishaps' /\ mishaps \subseteq mishaps' /\ \E files : Dequeues(r, files)
        BY <1>5 DEF CutShort
    <2> QED BY <1>3, <2>1, WholeElsewhere
<1> QED BY <1>2, <1>4, <1>5, ReadyCases

\* Completing leaves nothing in process, or is cut short and so a mishap of the role.
LEMMA DoneWhole == ASSUME HandoffInv, Known, Whole, NEW r \in Roles, DoneWithCurrent(r) PROVE Whole'
<1>1. /\ DOMAIN work = Roles /\ DOMAIN batch = Roles
    BY DEF HandoffInv, HandoffTypes, Known, AgentTypes
<1>2. CASE NotDone(r)
    BY <1>2, WholeStill DEF NotDone
<1>3. ASSUME NEW files, Completed(r, files), NEW b, batch' = [batch EXCEPT ![r] = b]
      PROVE  /\ \A q \in Roles \ {r} : work'[q] = work[q] /\ batch'[q] = batch[q]
             /\ work'[r] = work[r] \ files /\ batch'[r] = b
    BY <1>1, <1>3 DEF Completed
<1>4. CASE AllDone(r)
    <2>1. Completed(r, work[r]) /\ batch' = [batch EXCEPT ![r] = "none"] /\ mishaps' = mishaps
        BY <1>4 DEF AllDone
    <2>2. \A q \in Roles \ {r} : work'[q] = work[q] /\ batch'[q] = batch[q]
        BY <1>3, <2>1
    <2>3. work'[r] = work[r] \ work[r] /\ batch'[r] = "none"
        BY <1>3, <2>1
    <2>4. 0 \in Nat /\ work'[r] \subseteq {0}
        BY <2>3
    <2> QED BY <2>1, <2>2, <2>3, <2>4, WholeElsewhere
<1>5. CASE PartlyDone(r)
    <2>1. r \in mishaps' /\ mishaps \subseteq mishaps' /\ (\E files : Completed(r, files)) /\ \E b : batch' = [batch EXCEPT ![r] = b]
        BY <1>5 DEF PartlyDone
    <2> QED BY <1>3, <2>1, WholeElsewhere
<1> QED BY <1>2, <1>4, <1>5, DoneCases

\* Every step keeps the work of the roles whole.
LEMMA WholeKept == ASSUME HandoffInv, Known, Whole, HandoffStep PROVE Whole'
<1>1. CASE \E t \in Tasks : CreateTask(t)
    <2>1. UNCHANGED <<work, batch>> /\ mishaps \subseteq mishaps'
        BY <1>1 DEF CreateTask, Inboxes, Fault
    <2> QED BY <2>1, WholeStill
<1>2. CASE \E n \in pending : Approve(n) \/ Retry(n)
    <2>1. UNCHANGED <<work, batch>> /\ mishaps \subseteq mishaps'
        BY <1>2 DEF Approve, Retry, Inboxes, Hasty
    <2> QED BY <2>1, WholeStill
<1>3. CASE \E n \in pending : Delete(n)
    BY <1>3, DeleteWhole
<1>4. CASE DeskEnds
    BY <1>4, DeskWhole
<1>5. CASE Daemon \/ KillDaemon
    <2>1. UNCHANGED <<work, batch>> /\ mishaps \subseteq mishaps'
        BY <1>5, Writes, Wakes, TakesOne, LeavesForSent, Tells DEF Daemon, Poll, KillDaemon, Fault, Inboxes
    <2> QED BY <2>1, WholeStill
<1>6. CASE \E r \in Roles : Submit(r) \/ SendCopy(r) \/ KillAgent(r)
    <2>1. UNCHANGED <<work, batch>> /\ mishaps \subseteq mishaps'
        BY <1>6 DEF Submit, SendCopy, KillAgent, Fault, Inboxes
    <2> QED BY <2>1, WholeStill
<1>7. CASE \E r \in Roles : ReadyForNext(r) \/ DoneWithCurrent(r)
    BY <1>7, ReadyWhole, DoneWhole
<1> QED BY <1>1, <1>2, <1>3, <1>4, <1>5, <1>6, <1>7 DEF HandoffStep

\* And so it can be read and completed.
LEMMA WholeMeansWorkable == ASSUME HandoffInv, Known, Whole PROVE Workable
<1> SUFFICES ASSUME NEW r \in Roles, {r, "hasty"} \cap mishaps = {} PROVE ~Ambiguous(r) /\ batch[r] # "archiving"
    BY DEF Workable
<1>1. CASE r \in BatchRoles
    BY <1>1 DEF Whole, Ambiguous
<1>2. CASE r \notin BatchRoles
    <2>1. PICK n \in Nat : work[r] \subseteq {n}
        BY <1>2 DEF Whole
    <2>2. work[r] = {} \/ work[r] = {n}
        BY <2>1
    <2>3. work[r] = {} => Cardinality(work[r]) = 0
        BY FS_EmptySet
    <2>4. work[r] = {n} => Cardinality(work[r]) = 1
        BY FS_Singleton
    <2>5. ~Ambiguous(r)
        BY <1>2, <2>2, <2>3, <2>4 DEF Ambiguous
    <2> QED BY <1>2, <2>5 DEF Known, AgentTypes
<1> QED BY <1>1, <1>2

-----------------------------------------------------------------------------
(* An idle agent knows of its work. *)

\* It still has the work it knew of, or has been told of it.
LEMMA SeenStill ==
    ASSUME WorkSeen,
           \A r \in Roles : agent'[r] = "rest" /\ work'[r] # {} =>
               Aware(r)' \/ (agent[r] = "rest" /\ work[r] # {} /\ (Aware(r) => Aware(r)'))
    PROVE  WorkSeen'
BY DEF WorkSeen

\* Nothing about it changed.
LEMMA SeenUnchanged ==
    ASSUME WorkSeen, UNCHANGED <<agent, refused>>, awake \subseteq awake',
           \A r \in Roles : work'[r] \subseteq work[r]
    PROVE  WorkSeen'
<1>1. \A r \in Roles : agent'[r] = agent[r] /\ (Aware(r) => Aware(r)') /\ (work'[r] # {} => work[r] # {})
    BY DEF Aware
<1> QED BY <1>1, SeenStill

\* The agent that hands on is not at rest.
LEMMA SubmitSeen == ASSUME HandoffInv, Known, WorkSeen, NEW r \in Roles, Submit(r) PROVE WorkSeen'
<1>1. agent' = [agent EXCEPT ![r] = "queued"] /\ UNCHANGED <<work, awake, refused>>
    BY SubmitsLetter
<1>2. \A q \in Roles : agent'[q] = "rest" => agent[q] = "rest"
    BY <1>1 DEF Known, AgentTypes
<1> QED BY <1>1, <1>2, SeenStill DEF Aware

\* The dashboard tells the master of the work it puts back.
LEMMA DeskSeen == ASSUME HandoffInv, WorkSeen, DeskEnds PROVE WorkSeen'
<1>1. UNCHANGED <<agent, refused>>
    BY RequestEnds
<1>2. CASE UNCHANGED <<work, awake>>
    BY <1>1, <1>2, SeenUnchanged
<1>3. ASSUME NEW t, Restored(Master, t), awake' = IF agent[Master] = "rest" THEN awake \cup {Master} ELSE awake
      PROVE  WorkSeen'
    <2>1. PICK back \in SUBSET Of(t, done[Master]) : work' = [work EXCEPT ![Master] = @ \cup back]
        BY <1>3, Restores
    <2>2. \A r \in Roles : r # Master => work'[r] = work[r]
        BY <2>1 DEF HandoffInv, HandoffTypes
    <2>3. \A r \in Roles : agent'[r] = agent[r] /\ (Aware(r) => Aware(r)')
        BY <1>1, <1>3 DEF Aware
    <2>4. agent'[Master] = "rest" => Aware(Master)'
        BY <1>1, <1>3 DEF Aware
    <2> QED BY <2>2, <2>3, <2>4, SeenStill
<1> QED BY <1>2, <1>3, RequestEnds

\* An agent that is not let go on has been told so.
LEMMA ReadySeen == ASSUME HandoffInv, Known, WorkSeen, NEW r \in Roles, ReadyForNext(r) PROVE WorkSeen'
<1>1. agent[r] = "rest" /\ r \in awake
    BY ReadyCases
<1>2. DOMAIN agent = Roles /\ DOMAIN work = Roles
    BY DEF Known, AgentTypes, HandoffInv, HandoffTypes
<1>3. \A q \in Roles \ {r} : agent'[q] = agent[q] /\ work'[q] = work[q] /\ (Aware(q) => Aware(q)')
    BY <1>2, ReadyCases DEF ToldToWait, GoesOn, FindsNone, TakesWork, CutShort, Works, Dequeues, Aware
<1>4. agent'[r] = "rest" /\ work'[r] # {} => Aware(r)'
    <2>1. CASE ToldToWait(r)
        BY <2>1 DEF ToldToWait, Aware
    <2>2. CASE GoesOn(r) \/ TakesWork(r)
        BY <1>2, <2>2 DEF GoesOn, TakesWork, Works
    <2>3. CASE FindsNone(r)
        BY <2>3 DEF FindsNone
    <2>4. CASE CutShort(r)
        BY <1>1, <2>4 DEF CutShort, Aware
    <2> QED BY <2>1, <2>2, <2>3, <2>4, ReadyCases
<1> QED BY <1>3, <1>4, SeenStill

\* An agent that completes has nothing left in process; one that restarts is woken.
LEMMA DoneSeen == ASSUME HandoffInv, Known, WorkSeen, NEW r \in Roles, DoneWithCurrent(r) \/ KillAgent(r) PROVE WorkSeen'
<1>1. DOMAIN agent = Roles /\ DOMAIN work = Roles
    BY DEF Known, AgentTypes, HandoffInv, HandoffTypes
<1>2. \A q \in Roles \ {r} : agent'[q] = agent[q] /\ work'[q] = work[q] /\ (Aware(q) => Aware(q)')
    <2>1. CASE DoneWithCurrent(r)
        BY <1>1, <2>1, DoneCases DEF NotDone, AllDone, PartlyDone, Completed, Aware
    <2>2. CASE KillAgent(r)
        BY <1>1, <2>2 DEF KillAgent, Inboxes, Aware
    <2> QED BY <2>1, <2>2
<1>3. work'[r] # {} => Aware(r)'
    <2>1. CASE NotDone(r) \/ PartlyDone(r)
        BY <2>1 DEF NotDone, PartlyDone, Aware
    <2>2. CASE AllDone(r)
        BY <1>1, <2>2 DEF AllDone, Completed
    <2>3. CASE KillAgent(r)
        BY <2>3 DEF KillAgent, Aware
    <2> QED BY <2>1, <2>2, <2>3, DoneCases
<1> QED BY <1>2, <1>3, SeenStill

\* Every step keeps the agents aware of their work.
LEMMA SeenKept == ASSUME HandoffInv, Known, WorkSeen, HandoffStep PROVE WorkSeen'
<1>1. CASE (\E t \in Tasks : CreateTask(t)) \/ (\E r \in Roles : SendCopy(r))
            \/ (\E n \in pending : Approve(n) \/ Retry(n)) \/ Poll \/ KillDaemon
    <2>1. UNCHANGED <<agent, refused, awake, work>>
        BY <1>1 DEF CreateTask, SendCopy, Approve, Retry, Poll, KillDaemon, Inboxes, Agents
    <2> QED BY <2>1, SeenUnchanged
<1>2. ASSUME NEW n \in pending, Delete(n) PROVE WorkSeen'
    <2>1. UNCHANGED <<agent, refused, awake>> /\ \A r \in Roles : work'[r] = {m \in work[r] : mail[m].task # mail[n].task}
        BY <1>2, Deletes
    <2> QED BY <2>1, SeenUnchanged
<1>3. CASE DeskEnds
    BY <1>3, DeskSeen
<1>4. CASE Take \/ Write \/ Wake \/ File \/ Tell
    <2>1. UNCHANGED <<agent, refused, work>> /\ awake \subseteq awake'
        BY <1>4, TakesOne, Writes, Wakes, LeavesForSent, Tells DEF Woken
    <2> QED BY <2>1, SeenUnchanged
<1>5. CASE \E r \in Roles : ReadyForNext(r) \/ Submit(r) \/ DoneWithCurrent(r) \/ KillAgent(r)
    BY <1>5, ReadySeen, SubmitSeen, DoneSeen
<1> QED BY <1>1, <1>2, <1>3, <1>4, <1>5 DEF HandoffStep, Daemon

-----------------------------------------------------------------------------
(* What is held back was not delivered. *)

\* No letter is held that was not, and none is delivered.
LEMMA HeldStill ==
    ASSUME HandoffInv, HeldUnread, OldMail,
           \A n \in outbox' : n \in outbox \/ n \in stamped'
                                \/ (n \notin Files /\ (mail'[n].git => Unread(n)' /\ ~(Delivery /\ post.now = n)')),
           \A n \in outbox' : n \in stamped => n \in stamped',
           \A n \in outbox : Held(n) => Unread(n)' /\ ~(Delivery /\ post.now = n)'
    PROVE  HeldUnread'
<1> SUFFICES ASSUME NEW n \in outbox', Held(n)' PROVE Unread(n)' /\ ~(Delivery /\ post.now = n)'
    BY DEF HeldUnread
<1>1. mail'[n].git /\ n \notin stamped'
    BY DEF Held
<1>2. CASE n \in outbox
    <2>1. n \in Files /\ mail'[n] = mail[n]
        BY <1>2 DEF HandoffInv, HandoffTypes, OldMail
    <2>2. Held(n)
        BY <1>1, <1>2, <2>1 DEF Held
    <2> QED BY <1>2, <2>2
<1> QED BY <1>1, <1>2

\* The files stay where they are, and the daemon delivers what it did or
\* nothing.
LEMMA HeldUnchanged ==
    ASSUME HandoffInv, HeldUnread, OldMail, outbox' \subseteq outbox,
           \A r \in Roles : Box(r)' \subseteq Box(r), \A n \in outbox' : n \in stamped => n \in stamped',
           Delivery' => Delivery /\ post'.now = post.now
    PROVE  HeldUnread'
<1>1. \A n : Unread(n) => Unread(n)'
    BY DEF Unread
<1>2. \A n \in outbox : ~(Delivery /\ post.now = n) => ~(Delivery /\ post.now = n)'
    OBVIOUS
<1>3. \A n \in outbox : Held(n) => Unread(n)' /\ ~(Delivery /\ post.now = n)'
    BY <1>1, <1>2 DEF HeldUnread
<1> QED BY <1>3, HeldStill

\* A new letter is in no inbox.
LEMMA PostedHeld ==
    ASSUME HandoffInv, HeldUnread, NEW l \in Letters, mail' = Append(mail, l), outbox' = outbox \cup {Len(mail) + 1},
           UNCHANGED <<stamped, new, work, done, post>>, mishaps \subseteq mishaps',
           \A t \in Tasks : lane[t] = "deleted" => lane'[t] = "deleted"
    PROVE  HeldUnread'
<1>1. PICK k : k = Len(mail) + 1
    OBVIOUS
<1>2. OldMail /\ Files' = Files \cup {k} /\ k \notin Files /\ outbox' = outbox \cup {k}
    BY <1>1, LetterAdded
<1>3. \A r \in Roles : Box(r) \subseteq Files /\ Box(r)' = Box(r)
    BY DEF HandoffInv, HandoffTypes, Box
<1>4. \A n : Unread(n)' <=> Unread(n)
    BY <1>3 DEF Unread
<1>5. \A n : (Delivery /\ post.now = n)' <=> (Delivery /\ post.now = n)
    BY DEF Delivery
<1>6. Unread(k)
    BY <1>2, <1>3 DEF Unread
<1>7. ~(Delivery /\ post.now = k)
    BY <1>2, OnDelivery
<1>8. \A n \in outbox' : n \in outbox \/ n \in stamped'
                                \/ (n \notin Files /\ (mail'[n].git => Unread(n)' /\ ~(Delivery /\ post.now = n)'))
    BY <1>2, <1>4, <1>5, <1>6, <1>7
<1>9. \A n \in outbox : Held(n) => Unread(n)' /\ ~(Delivery /\ post.now = n)'
    BY <1>4, <1>5 DEF HeldUnread
<1> QED BY <1>2, <1>8, <1>9, HeldStill

\* An approved letter is stamped, and so not held again.
LEMMA RequestHeld == ASSUME HandoffInv, HeldUnread, NEW n \in pending, Approve(n) \/ Retry(n) \/ Delete(n) PROVE HeldUnread'
<1>1. CASE Approve(n)
    <2>1. /\ UNCHANGED <<mail, new, work, done, lane, post, mishaps>>
          /\ outbox' = outbox \cup {n} /\ stamped' = stamped \cup {n}
        BY <1>1 DEF Approve, Inboxes
    <2>2. OldMail
        BY <2>1, SameMail
    <2>3. \A m \in outbox : Held(m) => Unread(m)' /\ ~(Delivery /\ post.now = m)'
        BY <2>1 DEF HeldUnread, Unread, Box, Delivery
    <2> QED BY <2>1, <2>2, <2>3, HeldStill
<1>2. CASE Retry(n)
    <2>1. UNCHANGED <<mail, new, work, done, lane, post, outbox, stamped>> /\ mishaps \subseteq mishaps'
        BY <1>2 DEF Retry, Inboxes, Hasty
    <2>2. OldMail
        BY <2>1, SameMail
    <2> QED BY <2>1, <2>2, HeldUnchanged DEF Box, Delivery
<1>3. CASE Delete(n)
    <2>1. /\ outbox' = {m \in outbox : mail[m].task # mail[n].task} /\ post' = post /\ OldMail
          /\ stamped' = {m \in stamped : mail[m].task # mail[n].task}
          /\ \A r \in Roles : /\ new'[r] = {m \in new[r] : mail[m].task # mail[n].task}
                              /\ work'[r] = {m \in work[r] : mail[m].task # mail[n].task}
                              /\ done'[r] = {m \in done[r] : mail[m].task # mail[n].task}
        BY <1>3, Deletes
    <2>2. \A r \in Roles : Box(r)' \subseteq Box(r)
        BY <2>1 DEF Box
    <2> QED BY <2>1, <2>2, HeldUnchanged DEF Delivery
<1> QED BY <1>1, <1>2, <1>3

\* A letter that is held is not being delivered.
LEMMA DaemonHeld == ASSUME HandoffInv, Known, HeldUnread, Daemon \/ KillDaemon PROVE HeldUnread'
<1>1. CASE Take
    <2>1. PICK n \in Files : /\ post.todo \ {n} \in SUBSET Files
                             /\ Skipped(n) \/ HeldBack(n) \/ Refused(n) \/ Started(n)
        BY <1>1, TakesOne, TakeCases
    <2>2. UNCHANGED <<mail, new, work, done, mishaps>> /\ \A r \in Roles : Box(r)' = Box(r)
        BY <1>1, TakesOne DEF Box
    <2>3. CASE Skipped(n) \/ HeldBack(n) \/ Refused(n)
        <3>1. post' = Turns(post.todo \ {n}) /\ lane' = lane
            BY <2>3 DEF Skipped, HeldBack, Refused
        <3>2. outbox' \subseteq outbox /\ \A m \in outbox' : m \in stamped => m \in stamped'
            BY <2>3 DEF Skipped, HeldBack, Refused, Fails, LeavesOutbox, Directories
        <3>3. ~Delivery'
            BY <2>1, <2>2, <3>1, TurnsTyped
        <3>4. OldMail
            BY <2>2, <3>1, SameMail
        <3> QED BY <2>2, <3>2, <3>3, <3>4, HeldUnchanged
    <2>4. CASE Started(n)
        <3>1. /\ n \in outbox /\ ~Held(n) /\ ~BoardRefuses(n) /\ lane' = BoardAfter(n)
              /\ UNCHANGED <<outbox, stamped>> /\ post'.now = n
            BY <2>4 DEF Started, Directories
        <3>2. OldMail
            BY <2>2, <3>1, BoardTold, BoardMoves DEF Known, Placed
        <3>3. \A m : Unread(m)' <=> Unread(m)
            BY <2>2 DEF Unread
        <3>4. \A m : m = post'.now => m = n
            BY <3>1
        <3>5. \A m \in outbox : Held(m) => Unread(m)' /\ ~(Delivery /\ post.now = m)'
            BY <3>1, <3>3, <3>4 DEF HeldUnread
        <3> QED BY <3>1, <3>2, <3>5, HeldStill
    <2> QED BY <2>1, <2>3, <2>4
<1>2. CASE Write
    <2>1. /\ UNCHANGED <<mail, outbox, stamped, lane, mishaps>> /\ Delivery /\ post'.now = post.now
          /\ \A r \in Roles : Box(r)' = IF r = Recipient(post.now) THEN Box(r) \cup {post.now} ELSE Box(r)
        BY <1>2, Writes
    <2>2. OldMail
        BY <2>1, SameMail
    <2>3. \A m : m # post.now /\ Unread(m) => Unread(m)'
        BY <2>1 DEF Unread
    <2>4. \A m : m # post.now => ~(Delivery /\ post.now = m)'
        BY <2>1
    <2>5. \A m \in outbox : Held(m) => Unread(m)' /\ ~(Delivery /\ post.now = m)'
        BY <2>1, <2>3, <2>4 DEF HeldUnread
    <2> QED BY <2>1, <2>2, <2>5, HeldStill
<1>3. CASE Wake
    <2>1. /\ Delivery /\ post.now \in Files /\ mishaps \subseteq mishaps' /\ UNCHANGED <<mail, new, work, done, lane>>
        BY <1>3, Wakes
    <2>2. OldMail
        BY <2>1, SameMail
    <2>3. outbox' \subseteq outbox /\ \A n \in outbox' : n \in stamped => n \in stamped'
        BY <1>3, Wakes DEF Fails, LeavesOutbox
    <2>4. Delivery' => post'.now = post.now
        <3>1. post' = Turns(post.todo) => ~Delivery'
            BY <2>1, OnDelivery, TurnsTyped
        <3> QED BY <1>3, <3>1, Wakes
    <2> QED BY <2>1, <2>2, <2>3, <2>4, HeldUnchanged DEF Box
<1>4. CASE File \/ Tell
    <2>1. /\ UNCHANGED <<mail, new, work, done, lane>> /\ mishaps \subseteq mishaps' /\ outbox' \subseteq outbox
          /\ \A n \in outbox' : n \in stamped => n \in stamped'
          /\ post' = Turns(post.todo) \/ post'.at = "tell"
          /\ post.todo \in SUBSET Files
        BY <1>4, LeavesForSent, Tells
    <2>2. OldMail
        BY <2>1, SameMail
    <2>3. ~Delivery'
        BY <2>1, TurnsTyped DEF Delivery
    <2> QED BY <2>1, <2>2, <2>3, HeldUnchanged DEF Box
<1>5. CASE Poll \/ KillDaemon
    <2>1. UNCHANGED <<mail, outbox, stamped, new, work, done, lane>> /\ mishaps \subseteq mishaps'
        BY <1>5 DEF Poll, KillDaemon, Fault, Directories, Inboxes
    <2>2. OldMail
        BY <2>1, SameMail
    <2>3. ~Delivery'
        <3>1. CASE Poll
            <4>1. post' = [post EXCEPT !.at = "next", !.todo = outbox]
                BY <3>1 DEF Poll
            <4> QED BY <4>1 DEF HandoffInv, HandoffTypes, PostTypes, Delivery
        <3>2. CASE KillDaemon
            BY <3>2 DEF KillDaemon, Delivery, Idle
        <3> QED BY <1>5, <3>1, <3>2
    <2> QED BY <2>1, <2>2, <2>3, HeldUnchanged DEF Box
<1> QED BY <1>1, <1>2, <1>3, <1>4, <1>5 DEF Daemon

\* Every step keeps what is held back undelivered.
LEMMA HeldKept == ASSUME HandoffInv, CopyInv, Known, HeldUnread, HandoffStep PROVE HeldUnread'
<1>1. ASSUME NEW t \in Tasks, CreateTask(t) PROVE HeldUnread'
    <2>1. /\ UNCHANGED <<stamped, new, work, done, post>> /\ mishaps \subseteq mishaps'
          /\ lane[t] = "none" /\ lane' = [lane EXCEPT ![t] = Master]
        BY <1>1 DEF CreateTask, Inboxes, Fault
    <2>2. \A u \in Tasks : lane[u] = "deleted" => lane'[u] = "deleted"
        BY <2>1 DEF HandoffInv, HandoffTypes
    <2>3. Letter(t, User, <<Master>>) \in Letters
        BY RolesOfPack DEF Letter, Letters
    <2>4. CASE mail' = Append(mail, Letter(t, User, <<Master>>)) /\ outbox' = outbox \cup {Len(mail) + 1}
        BY <2>1, <2>2, <2>3, <2>4, PostedHeld
    <2>5. CASE UNCHANGED <<mail, outbox>>
        <3>1. OldMail
            BY <2>1, <2>2, <2>5, BoardMoves
        <3> QED BY <2>1, <2>5, <3>1, HeldUnchanged DEF Box, Delivery
    <2> QED BY <1>1, <2>4, <2>5 DEF CreateTask
<1>2. ASSUME NEW r \in Roles, Submit(r) \/ SendCopy(r) PROVE HeldUnread'
    BY <1>2, SubmitsLetter, SendsCopy, PostedHeld DEF Known
<1>3. CASE \E n \in pending : Approve(n) \/ Retry(n) \/ Delete(n)
    BY <1>3, RequestHeld
<1>4. CASE DeskEnds
    <2>1. UNCHANGED <<mail, outbox, stamped, lane, post>> /\ mishaps \subseteq mishaps' /\ \A r \in Roles : Box(r)' = Box(r)
        BY <1>4, RequestEnds, RequestSameBoxes
    <2>2. OldMail
        BY <2>1, SameMail
    <2> QED BY <2>1, <2>2, HeldUnchanged DEF Delivery
<1>5. CASE Daemon \/ KillDaemon
    BY <1>5, DaemonHeld
<1>6. CASE \E r \in Roles : ReadyForNext(r) \/ DoneWithCurrent(r) \/ KillAgent(r)
    <2>1. UNCHANGED <<mail, outbox, stamped, lane, post>> /\ mishaps \subseteq mishaps' /\ \A r \in Roles : Box(r)' = Box(r)
        BY <1>6, Commands
    <2>2. OldMail
        BY <2>1, SameMail
    <2> QED BY <2>1, <2>2, HeldUnchanged DEF Delivery
<1> QED BY <1>1, <1>2, <1>3, <1>4, <1>5, <1>6 DEF HandoffStep

-----------------------------------------------------------------------------
(* An idle agent knows of its mail. *)

\* It still has the mail it knew of, or has been told of it, or will be.
LEMMA MailStill ==
    ASSUME HandoffInv, MailSeen, OldMail,
           \A r \in Roles : \A n \in new'[r] : agent'[r] = "rest" /\ work'[r] = {} =>
               \/ Aware(r)' \/ Gone(n)' \/ "deaf" \in mishaps' \/ Coming(n)'
               \/ /\ n \in new[r] /\ agent[r] = "rest" /\ work[r] = {}
                  /\ (Aware(r) => Aware(r)') /\ (Coming(n) => Coming(n)')
    PROVE  MailSeen'
<1> SUFFICES ASSUME NEW r \in Roles, NEW n \in new'[r], agent'[r] = "rest" /\ work'[r] = {},
                    n \in new[r] /\ agent[r] = "rest" /\ work[r] = {},
                    Aware(r) => Aware(r)', Coming(n) => Coming(n)'
             PROVE  Aware(r)' \/ Gone(n)' \/ "deaf" \in mishaps' \/ Coming(n)'
    BY DEF MailSeen
<1>1. n \in Files
    BY DEF HandoffInv, HandoffTypes
<1>2. (Gone(n) => Gone(n)') /\ mishaps \subseteq mishaps'
    BY <1>1 DEF OldMail
<1> QED BY <1>2 DEF MailSeen

\* The inboxes and the agents are left alone, and what is coming.
LEMMA MailUnchanged ==
    ASSUME HandoffInv, MailSeen, OldMail, UNCHANGED <<agent, refused>>, awake \subseteq awake',
           \A r \in Roles : new'[r] \subseteq new[r] /\ (work'[r] = {} => work[r] = {}),
           \A n \in Files : Coming(n) => Coming(n)'
    PROVE  MailSeen'
<1>1. \A r \in Roles : \A n \in new[r] : n \in Files
    BY DEF HandoffInv, HandoffTypes
<1>2. \A r : Aware(r) => Aware(r)'
    BY DEF Aware
<1> QED BY <1>1, <1>2, MailStill

\* A new task is no mail yet.
LEMMA CreateMail == ASSUME HandoffInv, MailSeen, NEW t \in Tasks, CreateTask(t) PROVE MailSeen'
<1>1. /\ UNCHANGED <<agent, refused, awake, new, work, post>> /\ mishaps \subseteq mishaps'
      /\ lane[t] = "none" /\ lane' = [lane EXCEPT ![t] = Master] /\ outbox \subseteq outbox'
    BY DEF CreateTask, Inboxes, Agents, Fault
<1>2. \A u \in Tasks : lane[u] = "deleted" => lane'[u] = "deleted"
    BY <1>1 DEF HandoffInv, HandoffTypes
<1>3. OldMail
    <2>1. Letter(t, User, <<Master>>) \in Letters
        BY RolesOfPack DEF Letter, Letters
    <2>2. CASE mail' = Append(mail, Letter(t, User, <<Master>>))
        BY <1>1, <1>2, <2>1, <2>2, LetterAdded
    <2>3. CASE mail' = mail
        BY <1>1, <1>2, <2>3, BoardMoves
    <2> QED BY <2>2, <2>3 DEF CreateTask
<1>4. \A n : Coming(n) => Coming(n)'
    BY <1>1 DEF Coming
<1> QED BY <1>1, <1>3, <1>4, MailUnchanged

\* The agent that hands on is not at rest.
LEMMA SubmitMail == ASSUME HandoffInv, Known, MailSeen, NEW r \in Roles, Submit(r) PROVE MailSeen'
<1>1. /\ UNCHANGED <<refused, awake, new, work, post, lane, mishaps>>
      /\ agent' = [agent EXCEPT ![r] = "queued"] /\ outbox \subseteq outbox'
      /\ mail' = Append(mail, Letter(Current(r), r, Recipients(r))) /\ Letter(Current(r), r, Recipients(r)) \in Letters
    BY SubmitsLetter
<1>2. OldMail
    BY <1>1, LetterAdded
<1>3. \A n : Coming(n) => Coming(n)'
    BY <1>1 DEF Coming
<1>4. \A q \in Roles : agent'[q] = "rest" => agent[q] = "rest"
    BY <1>1 DEF Known, AgentTypes
<1> QED BY <1>1, <1>2, <1>3, <1>4, MailStill DEF Aware

\* A copy that is written is no mail yet either.
LEMMA CopyMail == ASSUME HandoffInv, CopyInv, Known, MailSeen, NEW r \in Roles, SendCopy(r) PROVE MailSeen'
<1>1. PICK l \in Letters : mail' = Append(mail, l) /\ outbox' = outbox \cup {Len(mail) + 1}
    BY SendsCopy DEF Known
<1>2. UNCHANGED <<refused, awake, new, work, post, agent, lane, mishaps>>
    BY DEF SendCopy, Inboxes
<1>3. OldMail
    BY <1>1, <1>2, LetterAdded
<1>4. \A n : Coming(n) => Coming(n)'
    BY <1>1, <1>2 DEF Coming
<1> QED BY <1>2, <1>3, <1>4, MailUnchanged

\* The mail of a role whose work is deleted: the role knew of its work.
LEMMA RequestMail ==
    ASSUME HandoffInv, Known, WorkSeen, MailSeen, NEW n \in pending, Approve(n) \/ Retry(n) \/ Delete(n)
    PROVE  MailSeen'
<1>1. CASE Approve(n) \/ Retry(n)
    <2>1. UNCHANGED <<mail, lane, agent, refused, awake, new, work, post>> /\ mishaps \subseteq mishaps' /\ outbox \subseteq outbox'
        BY <1>1 DEF Approve, Retry, Inboxes, Agents, Hasty
    <2>2. OldMail
        BY <2>1, SameMail
    <2>3. \A m : Coming(m) => Coming(m)'
        BY <2>1 DEF Coming
    <2> QED BY <2>1, <2>2, <2>3, MailUnchanged
<1>2. CASE Delete(n)
    <2>1. /\ outbox' = {m \in outbox : mail[m].task # mail[n].task} /\ OldMail
          /\ UNCHANGED <<post, agent, refused, awake>>
          /\ \A r \in Roles : new'[r] = {m \in new[r] : mail[m].task # mail[n].task}
        BY <1>2, Deletes
    <2>3. ASSUME NEW r \in Roles, agent[r] = "rest", work[r] # {} PROVE Aware(r)'
        BY <2>1, <2>3 DEF WorkSeen, Aware
    <2>4. \A m \in outbox' : Coming(m) => Coming(m)'
        BY <2>1 DEF Coming
    <2>5. \A r \in Roles : \A m \in new'[r] : Coming(m) => Coming(m)'
        BY <2>1, <2>4 DEF Coming
    <2> QED BY <2>1, <2>3, <2>5, MailStill DEF Aware
<1> QED BY <1>1, <1>2

\* The dashboard puts work back into process, and nothing into an inbox.
LEMMA DeskMail == ASSUME HandoffInv, MailSeen, DeskEnds PROVE MailSeen'
<1>1. UNCHANGED <<mail, lane, outbox, agent, refused, new, post>> /\ mishaps \subseteq mishaps'
    BY RequestEnds
<1>2. OldMail
    BY <1>1, SameMail
<1>3. \A m : Coming(m) => Coming(m)'
    BY <1>1 DEF Coming
<1>4. awake \subseteq awake' /\ \A r \in Roles : work[r] \subseteq work'[r]
    <2>1. CASE UNCHANGED <<work, awake>>
        BY <2>1
    <2>2. ASSUME NEW t, Restored(Master, t), awake' = IF agent[Master] = "rest" THEN awake \cup {Master} ELSE awake
          PROVE  awake \subseteq awake' /\ \A r \in Roles : work[r] \subseteq work'[r]
        <3>1. PICK back \in SUBSET Of(t, done[Master]) : work' = [work EXCEPT ![Master] = @ \cup back]
            BY <2>2, Restores
        <3> QED BY <2>2, <3>1 DEF HandoffInv, HandoffTypes
    <2> QED BY <2>1, <2>2, RequestEnds
<1>5. \A r \in Roles : work'[r] = {} => work[r] = {}
    BY <1>4
<1> QED BY <1>1, <1>2, <1>3, <1>4, <1>5, MailUnchanged

\* A refused letter's task was deleted, and a held one is in no inbox.
LEMMA TakeMail == ASSUME HandoffInv, Known, MailSeen, HeldUnread, Take PROVE MailSeen'
<1>1. PICK n \in Files : /\ post.todo \ {n} \in SUBSET Files
                         /\ Skipped(n) \/ HeldBack(n) \/ Refused(n) \/ Started(n)
    BY TakesOne, TakeCases
<1>2. UNCHANGED <<mail, new, work, done, agent, awake, refused, mishaps>>
    BY TakesOne
<1>3. \A r : Aware(r)' <=> Aware(r)
    BY <1>2 DEF Aware
<1>4. CASE Skipped(n) \/ HeldBack(n) \/ Refused(n)
    <2>1. post' = Turns(post.todo \ {n}) /\ lane' = lane
        BY <1>4 DEF Skipped, HeldBack, Refused
    <2>2. OldMail /\ \A m : Gone(m)' <=> Gone(m)
        BY <1>2, <2>1, SameMail
    <2>3. post'.at # "file"
        BY <1>1, <1>2, <2>1, TurnsTyped
    <2>4. /\ \A m \in outbox : m # n => m \in outbox'
          /\ n \in outbox => n \in outbox' \/ Held(n) \/ BoardRefuses(n)
        BY <1>4 DEF Skipped, HeldBack, Refused, Fails, LeavesOutbox, Directories
    <2>5. Held(n) /\ n \in outbox => \A r \in Roles : n \notin new[r]
        BY DEF HeldUnread, Unread, Box
    <2>6. BoardRefuses(n) => Gone(n)'
        BY <2>2 DEF BoardRefuses, Gone
    <2>7. \A r \in Roles : \A m \in new[r] : Coming(m) => Coming(m)' \/ Gone(m)'
        BY <2>3, <2>4, <2>5, <2>6 DEF Coming
    <2> QED BY <1>2, <1>3, <2>2, <2>7, MailStill
<1>5. CASE Started(n)
    <2>1. ~BoardRefuses(n) /\ lane' = BoardAfter(n) /\ outbox' = outbox /\ post'.at = "write"
        BY <1>5 DEF Started, Directories
    <2>2. OldMail
        BY <1>1, <1>2, <2>1, BoardTold, BoardMoves DEF Known, Placed
    <2>3. \A m : Coming(m) => Coming(m)'
        BY <2>1 DEF Coming
    <2> QED BY <1>2, <1>3, <2>2, <2>3, MailStill
<1> QED BY <1>1, <1>4, <1>5

\* Mail that is written is coming, and its agent is woken before it is filed.
LEMMA DeliveryMail == ASSUME HandoffInv, Known, MailSeen, Write \/ Wake PROVE MailSeen'
<1>1. CASE Write
    <2>1. /\ Delivery /\ post.now \in Files /\ post'.at = "wake"
          /\ UNCHANGED <<mail, outbox, work, lane, agent, awake, refused, mishaps>>
          /\ \A r \in Roles : new'[r] = IF r = Recipient(post.now) THEN new[r] \cup {post.now} ELSE new[r]
        BY <1>1, Writes
    <2>2. OldMail /\ \A m : Gone(m)' <=> Gone(m)
        BY <2>1, SameMail
    <2>3. \A m \in outbox : Coming(m)'
        BY <2>1 DEF Coming
    <2>4. Gone(post.now) \/ post.now \in outbox
        BY <2>1 DEF Known, OnTheWay
    <2>5. \A m : Coming(m) => Coming(m)'
        BY <2>3 DEF Coming
    <2> QED BY <2>1, <2>2, <2>3, <2>4, <2>5, MailStill DEF Aware
<1>2. CASE Wake
    <2>1. /\ Delivery /\ post.now \in Files /\ mishaps \subseteq mishaps'
          /\ UNCHANGED <<mail, new, work, lane, agent, refused>>
        BY <1>2, Wakes
    <2>2. OldMail /\ \A m : Gone(m)' <=> Gone(m)
        BY <2>1, SameMail
    <2>3. CASE /\ awake' = Woken(Recipient(post.now)) /\ post'.now = post.now /\ outbox' = outbox
        <3>1. \A r \in Roles : \A m \in new[r] : m = post.now => r = Recipient(post.now)
            BY DEF Known, Placed, Box
        <3>2. agent[Recipient(post.now)] = "rest" => Recipient(post.now) \in awake'
            BY <2>3 DEF Woken
        <3>3. \A r : Aware(r) => Aware(r)'
            BY <2>1, <2>3 DEF Aware, Woken
        <3>4. \A m : m # post.now /\ Coming(m) => Coming(m)'
            BY <2>3 DEF Coming
        <3> QED BY <2>1, <2>2, <3>1, <3>2, <3>3, <3>4, MailStill DEF Aware
    <2>4. CASE "deaf" \in mishaps'
        BY <2>2, <2>4, MailStill
    <2> QED BY <1>2, <2>3, <2>4, Wakes
<1> QED BY <1>1, <1>2

\* A letter is filed after its agent has been woken.
LEMMA FileMail == ASSUME HandoffInv, Known, MailSeen, File \/ Tell PROVE MailSeen'
<1>1. /\ UNCHANGED <<mail, new, work, lane, agent, refused>> /\ mishaps \subseteq mishaps' /\ awake \subseteq awake'
      /\ post.at = "file" \/ outbox' = outbox
      /\ \A m \in outbox : m # post.now => m \in outbox'
      /\ post'.at = "tell" \/ (post' = Turns(post.todo) /\ post.todo \in SUBSET Files)
    BY LeavesForSent, Tells
<1>2. OldMail
    BY <1>1, SameMail
<1>3. post'.at # "file"
    BY <1>1, TurnsTyped
<1>4. \A m : Coming(m) => Coming(m)'
    BY <1>1, <1>3 DEF Coming
<1> QED BY <1>1, <1>2, <1>4, MailUnchanged

\* An agent that leaves its mail has been told to wait.
LEMMA ReadyMail == ASSUME HandoffInv, Known, MailSeen, NEW r \in Roles, ReadyForNext(r) PROVE MailSeen'
<1>1. UNCHANGED <<mail, outbox, lane, post>> /\ mishaps \subseteq mishaps' /\ agent[r] = "rest" /\ r \in awake
    BY Commands, ReadyCases
<1>2. OldMail /\ \A m : Coming(m) => Coming(m)'
    BY <1>1, SameMail DEF Coming
<1>3. DOMAIN agent = Roles /\ DOMAIN work = Roles /\ DOMAIN new = Roles
    BY DEF Known, AgentTypes, HandoffInv, HandoffTypes
<1>4. \A q \in Roles \ {r} : agent'[q] = agent[q] /\ work'[q] = work[q] /\ new'[q] = new[q] /\ (Aware(q) => Aware(q)')
    BY <1>3, ReadyCases DEF ToldToWait, GoesOn, FindsNone, TakesWork, CutShort, Works, Dequeues, Aware
<1>5. agent'[r] = "rest" /\ new'[r] # {} => Aware(r)'
    <2>1. CASE ToldToWait(r)
        BY <2>1 DEF ToldToWait, Aware
    <2>2. CASE GoesOn(r) \/ TakesWork(r)
        BY <1>3, <2>2 DEF GoesOn, TakesWork, Works
    <2>3. CASE FindsNone(r)
        BY <2>3 DEF FindsNone
    <2>4. CASE CutShort(r)
        BY <1>1, <2>4 DEF CutShort, Aware
    <2> QED BY <2>1, <2>2, <2>3, <2>4, ReadyCases
<1> QED BY <1>2, <1>4, <1>5, MailStill

\* An agent that completes its work is woken for the mail it has.
LEMMA DoneMail == ASSUME HandoffInv, Known, MailSeen, NEW r \in Roles, DoneWithCurrent(r) \/ KillAgent(r) PROVE MailSeen'
<1>1. UNCHANGED <<mail, outbox, lane, post>> /\ mishaps \subseteq mishaps'
    BY Commands
<1>2. OldMail /\ \A m : Coming(m) => Coming(m)'
    BY <1>1, SameMail DEF Coming
<1>3. DOMAIN agent = Roles /\ DOMAIN work = Roles
    BY DEF Known, AgentTypes, HandoffInv, HandoffTypes
<1>4. new' = new /\ \A q \in Roles \ {r} : agent'[q] = agent[q] /\ work'[q] = work[q] /\ (Aware(q) => Aware(q)')
    <2>1. CASE DoneWithCurrent(r)
        BY <1>3, <2>1, DoneCases DEF NotDone, AllDone, PartlyDone, Completed, Aware
    <2>2. CASE KillAgent(r)
        BY <1>3, <2>2 DEF KillAgent, Inboxes, Aware
    <2> QED BY <2>1, <2>2
<1>5. new'[r] # {} => Aware(r)'
    BY DoneCases DEF NotDone, AllDone, PartlyDone, KillAgent, Aware
<1> QED BY <1>2, <1>4, <1>5, MailStill

\* Every step keeps the agents aware of their mail.
LEMMA MailKept == ASSUME HandoffInv, CopyInv, WakeInv, HandoffStep PROVE MailSeen'
<1>1. Known /\ WorkSeen /\ MailSeen /\ HeldUnread
    BY DEF WakeInv
<1>2. CASE Poll \/ KillDaemon
    <2>1. UNCHANGED <<mail, outbox, lane, new, work, agent, awake, refused>> /\ mishaps \subseteq mishaps'
        BY <1>2 DEF Poll, KillDaemon, Fault, Directories, Inboxes, Agents
    <2>2. OldMail
        BY <2>1, SameMail
    <2>3. post'.at # "file"
        <3>1. CASE Poll
            <4>1. post' = [post EXCEPT !.at = "next", !.todo = outbox]
                BY <3>1 DEF Poll
            <4> QED BY <4>1 DEF HandoffInv, HandoffTypes, PostTypes
        <3>2. CASE KillDaemon
            BY <3>2 DEF KillDaemon, Idle
        <3> QED BY <1>2, <3>1, <3>2
    <2>4. \A m : Coming(m) => Coming(m)'
        BY <2>1, <2>3 DEF Coming
    <2> QED BY <1>1, <2>1, <2>2, <2>4, MailUnchanged
<1>3. CASE \E t \in Tasks : CreateTask(t)
    BY <1>1, <1>3, CreateMail
<1>4. CASE \E n \in pending : Approve(n) \/ Retry(n) \/ Delete(n)
    BY <1>1, <1>4, RequestMail
<1>5. CASE DeskEnds
    BY <1>1, <1>5, DeskMail
<1>6. CASE Take \/ Write \/ Wake \/ File \/ Tell
    BY <1>1, <1>6, TakeMail, DeliveryMail, FileMail
<1>7. CASE \E r \in Roles : ReadyForNext(r) \/ Submit(r) \/ SendCopy(r) \/ DoneWithCurrent(r) \/ KillAgent(r)
    BY <1>1, <1>7, ReadyMail, SubmitMail, CopyMail, DoneMail
<1> QED BY <1>2, <1>3, <1>4, <1>5, <1>6, <1>7 DEF HandoffStep, Daemon

-----------------------------------------------------------------------------
(* The master waits for its own handoff only. *)

\* What was well stays so, or becomes so.
LEMMA ToldStill ==
    ASSUME MasterTold, Files \subseteq Files', Clean' => Clean,
           Clean' => /\ agent'[Master] # "rest" =>
                            \/ work'[Master] # {}
                            \/ agent[Master] # "rest" /\ (work[Master] # {} => work'[Master] # {})
                     /\ \A n \in Files' : desk' = <<"approve", n>> =>
                            \/ Approving(n)'
                            \/ n \in Files /\ desk = <<"approve", n>> /\ (Approving(n) => Approving(n)')
                     /\ \A n \in new'[Master] : Overlooked(n)' =>
                            \/ Blocked'
                            \/ n \in new[Master] /\ Overlooked(n) /\ (Blocked => Blocked')
    PROVE  MasterTold'
BY DEF MasterTold

\* Nothing that was wrong is righted.
LEMMA CleanBefore ==
    ASSUME mishaps \subseteq mishaps', \A t \in Tasks : lane[t] = "deleted" => lane'[t] = "deleted"
    PROVE  Clean' => Clean
BY DEF Clean

\* A step in which the master, its mail and the dashboard's request are left
\* alone, and no file leaves the outbox that is not held from then on.
LEMMA ToldUnchanged ==
    ASSUME HandoffInv, MasterTold, OldMail, Clean' => Clean,
           agent'[Master] = agent[Master], work'[Master] = work[Master], Master \in awake => Master \in awake',
           UNCHANGED <<new, desk>>, pending \subseteq pending', outbox \subseteq outbox' \cup pending',
           \A n \in Files : desk = <<"approve", n>> /\ n \in outbox => n \in outbox',
           \A n \in new[Master] : Coming(n) => Coming(n)',
           post.at = "tell" => post'.at = "tell" /\ post'.now = post.now
    PROVE  MasterTold'
<1>1. \A n \in Files : Approving(n) /\ desk = <<"approve", n>> => Approving(n)'
    BY DEF Approving
<1>2. \A n \in new[Master] : Overlooked(n)' => Overlooked(n)
    BY DEF Overlooked
<1>3. Outbound(Master) # {} => Outbound(Master)' # {}
    <2>1. outbox \cup pending \subseteq Files
        BY DEF HandoffInv, HandoffTypes
    <2> QED BY <2>1 DEF Outbound, OldMail
<1>4. post.at = "tell" => mail'[post'.now] = mail[post.now]
    BY DEF OldMail, HandoffInv, HandoffTypes, PostTypes
<1>5. Files \subseteq Files'
    BY DEF OldMail
<1>6. Blocked => Blocked'
    BY <1>3, <1>4, <1>5 DEF Blocked
<1>7. \A n \in Files' : desk = <<"approve", n>> => n \in Files
    <2>1. desk = << >> \/ \E m \in Files : desk = <<"approve", m>> \/ desk = <<"retry", m>>
        BY DEF HandoffInv, HandoffTypes
    <2>2. \A m, n : <<"approve", m>> = <<"approve", n>> => m = n
        OBVIOUS
    <2>3. \A m, n : <<"retry", m>> # <<"approve", n>> /\ << >> # <<"approve", n>>
        OBVIOUS
    <2> QED BY <2>1, <2>2, <2>3
<1> QED BY <1>1, <1>2, <1>5, <1>6, <1>7, ToldStill

\* A letter is written, and is no mail yet.
LEMMA PostedTold ==
    ASSUME HandoffInv, CopyInv, Known, MasterTold,
           (\E t \in Tasks : CreateTask(t)) \/ \E r \in Roles : Submit(r) \/ SendCopy(r)
    PROVE  MasterTold'
<1>1. CASE \E t \in Tasks : CreateTask(t)
    <2>1. PICK t \in Tasks : CreateTask(t)
        BY <1>1
    <2>2. /\ UNCHANGED <<new, work, desk, agent, awake, pending, post>> /\ outbox \subseteq outbox'
          /\ mishaps \subseteq mishaps' /\ lane[t] = "none" /\ lane' = [lane EXCEPT ![t] = Master]
        BY <2>1 DEF CreateTask, Inboxes, Agents, Fault
    <2>3. \A u \in Tasks : lane[u] = "deleted" => lane'[u] = "deleted"
        BY <2>2 DEF HandoffInv, HandoffTypes
    <2>4. OldMail
        <3>1. Letter(t, User, <<Master>>) \in Letters
            BY RolesOfPack DEF Letter, Letters
        <3>2. CASE mail' = Append(mail, Letter(t, User, <<Master>>))
            BY <2>2, <2>3, <3>1, <3>2, LetterAdded
        <3>3. CASE mail' = mail
            BY <2>2, <2>3, <3>3, BoardMoves
        <3> QED BY <2>1, <3>2, <3>3 DEF CreateTask
    <2>5. \A n : Coming(n) => Coming(n)'
        BY <2>2 DEF Coming
    <2>6. Clean' => Clean
        BY <2>2, <2>3, CleanBefore
    <2> QED BY <2>2, <2>4, <2>5, <2>6, ToldUnchanged
<1>2. ASSUME NEW r \in Roles, Submit(r) PROVE MasterTold'
    <2>1. /\ UNCHANGED <<new, work, desk, awake, pending, post, lane, mishaps>>
          /\ outbox' = outbox \cup {Len(mail) + 1} /\ Letter(Current(r), r, Recipients(r)) \in Letters
          /\ mail' = Append(mail, Letter(Current(r), r, Recipients(r)))
          /\ agent[r] = "work" /\ agent' = [agent EXCEPT ![r] = "queued"]
        BY <1>2, SubmitsLetter
    <2>2. OldMail
        BY <2>1, LetterAdded
    <2>3. Clean' => Clean
        BY <2>1, CleanBefore
    <2>4. \A n : Coming(n) => Coming(n)'
        BY <2>1 DEF Coming
    <2>5. CASE r # Master
        <3>1. agent'[Master] = agent[Master]
            BY <2>1, <2>5
        <3> QED BY <2>1, <2>2, <2>3, <2>4, <3>1, ToldUnchanged
    <2>6. CASE r = Master
        <3>1. agent'[Master] = "queued" /\ agent[Master] # "rest"
            BY <2>1, <2>6, RolesOfPack DEF Known, AgentTypes
        <3>2. \A n \in Files' : desk' = <<"approve", n>> =>
                n \in Files /\ desk = <<"approve", n>> /\ (Approving(n) => Approving(n)')
            <4>1. desk = << >> \/ \E m \in Files : desk = <<"approve", m>> \/ desk = <<"retry", m>>
                BY DEF HandoffInv, HandoffTypes
            <4>2. \A m, n : <<"approve", m>> = <<"approve", n>> => m = n
                OBVIOUS
            <4>3. \A m, n : <<"retry", m>> # <<"approve", n>> /\ << >> # <<"approve", n>>
                OBVIOUS
            <4> QED BY <2>1, <4>1, <4>2, <4>3 DEF Approving
        <3>3. \A n : ~Overlooked(n)'
            BY <3>1 DEF Overlooked
        <3> QED BY <2>1, <2>2, <2>3, <3>1, <3>2, <3>3, ToldStill DEF OldMail
    <2> QED BY <2>5, <2>6
<1>3. ASSUME NEW r \in Roles, SendCopy(r) PROVE MasterTold'
    <2>1. PICK l \in Letters : mail' = Append(mail, l) /\ outbox' = outbox \cup {Len(mail) + 1}
        BY <1>3, SendsCopy DEF Known
    <2>2. UNCHANGED <<new, work, desk, agent, awake, pending, post, lane, mishaps>>
        BY <1>3 DEF SendCopy, Inboxes
    <2>3. OldMail
        BY <2>1, <2>2, LetterAdded
    <2>4. \A n : Coming(n) => Coming(n)'
        BY <2>1, <2>2 DEF Coming
    <2>5. Clean' => Clean
        BY <2>2, CleanBefore
    <2> QED BY <2>1, <2>2, <2>3, <2>4, <2>5, ToldUnchanged
<1> QED BY <1>1, <1>2, <1>3

\* An approval puts the letter into the outbox; a retry is going to wake the
\* master; a deletion ends it.
LEMMA RequestTold ==
    ASSUME HandoffInv, Known, MasterTold, NEW n \in pending, Approve(n) \/ Retry(n) \/ Delete(n)
    PROVE  MasterTold'
<1>0. n \in Files
    BY DEF HandoffInv, HandoffTypes
<1>1. CASE Delete(n)
    <2>1. mail[n].task \in Tasks /\ lane'[mail[n].task] = "deleted"
        BY <1>0, <1>1, LetterFields, Deletes
    <2> QED BY <2>1 DEF MasterTold, Clean
<1>2. CASE Approve(n)
    <2>1. /\ UNCHANGED <<mail, new, work, agent, awake, pending, post, lane, mishaps>>
          /\ outbox' = outbox \cup {n} /\ desk = << >> /\ desk' = <<"approve", n>>
        BY <1>2 DEF Approve, Inboxes, Agents
    <2>2. Clean' => Clean
        BY <2>1, CleanBefore
    <2>3. \A m \in Files' : desk' = <<"approve", m>> => Approving(m)'
        <3>1. \A m : desk' = <<"approve", m>> => m = n
            <4>1. \A a, b : <<"approve", a>> = <<"approve", b>> => a = b
                OBVIOUS
            <4> QED BY <2>1, <4>1
        <3> QED BY <2>1, <3>1 DEF Approving
    <2>4. \A m \in new[Master] : Overlooked(m)' => Overlooked(m)
        BY <2>1 DEF Overlooked, Coming
    <2>5. Blocked => Blocked'
        <3>1. Outbound(Master) \subseteq Outbound(Master)'
            BY <2>1 DEF Outbound
        <3>2. \A m : desk # <<"retry", m>>
            <4>1. \A m : << >> # <<"retry", m>>
                OBVIOUS
            <4> QED BY <2>1, <4>1
        <3> QED BY <2>1, <3>1, <3>2 DEF Blocked
    <2> QED BY <2>1, <2>2, <2>3, <2>4, <2>5, ToldStill DEF Files
<1>3. CASE Retry(n)
    <2>1. /\ UNCHANGED <<mail, new, work, agent, lane>> /\ mishaps \subseteq mishaps'
          /\ desk' = <<"retry", n>>
        BY <1>3 DEF Retry, Inboxes, Agents, Hasty
    <2>2. Clean' => Clean
        BY <2>1, CleanBefore
    <2>3. Blocked' /\ Files' = Files
        BY <1>0, <2>1 DEF Blocked, Files
    <2>4. \A m : desk' # <<"approve", m>>
        <3>1. \A m : <<"retry", n>> # <<"approve", m>>
            OBVIOUS
        <3> QED BY <2>1, <3>1
    <2> QED BY <2>1, <2>2, <2>3, <2>4, ToldStill
<1> QED BY <1>1, <1>2, <1>3

\* What was approved stays on its way, or its delivery is about to be told; a
\* retry wakes the master.
LEMMA DeskTold == ASSUME HandoffInv, Known, MasterTold, DeskEnds PROVE MasterTold'
<1>1. /\ desk' = << >> /\ mishaps \subseteq mishaps'
      /\ UNCHANGED <<mail, outbox, new, lane, agent, post>>
    BY RequestEnds
<1>2. Clean' => Clean
    BY <1>1, CleanBefore
<1>3. Files' = Files /\ \A m : desk' # <<"approve", m>>
    <2>1. \A m : << >> # <<"approve", m>>
        OBVIOUS
    <2> QED BY <1>1, <2>1 DEF Files
<1>4. ASSUME NEW n \in Files, desk = <<"approve", n>>, pending' = pending \ {n}, UNCHANGED <<work, awake>>
      PROVE  MasterTold'
    <2>1. \A m \in new[Master] : Overlooked(m)' => Overlooked(m)
        BY <1>1, <1>4 DEF Overlooked, Coming
    <2>2. ASSUME Clean, Blocked PROVE Blocked'
        <3>1. Approving(n)
            BY <1>4, <2>2 DEF MasterTold
        <3>2. mail[n].from = Master /\ mail[n].git
            <4>1. mail[n].from = Master
                BY <3>1 DEF Approving, HandoffInv, Kept
            <4> QED BY <4>1, AddressedFields, EndsOfPack DEF Known, Placed
        <3>3. \A m : desk # <<"retry", m>>
            <4>1. \A m : <<"approve", n>> # <<"retry", m>>
                OBVIOUS
            <4> QED BY <1>4, <4>1
        <3>4. CASE n \in outbox
            <4>1. n \in Outbound(Master)'
                BY <1>1, <3>2, <3>4 DEF Outbound
            <4> QED BY <4>1 DEF Blocked
        <3>5. CASE post.at = "tell" /\ post.now = n
            BY <1>1, <3>2, <3>5 DEF Blocked
        <3> QED BY <3>1, <3>4, <3>5 DEF Approving
    <2> QED BY <1>1, <1>2, <1>3, <1>4, <2>1, <2>2, ToldStill
<1>5. ASSUME NEW t, Restored(Master, t),
             awake' = IF agent[Master] = "rest" THEN awake \cup {Master} ELSE awake
      PROVE  MasterTold'
    <2>1. PICK back \in SUBSET Of(t, done[Master]) : work' = [work EXCEPT ![Master] = @ \cup back]
        BY <1>5, Restores
    <2>2. work[Master] # {} => work'[Master] # {}
        BY <2>1, RolesOfPack DEF HandoffInv, HandoffTypes
    <2>3. \A m : ~Overlooked(m)'
        BY <1>1, <1>5 DEF Overlooked
    <2> QED BY <1>1, <1>2, <1>3, <2>2, <2>3, ToldStill
<1>6. CASE "web" \in mishaps'
    BY <1>6 DEF MasterTold, Clean
<1> QED BY <1>4, <1>5, <1>6, RequestEnds

\* A handoff is held, delivered, or refused since its task was deleted.
LEMMA TakeTold == ASSUME HandoffInv, Known, HeldUnread, MasterTold, Take PROVE MasterTold'
<1>1. PICK n \in Files : /\ post.todo \ {n} \in SUBSET Files
                         /\ Skipped(n) \/ HeldBack(n) \/ Refused(n) \/ Started(n)
    BY TakesOne, TakeCases
<1>2. post.at = "next" /\ UNCHANGED <<mail, new, work, agent, awake, desk, mishaps>>
    BY TakesOne
<1>3. OldMail /\ \A t \in Tasks : lane[t] = "deleted" => lane'[t] = "deleted"
    <2>1. CASE lane' = lane
        BY <1>2, <2>1, SameMail
    <2>2. CASE Started(n)
        <3>1. ~BoardRefuses(n) /\ lane' = BoardAfter(n)
            BY <2>2 DEF Started
        <3> QED BY <1>2, <3>1, BoardTold, BoardMoves DEF Known, Placed
    <2> QED BY <1>1, <2>1, <2>2 DEF Skipped, HeldBack, Refused
<1>4. Clean' => Clean
    BY <1>2, <1>3, CleanBefore
<1>5. post'.at # "file"
    <2>1. CASE post' = Turns(post.todo \ {n})
        BY <1>1, <1>2, <2>1, TurnsTyped
    <2>2. CASE Started(n)
        BY <2>2 DEF Started
    <2> QED BY <1>1, <2>1, <2>2 DEF Skipped, HeldBack, Refused
<1>6. CASE Skipped(n) \/ Started(n)
    <2>1. UNCHANGED <<outbox, pending>>
        BY <1>6 DEF Skipped, Started, Directories
    <2>2. \A m : Coming(m) => Coming(m)'
        BY <1>5, <2>1 DEF Coming
    <2> QED BY <1>2, <1>3, <1>4, <2>1, <2>2, ToldUnchanged
<1>7. CASE HeldBack(n)
    <2>1. n \in outbox /\ Held(n) /\ pending' = pending \cup {n} /\ outbox' = outbox \ {n}
        BY <1>7 DEF HeldBack, LeavesOutbox
    <2>2. \A m \in new[Master] : Coming(m) => Coming(m)'
        <3>1. n \notin new[Master]
            BY <2>1, RolesOfPack DEF HeldUnread, Unread, Box
        <3> QED BY <1>5, <2>1, <3>1 DEF Coming
    <2>3. Clean => \A m \in Files : desk = <<"approve", m>> /\ m \in outbox => m \in outbox'
        <3>1. Clean => Undisturbed
            BY DEF Clean, Undisturbed
        <3>2. Undisturbed => \A m \in outbox : desk = <<"approve", m>> => m \in stamped
            BY DEF HandoffInv, Waiting
        <3> QED BY <2>1, <3>1, <3>2 DEF Held
    <2>4. CASE Clean
        BY <1>2, <1>3, <1>4, <2>1, <2>2, <2>3, <2>4, ToldUnchanged
    <2> QED BY <1>4, <2>4 DEF MasterTold
<1>8. CASE Refused(n)
    <2>1. BoardRefuses(n) /\ lane' = lane
        BY <1>8 DEF Refused
    <2>2. mail[n].task \in Tasks
        BY LetterFields
    <2>3. ~Clean'
        BY <2>1, <2>2 DEF BoardRefuses, Clean
    <2> QED BY <2>3 DEF MasterTold
<1> QED BY <1>1, <1>6, <1>7, <1>8

\* A letter that is written is coming, and its agent is woken.
LEMMA DeliveryTold == ASSUME HandoffInv, Known, MasterTold, Write \/ Wake PROVE MasterTold'
<1>1. CASE Write
    <2>1. /\ post.at = "write" /\ Delivery /\ post.now \in Files /\ post'.at = "wake"
          /\ UNCHANGED <<mail, outbox, pending, work, lane, agent, awake, desk, mishaps>>
          /\ \A r \in Roles : new'[r] = IF r = Recipient(post.now) THEN new[r] \cup {post.now} ELSE new[r]
        BY <1>1, Writes
    <2>2. Clean' => Clean
        BY <2>1, CleanBefore
    <2>3. Files' = Files /\ (Blocked => Blocked')
        BY <2>1 DEF Files, Blocked, Outbound
    <2>4. \A m \in Files : Approving(m) => Approving(m)'
        BY <2>1 DEF Approving
    <2>5. ASSUME Clean, NEW m \in new'[Master], Overlooked(m)' PROVE m \in new[Master] /\ Overlooked(m)
        <3>1. m \notin outbox
            BY <2>1, <2>5 DEF Overlooked, Coming
        <3>2. ~Gone(post.now)
            BY <2>1, <2>5, LetterFields DEF Clean, Gone
        <3>3. post.now \in outbox
            BY <2>1, <3>2 DEF Known, OnTheWay
        <3>4. m \in new[Master]
            BY <2>1, <3>1, <3>3, RolesOfPack
        <3> QED BY <2>1, <2>5, <3>1, <3>4 DEF Overlooked, Coming
    <2> QED BY <2>1, <2>2, <2>3, <2>4, <2>5, ToldStill
<1>2. CASE Wake
    <2>1. /\ post.at = "wake" /\ Delivery /\ post.now \in Files /\ mishaps \subseteq mishaps'
          /\ UNCHANGED <<mail, pending, new, work, lane, agent, desk>>
        BY <1>2, Wakes
    <2>2. CASE "deaf" \in mishaps'
        BY <2>2 DEF MasterTold, Clean
    <2>3. CASE /\ awake' = Woken(Recipient(post.now)) /\ post'.now = post.now /\ post'.at = "file"
               /\ UNCHANGED <<outbox, mishaps>>
        <3>1. Clean' => Clean
            BY <2>1, <2>3, CleanBefore
        <3>2. Files' = Files /\ (Blocked => Blocked')
            BY <2>1, <2>3 DEF Files, Blocked, Outbound
        <3>3. \A m \in Files : Approving(m) => Approving(m)'
            BY <2>1, <2>3 DEF Approving
        <3>4. ASSUME NEW m \in new[Master], Overlooked(m)' PROVE Overlooked(m)
            <4>1. Recipient(m) = Master
                BY RolesOfPack DEF Known, Placed, Box
            <4>2. m # post.now
                BY <2>1, <2>3, <3>4, <4>1 DEF Overlooked, Woken
            <4>3. Master \in awake => Master \in awake'
                BY <2>3 DEF Woken
            <4> QED BY <2>1, <2>3, <3>4, <4>2, <4>3 DEF Overlooked, Coming
        <3> QED BY <2>1, <3>1, <3>2, <3>3, <3>4, ToldStill
    <2> QED BY <1>2, <2>2, <2>3, Wakes
<1> QED BY <1>1, <1>2

\* The master's handoff was delivered, and the master is told.
LEMMA FileTold == ASSUME HandoffInv, Known, MasterTold, File \/ Tell PROVE MasterTold'
<1>1. CASE File
    <2>1. /\ post.at = "file" /\ Delivery /\ post.now \in Files /\ post.todo \in SUBSET Files
          /\ UNCHANGED <<mail, pending, new, work, lane, agent, awake, desk, mishaps>>
        BY <1>1, LeavesForSent
    <2>2. Clean' => Clean
        BY <2>1, CleanBefore
    <2>3. CASE post' = Turns(post.todo) /\ outbox' = outbox
        <3>1. OldMail
            BY <2>1, SameMail
        <3>2. post'.at # "file"
            BY <2>1, <2>3, TurnsTyped
        <3>3. \A m : Coming(m) => Coming(m)'
            BY <2>3, <3>2 DEF Coming
        <3> QED BY <2>1, <2>2, <2>3, <3>1, <3>3, ToldUnchanged
    <2>4. CASE post'.at = "tell" /\ post'.now = post.now /\ outbox' = outbox \ {post.now}
        <3>1. Files' = Files
            BY <2>1 DEF Files
        <3>2. \A m : Approving(m) => Approving(m)'
            BY <2>1, <2>4 DEF Approving
        <3>3. \A m \in new[Master] : Overlooked(m)' => Overlooked(m)
            BY <2>1, <2>4 DEF Overlooked, Coming
        <3>4. Blocked => Blocked'
            <4>1. CASE mail[post.now].from = Master
                BY <2>1, <2>4, <4>1 DEF Blocked
            <4>2. CASE mail[post.now].from # Master
                <5>1. Outbound(Master)' = Outbound(Master)
                    BY <2>1, <2>4, <4>2 DEF Outbound
                <5> QED BY <2>1, <3>1, <5>1 DEF Blocked
            <4> QED BY <4>1, <4>2
        <3> QED BY <2>1, <2>2, <3>1, <3>2, <3>3, <3>4, ToldStill
    <2> QED BY <1>1, <2>3, <2>4, LeavesForSent
<1>2. CASE Tell
    <2>1. /\ post.at = "tell" /\ post.now \in Files /\ post'.at # "tell" /\ ~Delivery'
          /\ UNCHANGED <<mail, outbox, pending, new, work, batch, lane, agent, desk>>
          /\ mishaps \subseteq mishaps' /\ awake \subseteq awake'
        BY <1>2, Tells
    <2>2. Clean' => Clean
        BY <2>1, CleanBefore
    <2>3. CASE "deaf" \in mishaps'
        BY <2>3 DEF MasterTold, Clean
    <2>4. CASE /\ mishaps' = mishaps \/ "hasty" \in mishaps'
               /\ post.ok /\ Unblocked(mail[post.now].from) /\ mail[post.now].from # Recipient(post.now) =>
                     awake' = Woken(mail[post.now].from)
               /\ post.ok /\ post.now \in pending => "hasty" \in mishaps'
        <3>1. Files' = Files
            BY <2>1 DEF Files
        <3>2. mail[post.now].from = Master => post.ok
            BY <2>1 DEF Known, OnTheWay
        <3>3. ASSUME Clean', NEW m \in Files, Approving(m) PROVE Approving(m)'
            <4>1. "hasty" \notin mishaps'
                BY <3>3 DEF Clean
            <4>2. mail[m].from = Master
                BY <3>3 DEF Approving, HandoffInv, Kept
            <4>3. m \in outbox
                BY <2>4, <3>2, <3>3, <4>1, <4>2 DEF Approving
            <4> QED BY <2>1, <3>3, <4>3 DEF Approving
        <3>4. \A m \in new[Master] : Overlooked(m)' => Overlooked(m)
            BY <2>1 DEF Overlooked, Coming, Delivery
        <3>5. ASSUME NEW m \in new[Master], Overlooked(m)', Blocked PROVE Blocked'
            <4>1. CASE Outbound(Master) # {} \/ \E j \in Files : desk = <<"retry", j>>
                BY <2>1, <3>1, <4>1 DEF Blocked, Outbound
            <4>2. CASE mail[post.now].from = Master /\ Outbound(Master) = {}
                <5>1. batch[Master] = "none" /\ work[Master] = {} /\ agent[Master] = "rest"
                    BY <2>1, <3>5, EndsOfPack DEF Overlooked, Known, AgentTypes
                <5>2. Unblocked(Master)
                    BY <3>5, <4>2, <5>1 DEF Unblocked
                <5>3. Recipient(post.now) # Master
                    <6>1. ~mail[post.now].copy /\ mail[post.now].to = Address(Master) /\ mail[post.now].to = <<Recipient(post.now)>>
                        BY <2>1, <4>2, AddressedFields DEF Known, Placed
                    <6>2. Address(Master) = Recipients(Master) /\ Recipients(Master) # <<Master>>
                        BY EndsOfPack, OneSender DEF Address
                    <6> QED BY <6>1, <6>2
                <5>4. awake' = Woken(Master)
                    BY <2>4, <3>2, <4>2, <5>2, <5>3
                <5> QED BY <3>5, <5>1, <5>4 DEF Overlooked, Woken
            <4> QED BY <3>5, <4>1, <4>2 DEF Blocked
        <3> QED BY <2>1, <2>2, <3>1, <3>3, <3>4, <3>5, ToldStill
    <2> QED BY <1>2, <2>3, <2>4, Tells
<1> QED BY <1>1, <1>2

\* The commands: an agent of another role leaves the master alone.
LEMMA AgentTold ==
    ASSUME HandoffInv, Known, MasterTold, NEW r \in Roles, ReadyForNext(r) \/ DoneWithCurrent(r) \/ KillAgent(r)
    PROVE  MasterTold'
<1>1. UNCHANGED <<mail, outbox, pending, lane, post, desk>> /\ mishaps \subseteq mishaps'
    BY Commands
<1>2. OldMail /\ Files' = Files
    BY <1>1, SameMail DEF Files
<1>3. Clean' => Clean
    BY <1>1, CleanBefore
<1>4. DOMAIN agent = Roles /\ DOMAIN work = Roles /\ DOMAIN new = Roles /\ Master \in Roles
    BY RolesOfPack DEF Known, AgentTypes, HandoffInv, HandoffTypes
<1>5. \A m : (Approving(m) <=> Approving(m)') /\ (Coming(m) <=> Coming(m)')
    BY <1>1 DEF Approving, Coming
<1>6. Blocked <=> Blocked'
    BY <1>1, <1>2 DEF Blocked, Outbound
<1>7. CASE r # Master
    <2>1. /\ agent'[Master] = agent[Master] /\ work'[Master] = work[Master] /\ new'[Master] = new[Master]
          /\ Master \in awake' <=> Master \in awake
        <3>1. CASE ReadyForNext(r)
            BY <1>4, <1>7, <3>1, ReadyCases DEF ToldToWait, GoesOn, FindsNone, TakesWork, CutShort, Works, Dequeues
        <3>2. CASE DoneWithCurrent(r)
            BY <1>4, <1>7, <3>2, DoneCases DEF NotDone, AllDone, PartlyDone, Completed
        <3>3. CASE KillAgent(r)
            BY <1>4, <1>7, <3>3 DEF KillAgent, Inboxes
        <3> QED BY <3>1, <3>2, <3>3
    <2>2. \A m : Overlooked(m)' <=> Overlooked(m)
        BY <1>5, <2>1 DEF Overlooked
    <2> QED BY <1>1, <1>2, <1>3, <1>5, <1>6, <2>1, <2>2, ToldStill
<1>8. CASE r = Master
    <2>1. r \notin BatchRoles
        BY <1>8, EndsOfPack
    <2>2. agent'[Master] # "rest" => work'[Master] # {} \/ (agent[Master] # "rest" /\ work'[Master] = work[Master])
        <3>1. CASE ToldToWait(r) \/ NotDone(r) \/ AllDone(r) \/ KillAgent(r)
            BY <1>4, <1>8, <3>1 DEF ToldToWait, NotDone, AllDone, KillAgent
        <3>2. CASE GoesOn(r)
            BY <1>8, <3>2 DEF GoesOn
        <3>3. CASE FindsNone(r) /\ agent[r] = "rest"
            BY <1>8, <3>3 DEF FindsNone
        <3>4. CASE TakesWork(r)
            <4>1. new[r] # {} /\ Dequeues(r, Taken(r))
                BY <3>4 DEF TakesWork
            <4>2. Taken(r) # {}
                BY <2>1 DEF Taken
            <4>3. work'[r] = work[r] \cup Taken(r)
                BY <1>4, <4>1 DEF Dequeues
            <4> QED BY <1>8, <4>2, <4>3
        <3> QED BY <2>1, <3>1, <3>2, <3>3, <3>4, ReadyCases, DoneCases DEF CutShort, PartlyDone
    <2>3. Clean => (agent[Master] # "rest" => work[Master] # {})
        BY DEF MasterTold
    <2>4. Ambiguous(r) => work[r] # {}
        <3>1. work[r] = {} => Cardinality(work[r]) = 0
            BY FS_EmptySet
        <3> QED BY <2>1, <3>1 DEF Ambiguous
    <2>5. ASSUME Clean, NEW m \in new'[Master], Overlooked(m)' PROVE Blocked'
        <3>1. agent'[Master] = "rest" /\ Master \notin awake' /\ work'[Master] = {}
            BY <2>5 DEF Overlooked
        <3>2. CASE ToldToWait(r)
            <4>1. work[r] = {}
                BY <1>8, <3>1, <3>2 DEF ToldToWait
            <4>2. Outbound(Master) # {}
                BY <1>8, <2>4, <3>2, <4>1 DEF ToldToWait
            <4> QED BY <1>6, <4>2 DEF Blocked
        <3>3. CASE GoesOn(r) \/ TakesWork(r)
            BY <1>4, <1>8, <3>1, <3>3 DEF GoesOn, TakesWork, Works
        <3>4. CASE FindsNone(r)
            BY <1>8, <2>5, <3>4 DEF FindsNone
        <3>5. CASE DoneWithCurrent(r) /\ NotDone(r)
            <4>1. agent[r] # "rest" /\ work' = work
                BY <3>5, DoneCases DEF NotDone
            <4> QED BY <1>8, <2>3, <2>5, <3>1, <4>1
        <3>6. CASE AllDone(r)
            BY <1>8, <2>5, <3>1, <3>6 DEF AllDone
        <3>7. CASE KillAgent(r)
            BY <1>8, <3>1, <3>7 DEF KillAgent
        <3> QED BY <2>1, <3>2, <3>3, <3>4, <3>5, <3>6, <3>7, ReadyCases, DoneCases DEF CutShort, PartlyDone
    <2> QED BY <1>1, <1>2, <1>3, <1>5, <2>2, <2>5, ToldStill
<1> QED BY <1>7, <1>8

\* Every step keeps the master told.
LEMMA ToldKept == ASSUME HandoffInv, CopyInv, WakeInv, HandoffStep PROVE MasterTold'
<1>1. Known /\ HeldUnread /\ MasterTold
    BY DEF WakeInv
<1>2. CASE Poll
    <2>1. UNCHANGED <<mail, outbox, pending, lane, new, work, agent, awake, desk, mishaps>> /\ post.at = "idle"
          /\ post' = [post EXCEPT !.at = "next", !.todo = outbox]
        BY <1>2 DEF Poll, Directories, Inboxes, Agents
    <2>2. OldMail /\ post'.at # "file"
        BY <2>1, SameMail DEF HandoffInv, HandoffTypes, PostTypes
    <2>3. \A m : Coming(m) => Coming(m)'
        BY <2>1, <2>2 DEF Coming
    <2>4. Clean' => Clean
        BY <2>1, CleanBefore
    <2> QED BY <1>1, <2>1, <2>2, <2>3, <2>4, ToldUnchanged
<1>3. CASE KillDaemon
    <2>1. "daemon" \in mishaps'
        BY <1>3 DEF KillDaemon, Fault
    <2> QED BY <2>1 DEF MasterTold, Clean
<1>4. CASE (\E t \in Tasks : CreateTask(t)) \/ \E r \in Roles : Submit(r) \/ SendCopy(r)
    BY <1>1, <1>4, PostedTold
<1>5. CASE \E n \in pending : Approve(n) \/ Retry(n) \/ Delete(n)
    BY <1>1, <1>5, RequestTold
<1>6. CASE DeskEnds
    BY <1>1, <1>6, DeskTold
<1>7. CASE Take \/ Write \/ Wake \/ File \/ Tell
    BY <1>1, <1>7, TakeTold, DeliveryTold, FileTold
<1>8. CASE \E r \in Roles : ReadyForNext(r) \/ DoneWithCurrent(r) \/ KillAgent(r)
    BY <1>1, <1>8, AgentTold
<1> QED BY <1>2, <1>3, <1>4, <1>5, <1>6, <1>7, <1>8 DEF HandoffStep, Daemon

\* And so no wake-up is lost.
LEMMA WakeInvKept == HandoffInv /\ CopyInv /\ WakeInv /\ [HandoffStep]_handoffVars => WakeInv'
<1> SUFFICES ASSUME HandoffInv, CopyInv, WakeInv, [HandoffStep]_handoffVars PROVE WakeInv'
    OBVIOUS
<1>1. CASE HandoffStep
    BY <1>1, KnownKept, WholeKept, SeenKept, MailKept, HeldKept, ToldKept DEF WakeInv
<1>2. CASE UNCHANGED handoffVars
    <2>1. UNCHANGED <<mail, outbox, pending, failed, stamped, new, work, done, batch, lane, agent, unsent, awake,
                      refused, post, desk, mishaps>>
        BY <1>2 DEF handoffVars
    <2>2. OldMail /\ outbox' \subseteq outbox /\ (\A r \in Roles : Box(r)' = Box(r)) /\ AgentTypes' /\ (Delivery' <=> Delivery)
        BY <2>1, SameMail DEF Box, WakeInv, Known, AgentTypes, Delivery
    <2>3. Placed'
        BY <2>1, <2>2, PlacedStill DEF WakeInv, Known, Placed
    <2>4. OnTheWay' /\ Owed'
        BY <2>1, <2>2, StillOnTheWay, OwedSame DEF WakeInv, Known
    <2>5. Whole' /\ WorkSeen' /\ HeldUnread'
        BY <2>1, <2>2, WholeStill, SeenUnchanged, HeldUnchanged DEF WakeInv
    <2>6. MailSeen' /\ MasterTold'
        <3>1. \A m : Coming(m) => Coming(m)'
            BY <2>1 DEF Coming
        <3>2. Clean' => Clean
            BY <2>1, CleanBefore
        <3> QED BY <2>1, <2>2, <3>1, <3>2, MailUnchanged, ToldUnchanged DEF WakeInv
    <2> QED BY <2>2, <2>3, <2>4, <2>5, <2>6 DEF WakeInv, Known
<1> QED BY <1>1, <1>2

\* The invariant says more than the properties.
LEMMA WakeInvMeans == ASSUME HandoffInv, WakeInv PROVE AgentsServed
<1>1. Workable
    BY WholeMeansWorkable DEF WakeInv
<1>2. ASSUME NEW r \in Roles, NEW n \in new[r], Stranded(r, n), "deaf" \notin mishaps PROVE MayWait(r)
    <2>1. n \notin outbox /\ ~Gone(n) /\ agent[r] = "rest" /\ r \notin awake /\ work[r] = {}
          /\ desk = << >> /\ ~(post.at = "tell" /\ mail[post.now].from = r)
        BY <1>2 DEF Stranded, Gone
    <2>2. r \in refused
        BY <1>2, <2>1 DEF WakeInv, MailSeen, Aware, Coming
    <2>3. CASE r = Master /\ Clean
        <3>1. Overlooked(n)
            BY <2>1, <2>3 DEF Overlooked, Coming
        <3>2. Blocked
            BY <2>3, <3>1 DEF WakeInv, MasterTold
        <3>3. \A m : desk # <<"retry", m>>
            <4>1. \A m : << >> # <<"retry", m>>
                OBVIOUS
            <4> QED BY <2>1, <4>1
        <3> QED BY <2>1, <2>2, <2>3, <3>2, <3>3 DEF Blocked, MayWait
    <2>4. CASE r = Master /\ ~Clean
        BY <1>2, <2>2, <2>4 DEF Clean, MayWait
    <2>5. CASE r # Master
        BY <2>2, <2>5 DEF MayWait
    <2> QED BY <2>3, <2>4, <2>5
<1>3. NoLostWake
    BY <1>2 DEF NoLostWake
<1> QED BY <1>1, <1>3 DEF AgentsServed

(* Whatever the line of roles, its copies and the tasks, and whoever is killed
   between whichever two steps: mail of a task that was not deleted lies beside
   an idle agent that nobody is about to wake only if the agent was told to
   wait, the master only while the handoff that it waits for is on its way; and
   what a role has in process can be read and completed.  The excuses that
   remain are the ones named in MayWait, NoLostWake and Workable. *)
THEOREM AgentsStayServed == HandoffSpec => []AgentsServed
<1>1. HandoffInit => HandoffInv /\ CopyInv /\ WakeInv
    BY HandoffInitially, CopiesInitially, KnownInitially
<1>2. HandoffInv /\ CopyInv /\ WakeInv /\ [HandoffStep]_handoffVars => (HandoffInv /\ CopyInv /\ WakeInv)'
    BY HandoffStepKeeps, CopyStepKeeps, WakeInvKept
<1>3. HandoffInv /\ WakeInv => AgentsServed
    BY WakeInvMeans
<1> QED BY <1>1, <1>2, <1>3, PTL DEF HandoffSpec
=============================================================================
