# TLA+ models of youtube-translator

This directory holds TLA+ specifications of the subtitle translator in `src/`, the
TLC configurations that check them on small instances, and proofs checked by TLAPS.

    tlc -workers 2 -config DocumentJob_agents.cfg MCDocumentJob.tla
    tlc -workers 2 -config TranslationTeam_gate.cfg MCTranslationTeam.tla
    tlc -workers 2 -config MCParts.cfg MCParts.tla
    tlc -workers 2 -config Viewer_subtitles.cfg Viewer.tla
    tlapm DocumentJob_proofs.tla      # and JobDurability_proofs,
    tlapm TranslationTeam_proofs.tla  # Viewer_proofs, Sources_proofs, SharedFiles_proofs, Handoffs_proofs, Algorithms_proofs

## The system

| Part | Source | State | Interacts with |
|---|---|---|---|
| Agent worker | `worker/agent-worker.ts`, `worker/server.ts` | `jobs`, `pendingJobs`, credentials (memory); nothing durable of its own | HTTP API and internal HTTP server call it; it commits documents and tasks in pi-durable |
| Durable task | `worker/document-task.ts`, `token-budget.ts`, `job-document.ts` | checkpoint, `SubtitleJobDoc`, `DocumentResumeDoc` (durable); the chain of saves (memory) | runs the translation team, calls the model |
| Translation team | `worker/translation-team.ts`, `team-progress.ts` | children, revisions, acceptance, watchdog (in the checkpoint) | one loop per child, tool calls of the main agent |
| Subtitle agent | `worker/subtitle-agent.ts`, `translation-review.ts`, `validator.ts` | draft, notes, messages, validated revision | tools offered to the model |
| Job stream | `worker/document-stream.ts` | per-observer memory of what was sent | polls durable snapshots, feeds SSE |
| Storage ownership | `worker/storage.ts` | `<storage>.owner` file | one worker per database |
| HTTP API | `server/src/app.ts`, `streaming.ts`, `origin.ts` | `whisperActiveJobs`, `activeLegacyStreams` | extension, worker, cache |
| Subtitle cache | `server/src/cache.ts` | files, their times; `AsyncLock` | HTTP API |
| Legacy translation | `server/src/translate.ts` | a pool of requests | model provider |
| Ingestion, segmentation | `server/src/youtube.ts`, `audio.ts`, `transcribe.ts`, `subtitle-processing.ts` | none | yt-dlp, ffmpeg, Whisper |
| Extension | `extension/src/*` | subtitles, load generation, temporary translations | HTTP API (SSE), the player |
| SwarmForge handoffs | `swarmforge/scripts/src/handoff/*` | mailboxes on disk, sequence numbers | daemon, agents, board |
| SwarmForge locks | `swarmforge/scripts/src/core/lock.ts` | lock directories | every helper process |
| SwarmForge board, launcher, web | `swarmforge/scripts/src/{board,launcher,web}` | task rows, processes | daemon, browser |

What makes it hard: one document is submitted, watched, continued and cancelled by
several browsers at once; ten agents work on it in parallel against shared budgets and
one durable checkpoint; the worker may stop between any two steps; API keys live only in
memory and are dropped when a run ends; the browser merges three kinds of subtitles that
arrive in no fixed order; several processes share files under advisory locks.

What makes each part correct:

* worker and task: one live job per document; budgets never exceeded (requests) or only
  by calls in flight (tokens); no saved turn lost; publication whole, once, never after a
  cancellation; a failed job can be continued; everyone is answered; every job that has a
  budget ends;
* team: nothing is published that the main agent did not accept in its final revision,
  with every section submitted, exactly covering the source;
* stream, extension: what the viewer sees ends up being the publication, temporary and
  provisional text never replaces final text;
* locks, mailboxes: mutual exclusion, unique sequence numbers, no message lost.

## Modules

| Module | Models |
|---|---|
| `JobState` | constants, variables and data of one document job |
| `JobWorker` | `AgentWorker`: submission, lookup, continuation, creation, reads, cancellation |
| `DocumentTask` | the durable task: phases, agents' loops, saves, budgets, retries, publication, abort handler, restart |
| `DocumentJob` | both composed; the properties; fairness |
| `JobPromise` | the abstract specification of a document job |
| `MCDocumentJob` | symmetry sets of the TLC instances |
| `DocumentJob_proofs` | its inductive invariant: what each phase of the task holds; budgets, publication, cancellation |
| `JobDurability_proofs` | how a phase's copies of the workspace are ordered; previews, saved turns, token budgets; one job at a time; `DocumentJob` implements `JobPromise` |
| `SubtitleAgent` | a workspace and its file tools: drafts, saving, validation, submission |
| `Coverage` | when a dispatch covers the source |
| `TranslationTeam` | the main agent's tools, the watchdog, children's turns and their merges; the properties |
| `TeamPromise` | the abstract specification of a team |
| `MCTranslationTeam` | the tools used in the TLC instances |
| `TranslationTeam_proofs` | acceptance, evidence, the plan, merged sections; `TranslationTeam` implements `TeamPromise` |
| `TeamProgress`, `Dispatch` | pure algorithms: interval arithmetic of review evidence; the suggested dispatch and the host's check |
| `Algorithms_proofs` | the suggested dispatch of any document passes the check, which accepts exactly what covers the source; the intervals of review evidence stand for what was read; the cues of a timed track say its text |
| `SubtitleStream` | `POST /api/subtitle/stream` in both engines, the observer of the durable document |
| `PlaybackFallback` | temporary translations around the player's position, and the merging of subtitles |
| `ContentScript` | the content script: toggle, navigation, loads, retries, stream events |
| `Viewer` | the three composed; the properties; fairness |
| `Viewer_proofs` | what is on the wires, what is shown, who translates |
| `Ingestion` | `processSubtitleFlow`: requests that share the cache and one transcription |
| `SubtitleCache` | the cache's files and their times: reads beside writes, maintenance, eviction, clearing, restarts |
| `Segmentation` | timed text to cues: flattening, grouping by rules, lines, sentence boundaries |
| `CueRelay` | websocket connections of the legacy engine, cue by cue and in whole chunks, and the cache they share |
| `CaptionBridge` | the part of the extension that runs in the page: interception and polling of the player's captions |
| `StorageOwner` | the file that claims the worker's durable storage |
| `DirLock` | SwarmForge's directory lock and the handoff numbers it protects |
| `Handoffs` | SwarmForge's daemon, inbox commands, board and dashboard |
| `AuditGate` | the command that sends a handoff, and the audit it demands first |
| `Sources_proofs` | theorems about `Ingestion`, `SubtitleCache`, `CueRelay`, `CaptionBridge` |
| `SharedFiles_proofs` | theorems about `StorageOwner`, `DirLock`, `AuditGate` |
| `Handoffs_proofs` | no handoff lost or delivered again; no agent left idle beside its work |
| `MCHandoffs` | the pack of the TLC instance |
| `MCParts` | `TeamProgress`, `Dispatch` and the nine modules from `Ingestion` to `AuditGate`, in one run |

A document job appears at three levels. `TranslationTeam` has the team's tool protocol and
texts; `DocumentJob` has the job around it (attempts, saves, budgets, callers) and of the
team only who has how many turns to go; `SubtitleStream` has of the job only the document
other parts can see, changing as `JobPromise` allows.

The parts in `MCParts` share no state with one another, so a behaviour of that run belongs to
one of them (`part`) and the others keep their initial states: the run explores the sum of
their state spaces, not the product. Nothing is lost by that, since none reads what another
one writes; where two parts of the code do meet, the meeting point is in the modules: the
websocket's and the server's use of the cache is what `CueRelay` and `Ingestion` say of
entries that appear and vanish, and the number `DirLock` hands out is why `Handoffs` may take
the order of the file names for the order of sending.

### How `DocumentJob` corresponds to the code

There is one job key: every map of the worker is indexed by it and jobs of different keys
share nothing. A *conversation* is one durable record; a key gets a new one each time a job
is created from nothing. The variables are

* `doc`, `saved`, `task`: `SubtitleJobDoc`, `DocumentResumeDoc` and the task's state and
  checkpoint, changed only in commits, one action per commit;
* `job`, `sub`, `owner`, `credential`: the worker's `jobs` entry, each caller's progress
  through `submitDocumentJob` (a program counter between two awaits), the caller whose
  promise is in `pendingJobs`, and whether `documentCredentials` has the key;
* `frame`, `agent`, `saves`: the local variables of an executing `run` phase (`latest`, the
  live workspace, the error path), each agent's position in its loop, and the promise chain
  of checkpoint writes with the snapshots they hold;
* `signal`, `cleanup`, `cancelReq`: `runtime.signal` and the abort handler, the deletions of
  the key that follow a final commit, and callers waiting in `abortJob`.

The workspace is abstracted to the number of turns each child has completed, its failures,
whether the main agent has dispatched, the watchdog's counter and the stage. Display fields
(`stage`, `progress`, `error`, `failed_cues`, `final_result`) follow from these and are left
out; so is the in-memory `job.status`, which is overwritten from the document before use.

The durable engine (pi-durable) is a dependency, modelled from how the code relies on it:
commits are atomic; an interrupted phase reruns from its checkpoint; a task that is over
accepts no commit, which makes the branch `if (doc.cancelled)` of the publication
unreachable; aborting raises the signal and runs the abort handler; an abort that was
requested just before a restart may or may not have been recorded. Storage errors inside a
commit are not modelled. A scan of stored conversations is one step: its last await reads
the record that is then restored. The delay of a child's retry inside its loop is left out,
the durable backoff is a sleep that ends whenever it likes. Children have no watchdog in
the code, only the budgets: an answer may bring a child nearer to its submission or not
(`gain`), as often as the budgets let it. A job without any budget may therefore go on for
ever, in the code as in the model (the token budget is 20 million by default and is turned
off by 0); there `MaxCircles` bounds such answers.

### How `TranslationTeam` corresponds to the code

A main turn applies its tool calls one by one to a copy of the team and the copy is kept
when the turn ends. The variables `stage` to `guard` are that copy while a turn is `open`,
`checkpoint` is the team as last committed, and `TurnsLost` takes the team back to it.
`copies[k]` is the clone a child's turn works on (`advanceChild`); `ChildSaves` and
`ChildSubmits` put it back. A refused tool call changes nothing but the number of calls,
so all refusals are one action, `RefusedCall`, which is always possible: the model is free
to call anything. Positions stand for cues, model values for texts (`Blank` is an empty
translation, `Alien` a row for a cue that does not exist). Intervals of evidence are sets of
positions; that the code's intervals denote those sets is what `TeamProgress` checks (`EvidenceKept`).

`shown` and `approved` are history: the texts `read_bilingual` last returned and the draft
the main agent last accepted. The constant `Tools` chooses the tools an instance uses;
`MaxRevision`, `MaxEdits`, `MaxLost`, `MaxContinues` bound corrections, a child's edits, lost
turns and continuations, and are guards of the actions that count them. The heuristics of the
review checklist, searching, notes, and the compaction of messages only return text to the
model and are left out. What a failing child does to the job is in `DocumentTask`.

### How `Viewer` corresponds to the code

One viewer's page. A load is numbered by its generation (`loadGeneration`), and the
connection of its stream has the same number; a retry, or the switch to the player's
captions, opens the next connection of that load in the same place, after the previous one
has ended. `wire` is what the server has written and the page has not yet handled, in order
(SSE over one TCP connection). An aborted load leaves at most one event that had been read;
it is handled before the answer to any later request arrives.

* `page`, `load`: `location` (`None` for a page without a video), `settings.enabled`, and the
  local variables of `load()` with the await it is at. `FindVideo` is `findV` with its three
  occasions: another address, another video element, a changed setting (`loadedVideoId = ""`);
  since a setting may change at any time, `loadedVideoId` itself tells nothing apart. Every wait of a load ends at once when it is aborted, so a
  load that is no longer current has no step of its own, only events to ignore.
* `subtitles`, `position`, `fallback`: `subtitles`, the player's clock, and the
  `PlaybackFallback` object (`timer`, `active`, `retryAfter`, `stopped`).
* `connection`, `activeLegacyStreams`, `cache`, `document`: a request handler at its await,
  the set of the same name (naming the stream that registered), the translation cache, and the
  durable document.

Texts are versions: 0 is none, a correction of a previewed cue is the next number. Positions
and the window (10 s before, 45 s after) are counted in cues. Abstractions: one translation
profile per video; the engine (`mode`) does not change while the page is open; the legacy
cache does not expire (that is the cache's matter); no setting changes in the moment between
leaving a video for a page without one and `yt-navigate-finish`; once the client has left, an observer of a
document has nothing more to do and is over, while a legacy stream goes on until a write or
an abort tells it; a submission is made even if the client left during ingestion. The mode
without translation, the length limit of a window request and Whisper's own steps are left
out. The retry delay (3 s and more) is taken to be longer than the server needs to end a
stream it has already finished; a *toggle* is not: in legacy mode, off and on again quickly
finds the old stream registered and the new load fails. The extension has a branch for that
(`translation_already_running`, `content.ts:499`), and no server code sends that error code
(`app.ts:1197` sends none).

### How the server's parts correspond to the code

`Ingestion` has one step per await of `processSubtitleFlow` and one per await of the
transcription it starts. `asker[r]` is where a request is, or the name of the job it waits for;
`registered` is the entry of `whisperActiveJobs`, `settled` how a promise ended. Between the
lookup in the map and its `set` there is no await, so both are one step. `yt-dlp`, `ffmpeg` and
the speech model are outcomes: what they return, that they return nothing usable, or that they
fail. A cache whose entries go at any time (`ForgetArtefact`) stands for clearing, expiry and
eviction.

`SubtitleCache` has for every file its size, its two times and, as history, when its content was
written. The lock's holder is `keeper`; reads do not take the lock and are split at each of their
file operations. Listing a directory and looking at its files is one step, removing a file is one
step each. Metadata is the kind that expires, cues the kind that does not.

`CueRelay`: `relay[r]` is a connection at its await, with what it found cached (`known`), its
`working` copy and its failure count; a text is whole, part of a stream, failed or empty. All
cues have text: a cue of blanks is never translated, its translation stays empty, and such a
document is never completely cached. `translateWhole` is a step per chunk, with every answer a
provider can give. The document engine's connections only pass an observer's events on, which
`SubtitleStream` models.

`Segmentation` runs the three ways to make cues as functions of a transcript, which the run
builds segment by segment. A segment is its time, its kind (a word, the end of a sentence, a
`>>` mark, or noise that cleaning removes) and, for statistics, whether the gap before it scores
high; every combination is a transcript. The statistics themselves, and breaks by commas and
opening words, are left out: the first is what `high` leaves open, the others break a group as
a stop does. Words overlap in time in every way, also those statistics are made for, which come
from the raw track: the last word of a rolling caption lasts as long as the caption. A long
sentence is then split among the words of its time span (`subtitle-processing.ts:819`), which leaves
words out and says others twice; `TextKept` says exactly when it may (`Outlasting`, `Shadowed`), and that
the cues do not overlap all the same (`FixOverlaps`). Segments that share their start are merged by the code into the later one, whose text
replaces the earlier; the property says so (`Heard`). Starts do not go back (`SegmentsOK`): the
code nowhere sorts a track, and a track in which they do is not one it could segment in order.

`CaptionBridge` numbers the pollings, because a `setInterval` callback that awaits a fetch goes
on after its timer is cleared: such a fetch, of an earlier polling, stops whatever polling there
is (`bridge.ts:191`). `excused` is history; it records this and the other legitimate ends.

### How the files shared by processes correspond to the code

Every file operation is a step, and any process may be killed between two of them.

`DirLock`: `lockDir` is the directory with its owner file, under its own or a temporary name. Making
the directory, writing the temporary file and renaming it are three steps, as truncating the number file and
writing it are two. Before it writes, `writeFileAtomic` makes the directory once more if it has been
renamed aside (`fs-atomic.ts:8`), so that its process goes on, inside a directory it did not take; if the
directory goes away between the writing and the renaming, the process ends with an error (`failed`), and
its exit hook removes whatever is there. Ten seconds without an owner file make
an orphan: the model lets that happen only to a process that died, which is what the ten seconds
are for. `Reclaim` renames whatever is at the path by then, as the code does, so a waiter that was
slow can rename a live owner's directory aside; `lockHurt` records it and `NumbersUnique` holds
only without it. `StorageOwner` likewise records a live worker's removed file in `displaced`. Its
workers have different names: on one machine their names hold their process ids. Two containers
with one volume, both with process id 1, would have one name and take each other's file for
their own.

`Handoffs`: a handoff is a position in `mail`, and a directory a set of positions, so a move is
one step and a copy two. `post` is the daemon at its step of a pass over the outboxes; `agent[r]`
the agent of a role, `awake` those that will run `ready_for_next`, `batch[r]` the directory of a
batch role. `desk` is a request of the dashboard between two file operations. A handoff is written
first, then one copy after another to the earlier roles that the pack's propagation names (`unsent[r]`:
what the command has yet to write). A copy is merge-only (`back`), has the highest priority, moves no
card unless the terminal role sends it, and is answered by nothing. So is what the terminal role sends to the
master (`back` without `copy`). Fixed orders follow the code: the roles' worktrees, the master's being
the root, in each by file name, copies before the rest. A role sends one handoff per task, of one commit.
`mishaps` collects what went wrong, so that each property can say in which circumstances it holds. Left out:
priorities other than that of copies, several recipients of one handoff, notes between agents (other than the user's
note that starts a task), two files of one name, and stopping the daemon in order. Deleting an approval
removes its task's files and card one by one in the code (`actions.ts:345-361`) and in one step here, so a server
that dies in the middle of a deletion, or a daemon that reads what is half removed, is not explored.

`AuditGate` has the runs of one role's command and what the daemon, the dashboard and git do
around them. A candidate is everything `invocationFingerprint` and `auditCandidate` compare: the
draft, the headers filled in, the commit. The directory of audits is one set.

## Runs

| Run | Shows | Bounds |
|---|---|---|
| `agents` | budgets, saves, retries, previews, publication with two children in parallel | 2 children, 1 turn each, 1 retry, budgets 4 requests or 3 tokens, 2 submissions, 1 restart |
| `lifecycle` | callers racing to submit, continue, cancel and read; the system implements `JobPromise` | 2 callers, 3 submissions, 2 conversations, 1 cancellation, 1 restart |
| `settles` | every running job that has a budget ends | 2 children that may go round in circles, budgets of 5 requests and 3 tokens, 1 retry, 1 restart |
| `answers` | every caller and every cancellation is answered | 2 callers, 2 conversations, 1 cancellation |
| `team_gate` | only a complete text the main agent accepted is published; sections are merged whole; the team implements `TeamPromise` | 2 cues, 2 texts, an opening and a child, 1 edit, 3 revisions, 1 lost turn |
| `team_review` | evidence is about present texts; the plan survives; every main phase ends | 2 cues, 1 child, 2 revisions, 1 planning and 2 review turns, 1 lost turn, 1 continuation |
| `parts` | the properties of the eleven parts below | see below |
| `viewer` | what is shown is only improved, and whole when a load is done; streams exclude each other; nothing is asked for twice or for nothing; every load ends | 1 video, 2 loads, 2 cues, 1 preview per cue, 2 versions, 1 retry, 1 position |
| `lostkey`, `cancel`, `staleread`, `optin` | the disagreements below | as small as shows them |

What `parts` shows, part by part:

| Property | Says | Bounds |
|---|---|---|
| `EvidenceKept` | interval arithmetic denotes the sets it stands for, pages end up in one range, reviews resume at the first gap | 8 cues |
| `DispatchSound` | the suggested dispatch is accepted, and what is accepted covers the source | documents of 6 cues, plans of 3 sections for 4 cues |
| `DeliveredExactlyOnce` | no handoff gets lost; none is delivered again unless the daemon or the dashboard was killed half-way; copies are missing only of a sender that was killed | 3 roles, one that copies to the one before it and one with batches, 2 tasks, 4 handoffs, 1 fault |
| `TaskCarried` | every task that is not done is carried by a file that is not merge-only | the same |
| `AgentsServed` | an agent idles beside mail only if it was told to wait, the master only while its own handoff is on its way; what is in process can be completed | the same |
| `OutboxDrains` | the daemon empties the outboxes again and again | the same |
| `AuditedFirst` | a handoff is queued only by a run whose predecessor presented the same | 2 git drafts, a note, a faulty draft, 2 commits |
| `NumbersUnique`, `LockServes` | no number is drawn twice; a dead owner does not keep the others out, and who was usurped goes on | 3 processes |
| `OneOwner` | two workers own one storage only after one removed the other's file | 3 workers |
| `CacheSound` | no metadata is served beyond its time to live; the files fit the limit | 1 video, 2 entries, sizes 1 and 2 of 2, 3 ticks |
| `OneIngestion` | one transcription at a time, and nobody waits for one that does not exist | 3 requests, 2 chunks, 2 attempts |
| `CaptionsArrive` | a wanted video's captions are polled for until they come, and announced | 2 videos, 2 attempts, 1 capture kept, 3 pollings |
| `TextKept` | by rules and in lines every segment is in exactly one cue, in order; by statistics what is left out, repeated or out of order overlaps another word; cues do not overlap | 4 segments |
| `CachedIsWhole` | the cache holds whole translations of the first cues | 2 connections, 3 cues, chunks of 2 |

Three processes are the least for one to die, one to reclaim and one to be reclaimed from. Three
roles make both ends of a pack and a role between them, which reads single tasks and sends a copy
back, while the last reads batches; two tasks are the least for a batch, for one handoff to block
another, and for a wake-up to get lost; four handoffs carry one task round with its copy, or two to
the last role. Copies to several roles, of a role killed between two of them, are beyond this
instance; what is proved of handoffs (below) holds for every propagation. One fault at a time: two
independent kills in one hand-over are not explored. Four segments exceed every limit on groups, lines and
sentences in the cfg. The last tick lets an entry be written, expire and be touched.

Two children are enough for a save to overtake another and for a call to be in flight
while a sibling uses up a budget; one retry separates a first failure from the last; a
restart in between is the only one that matters because a restart forgets everything in
memory. Two cues and two sections are the least for which a section can be lost or
overwritten and a page can be part of the text; three revisions leave room for a correction
after the last merge and one after an acceptance, and two for a correction of what was
reviewed. Two loads are the least for an old stream
to answer a new load; two cues of one request let the document supply one of them while the
request is in flight. One position is enough: seeking changes which cues are asked for, and
drops a request with the same effect as its failure.

Every bound is a guard: `MaxConvs`, `MaxSubmits`, `MaxAborts`, `MaxCrashes` of `Create`,
`Submit`, `AbortJob`, `Restart`; the team's four as above; `MaxLoads` of `Begin`, `Versions` and
`Previews` of the document's corrections; `MaxMail` and `MaxFaults` of `Submit`, `CreateTask` and
every kill of `Handoffs`, `LastTick` of `PassTime`, `MaxPolls` of `Request`, `MaxSegments` of
`AddSegment`. Deadlock checking is off: when nobody submits, toggles
or corrects any more the system has nothing to do. Symmetry is used in safety runs only.

Fairness. `DocumentJob!FairSpec`: every step the worker has to take is weakly fair - a
submission in progress, a task and its agents, an abort handler. Callers, cancellations and
restarts are not. `Advance` is strongly fair: a backoff's due time is fixed when the failure is
recorded, so a woken task does not find it in the future again and again. `settles` assumes a
key in the server's environment: without one a task waits for credentials for ever, on purpose.
`TranslationTeam!FairSpec`: the host begins the main agent's turns, ends them (a turn's calls are
applied at once) and lets the watchdog stop it; what the model calls is not assumed.
`Viewer!FairSpec`: as long as the current load, its stream, or the job it watches can do
something, something of these happens - two event loops that keep running, and a job that
ends, which is `JobSettles` for a job that has a budget. Nothing is assumed of viewers, players, temporary translations or
old streams. `MCParts!Spec`: the daemon polls as long as it lives, and one that was killed is
started again with the swarm (`launcher/main.ts:65`); processes that wait for the directory lock try again every
50 ms; agents, users and kills have no fairness.

### Disagreements found

* `lostkey`: `document-task.ts:167` deletes the key after the commit that makes the job
  continuable. A caller who continues it in between loses the key it just supplied, and the
  continued task sleeps in `awaiting_credentials` without any restart. If nobody submits again
  it stays there.
* `cancel`: `abortJob` acknowledges a cancellation of a job that is not running (or whose
  continuation is committed but not yet in `jobs`), and leaves its checkpoint, or the
  continuation, alone; the documentation says that a cancellation clears it.
* `staleread`: the internal server's `GET /internal/jobs/:id` with the id of an older job
  of the same key puts that job's record in `jobs`. If it was cancelled, the next submission
  starts a second job next to the one running, and the running one can no longer be aborted.
  All other runs set `ReadOld = FALSE`: clients read only the newest job. The theorems hold
  for both, except `OneJobAtATime` and `JobKeepsPromise`, which this run refutes for
  `ReadOld = TRUE` and which therefore say `ReadOld = FALSE`.

* `optin`: the content script looks for a video at every mutation of the page. YouTube changes
  the address before it announces `yt-navigate-finish`, and until then the toggle of the previous
  video is on: the new video's tracks are requested, and its translation may be, although
  comments and the user manual say that every newly opened video starts off.

### Behaviours worth knowing

Found while modelling; the properties name them as their exceptions where they touch them.

* A sender that is killed after its handoff and before the copies of it runs its command again when it is
  restarted. If the daemon has delivered the handoff by then, it is refused as a duplicate (`send.ts:449`), and
  the copies with it, which `swarmforge.conf:4` says are queued.
* An agent that has mail after it completes its work runs `ready_for_next` at once, as the rules for agents
  demand (`handoffs.prompt:82`), and is told to wait while its own handoff is in the outbox. Only the sender of
  an *approved* handoff, which is the master, is woken when that has been delivered (`daemon.ts:249`): any other
  role idles beside its mail until something else arrives for it. The master, told to wait for the approval of
  one task, is not woken when that task is deleted either (`actions.ts:345`).
* A part of a long sentence can start with the first word of the next sentence, when that overlaps it; the fix
  of overlapping cues then ends it where it starts (`subtitle-processing.ts:844`), and the worker accepts no
  document with such a cue (`subtitle-agent.ts:43`).
* A wake-up that fails files the message as failed although its recipient already has it, and the
  recipients after it never get it (`daemon.ts:277`, `:295`).
* A daemon killed between delivery and filing delivers again. A batch role that gets a handoff it
  has completed, as the first of a batch, has that file for its current task, whose handoff is a
  duplicate: it completes the batch without sending anything of it.
* A sender whose own handoff blocks it is woken when that is delivered after approval. When it fails,
  nothing wakes the sender (`daemon.ts:248`).
* A copy to a role that is at work on the same task waits in its inbox until the work is completed, and a batch
  of copies hands nothing on. The card of a task the terminal role reports is done with the first of its files
  that is delivered, which is a copy.
* A retry on the dashboard that meets the sender's own command can lose the task from its
  worktree, or leave two tasks in process, which every command then refuses (`actions.ts:322`).
  Deleting a task another role is working on leaves an empty batch behind with the same effect,
  and so does a command killed while it moves a batch (`queue.ts:88`, `:144`).
* The check for duplicates looks at held, sent and delivered handoffs, not at the outbox: a sender
  killed after queueing may queue the same handoff again (`send.ts:415`).
* A server killed between the card and the note leaves a task nobody was told of (`actions.ts:36`).
* A failing `mkdtemp` leaves a rejected promise registered: every later request for that video
  fails until the server restarts (`app.ts:658`). A request that looked into the cache before a
  transcription finished, and into the map after, starts another one.
* A slower websocket connection writes its shorter prefix over the longer one of a faster
  connection (`websocket.ts:144`); a stream that ends without `[DONE]` counts as complete
  (`translate.ts:322`).
* A long sentence of overlapping words loses words, or says its neighbour's (`subtitle-processing.ts:819`).
* Merging a short sentence forward drops the boundary after it too (`mergeShortSentences`).

## Theorems

Every theorem is about a specification `Init /\ [][Next]_vars` without fairness and holds for
every value of the constants that satisfies the named assumptions of the modules: numbers are
natural numbers, special values (`None`, `Nothing`, `Nobody`, `Blank`, ...) differ from the ordinary
ones, and what the code counts is finite. Nothing else is assumed, except where it is said below. No
property is inductive as it stands. The largest invariants, `Inv` of `DocumentJob_proofs` and
`ViewInv` of `Viewer_proofs`, and the parts of `WakeInv` of `Handoffs_proofs`, were checked with TLC on the instances above
before they were proved.

### A document job

`DocumentJob_proofs` (from `ConstantsOK` and `NoneIsNoWork`): `TypeCorrect`,
`RequestBudgetIsKept`, `PublicationWhole`, `CancellationFinal`, `FailureKeepsTheDraft`. That
requests stay within the budget needs to know that an attempt is counted only when checked in
the same commit and that a continuation rechecks it; that a publication is whole needs to know,
at every moment of a phase, that the checkpoint, `latest`, the live workspace and every queued
snapshot are *whole* (a workspace at stage `publish` has every section submitted). The invariant
`Inv` says so, conversation by conversation (`ConvInv`): which agents are active at which point
of a phase, what a phase's saves hold, what a document's status says of the task. `LocalStep`
reduces a step to the conversation it changes, one lemma per action shows that it is preserved,
and `Invariance` follows.

`JobDurability_proofs`: `PreviewDurable`, `TurnsAreKept`, `TokensAreBounded`,
`AllowanceIsExplicit`. `Durable` orders the copies of a workspace: the checkpoint, the last save,
the queued snapshots in their order, and the live workspace each have every turn of the one
before. That makes the snapshot a save writes late harmless, and a turn that was saved
survives every step (`TurnsAreKept` is an action property: `Durable` and the step give it).
The token bound needs `InFlight`: what is spent, plus the most that every call let through
may still cost, stays below the limit plus one call per child; each call was let through while
the budget was not used up, and the main agent and its children never call at the same time.

In the same module, for `ReadOld = FALSE`: `OneJobAtATime`, and `JobKeepsPromise`, that
`DocumentJob` implements `JobPromise`. A new job is created by a submission that found every
earlier one cancelled; `Single` makes that finding hold until the commit: only the caller in
`pendingJobs` is submitting, conversations are used in order and each but the last is
cancelled, the record in memory is of the newest one, and what a submission found is still so.
For the refinement, `Durable` makes the promise's view of a job (its submitted sections) equal
to the document's previews, and every step is then the promise's step of one conversation or
a stutter.

### A team

`TranslationTeam_proofs` (from `ConstantsOK` and `TextsOK`): `TypeCorrect`,
`PublicationAccepted`, `EvidenceCurrent`, `PlanIsKept`, `SectionsAreMerged`,
`TeamKeepsPromise`. Main turns change the team, children merge into it, and it goes back to its
checkpoint when a turn is lost. Two of the properties need one fact of both the present team and
the checkpoint, `Sound(t)`: a validation or acceptance of the present revision is of the present
draft, evidence of the present revision is of texts as they were shown, and `publish` is
reached only from there. That a merge or a correction voids old evidence needs that
all evidence speaks of at most the present revision, and that every change of the draft raises
it; a lost turn takes the draft and the evidence back together. `TurnsOK` says that only running
children have a turn, which makes a merge concern a section nobody has submitted.

`SectionsAreMerged` needs `AssemblyInv`: in the team and in its checkpoint alike the sections of
the children are disjoint and cover the source, every submitted child has exactly its section,
the revision is at least the number of submissions, and equal to it only while the
draft is nothing but theirs. With that the team implements
`TeamPromise`, section by section. `PlanIsKept` follows from `PlanInv`: the team at work has
the checkpoint's plan and coverage.

### The suggested dispatch

`Algorithms_proofs` (from `DispatchOK`: limits are positive, and `PerAgent` is at least twice
`Window + 1`, which 160 and 6 are): `SuggestionPassesCheck`, for documents and plans of any
length. The theorem is about `DispatchSpec`, but the work is about two folds. The
library's definition of a fold is a recursive function on sets of positions; `FoldExists` shows
that there is one, and `FoldOnPrefixes` that its values on prefixes follow each other by the
fold's step. Induction over prefixes is `UpToBound`, over a set instead of a predicate, and comes
from the least element that a nonempty set of naturals has. Then:

* `AcceptedIsCovering` and `CoveringIsAccepted`: a cursor that was refused stays refused; one that
  never was leaves every section behind it and no cue out. Conversely, ordered intervals
  that leave no cue out follow each other without a gap.
* `OpeningAllowed`: the first cue that ends late enough comes later for a later time, so the
  suggested opening lies in its own range.
* `Room` and `EvenGap`: with more than one section each gets at least `Window + 1` cues, so
  the even boundaries are further apart than a boundary may move. `CursorAdvances`: the cursor
  never passes the next even boundary, and the last boundary is the last cue.

### The evidence of reviews

In the same module, for documents of any length: `EvidenceIsKept`. The inductive invariant is
`Apart`, that no interval is empty and each ends before the next one starts, with a gap between them;
this form is what `PagesInOneRange` and `ResumesAtFirstGap` need, and what the code's readers
rely on. `Ordered`: the stable sort puts every interval at exactly one place, by counting those
that precede it. `Merged`: folding what is sorted keeps what has been merged apart, and loses no
position. `PiecesAre` and `Removed`: cutting an interval keeps the pieces behind each other and
between its ends, so that the pieces of all intervals are apart. `Counted`: intervals that are apart
are counted once.

### The text of the cues

Also there, from `SegmentsOK` (starts do not go back, a segment lasts, a sentence may last):
`WordsAreKept`, for tracks of any length, overlapping as they like, and any choice of the limits. The invariant of the track is
`SegmentInv`: places count up and starts do not go back. That every cue text then says what is heard is a property of functions, and each
of them is a fold of its own:

* `FlattenedKept`: after `i` segments (`PreparedTo`) the one held is the `i`-th, unless it is noise, and
  what was heard before it is kept and over when it starts; holding cuts ends short, so that the
  flattened text is `Timely`, whatever overlapped before.
* `GroupedJoins`, `LinesJoin`, `FormatJoins`: placing a segment appends it to what the groups say when
  they are joined (`GroupGrows`). A group is a block of consecutive segments (`FlatBlock`); what starts within its time
  is exactly that block (`StartsIsPart`, with the strict bound of `subtitle-processing.ts:312`), so that grouping it
  again says the same.
* `BoundariesFound`, `BoundariesMerged`: boundaries grow strictly and lie between two words (`IsBounds`), also
  when the best gap since the start of a sentence is taken instead of the current one. Merging drops boundaries and
  moves none. `SentencesAre`: sentences cut at such boundaries join to the words (`FlatCuts`).
* `SplitSays`: of a sentence that is too long, what is within its time leaves out only words that a later one ends
  before, and takes in only words that one in front lasts as long as, or a later one starts with (`WithinSays`, from
  what choosing words does, `ChosenArePicked`); equal parts with a shorter last one leave nothing of it out
  (`EvenParts`). `PartsSayAll`: so do all sentences together, and what is in neither case is in order.
* `CuesApart`: cutting each cue at the start of the next one keeps them apart, whatever is in them.

### A viewer

`Viewer_proofs` (from `StreamOK`, `WindowOK`, `ScriptOK`): `ShownIsAlwaysWhole`,
`OneStreamAtATime`, `RequestsAreUseful`, `NothingGetsWorse`. The invariant `ViewInv` follows the
events from the server to the page. On every wire they are `Truthful` (a final text is the
document's), and a failure is the last event. On the wire of the current load
they are in source order: an event comes after all earlier cues, known or ahead of it on the
wire, so the page never has a hole (`Feed`). Once a document's stream is done, every cue of the
publication is shown or on its way. In legacy mode what is shown is cached, unless the stream is
doomed (its last event is an error); this is why a retry submits only the rest. `Attached` says
which streams can still reach the page: of earlier loads, none. `LegacyInv` bounds the failures
of a stream by its cues and has exactly the registered stream translate. `NothingGetsWorse`
further needs `LegacyOnly`: in legacy mode nothing of a document is ever shown, so that a
legacy result, which overwrites, overwrites nothing better.

### The server's parts and the page

Each of these parts has a specification of its own (`IngestSpec`, `CacheSpec`, `RelaySpec`,
`BridgeSpec`, `OwnerSpec`, `LockSpec`, `GateSpec`, `HandoffSpec`), which the theorems are about.
The run `parts` checks the same initial states and steps, one part per behaviour.

`Sources_proofs`:

* `OneTranscription`, for any number of requests: a job that runs is the registered one, and
  whoever waits, waits for one that runs or is over (`JobsKnown`).
* `CacheIsSound`, for any number of videos and sizes. The volume is a sum over the files, and the
  sum's lemmas come first: that it is well defined on every finite set (by a smallest set for which
  it is not), and what removing or changing one file does to it. `Sized` says at which point of a
  write or an eviction the files fit; `Aged` and `ReadAged` that no file is dated later than its
  content and that a reader's metadata was fresh when it asked, which the touch of a read,
  racing with a write, must not undo.
* `CachedWhole`, for any number of connections and cues: cue by cue, a connection has whole texts of
  all cues before the next one unless one of them has failed, and nothing of those after it; with whole
  chunks, only a complete translation is about to be cached.
* `CaptionsAreFollowed`, for any videos, pollings and captures kept: a video has one capture;
  fetches carry the number of the polling they belong to, which is the present one only for the
  same video.

`SharedFiles_proofs`, for any number of processes: `StorageHasOneOwner` (an owner is named in the
file, unless some live worker's file was removed), `NumbersAreUnique` (who is inside made the
directory; no number given out exceeds the one in the file, or the one being written to it), `AuditComesFirst` (what is recorded as audited is what the run before presented).

### Handoffs

`Handoffs_proofs` is about any pack of roles, any propagation and any tasks. `HandoffsDelivered` rests on `Kept`: a
handoff is in a directory where it is looked for, a sent one in its recipient's inbox, and the one
being delivered is in the inbox before it is filed. `Waiting`, as long as neither the daemon nor
the dashboard was killed half-way: what is in an outbox or held is in no inbox, and what an
approval copies is not delivered again. `CopyInv`: every copy of what a role has handed on is written, or
is one of those its command has yet to write, and a command with copies to write has neither ended nor
begun anew, unless it was killed.

`AgentsStayServed` says that nobody is left behind. Neither of its two parts is inductive; the invariant is
`WakeInv`, which holds in every state, whatever is killed, beside `HandoffInv` and `CopyInv`:

* `Known`: whose files are where, and which of them is on its way; `Whole`: what a role has in process is one
  task or an open batch, unless its own command, or a request of the dashboard, was cut short. This gives `Workable`.
* `WorkSeen` and `MailSeen`: an idle agent with work or mail will look at it, was refused, or the daemon has the
  message still to deliver, to file or to tell its sender of; `HeldUnread`: what an agent is refused for has not been
  delivered yet, so that its delivery wakes the agent.
* `MasterTold`, as long as nothing went wrong and no task is deleted: the master that overlooks mail has a handoff
  of its own on its way, the daemon is about to tell it of one, or a retry will. It needs that an approved
  handoff is still the one the daemon reads, that an agent at work has work, and what `senderReadyWork` looks at.
  These give `NoLostWake`, whose exceptions (`MayWait`) are the agents that the code leaves waiting.

Two assumptions are needed here (`PackShape`), and TLC shows why. With a pack of a single role,
which hands on to itself, `NoLostWake` is violated: it is woken for its own handoff before the
daemon has filed that, is refused, and nothing wakes it again. With a batch role that is not the
last, `TaskCarried`, which the runs check, is violated: it sends one handoff and completes the whole batch, and the other
tasks of the batch have no file any more (`queue.ts:144`). The packs of the repository have neither. The
rest of `PackShape` is what `context.ts:178` checks, and that no role is named like a column.

### Only model-checked

All liveness (`JobSettles`, `SubmissionAnswered`, `CancellationAnswered`, `MainPhaseEnds`,
`LoadSettles`, `OutboxDrains`, `LockServes`), which is out of the prover's reach. `TaskCarried`: it depends on the
whole history of a task, of its handoffs and of the copies of each, and is checked in `parts`.

## Plan

Done: every component of the table above whose state changes under concurrency, failure or
retries; a theorem for every invariant and every action property of the passing runs but `TaskCarried`.
Left: a proof of `TaskCarried`.

### Not modelled

* Gap statistics, boundary scores, text cleaning and language classification: data, whose every
  outcome `Segmentation` explores at its boundaries.
* Hashing of job keys and cache profiles, URL policies, request validation, error formatting:
  functions of their input.
* Wrappers of `yt-dlp`, `ffmpeg`, the speech model and the model providers beyond their outcomes.
* SwarmForge's launcher, terminals, window watchdog, pane capture and the dashboard's pages:
  they start processes and render what the files say.
* Options, background script and rendering of the extension; build scripts, acceptance features
  and tests.
