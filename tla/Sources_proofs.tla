--------------------------- MODULE Sources_proofs -----------------------------
(***************************************************************************)
(* Proofs about where a video's subtitles come from, and what concurrent   *)
(* requests share of them: the one transcription, the cache of artefacts,  *)
(* the cached translations, and the captions of the page; for any number   *)
(* of requests, videos, cues and retries.                                  *)
(***************************************************************************)
EXTENDS Ingestion, SubtitleCache, CueRelay, CaptionBridge, FiniteSetTheorems, SequenceTheorems, WellFoundedInduction, TLAPS

-----------------------------------------------------------------------------
(* The shared transcription. *)

RunningJob ==
    [at : {"tmpdir", "audio", "put", "finally"}]
        \cup [at : {"chunk"}, chunk : Int, timed : BOOLEAN, attempt : Int]

IngestTypes ==
    /\ asker \in [Requests -> Places \cup Requests]
    /\ whisperJobs \in [Requests -> RunningJob \cup {JobIdle}]
    /\ registered \in Requests \cup {Nothing}
    /\ settled \in [Requests -> {Nothing, "done", "failed"}]

\* The job that runs is the registered one; a registered one that does not run
\* is over; and so is, or runs, one that a request waits for.
JobsKnown ==
    /\ \A r \in Requests : whisperJobs[r] # JobIdle => registered = r
    /\ registered # Nothing => whisperJobs[registered] # JobIdle \/ settled[registered] # Nothing
    /\ \A r \in Requests :
          asker[r] \in Requests => whisperJobs[asker[r]] # JobIdle \/ settled[asker[r]] # Nothing

IngestInv == IngestTypes /\ JobsKnown

\* No video is ingested at the start.
LEMMA IngestInitially == IngestInit => IngestInv
BY RequestsOK DEF IngestInit, IngestInv, IngestTypes, JobsKnown, Places, Nothing

\* A running job is one, and stays one when its fields change.
LEMMA RunningIsNotIdle == JobIdle \notin RunningJob
BY DEF JobIdle, RunningJob

\* What a running job may become after a chunk, or a try of one.
LEMMA NextChunk ==
    ASSUME NEW job \in RunningJob, job.at = "chunk"
    PROVE  /\ [at |-> "chunk", chunk |-> job.chunk + 1, timed |-> TRUE, attempt |-> 1] \in RunningJob
           /\ [job EXCEPT !.attempt = @ + 1] \in RunningJob
           /\ [job EXCEPT !.timed = FALSE, !.attempt = 1] \in RunningJob
           /\ [at |-> "put"] \in RunningJob
<1> DEFINE Chunk1 == [at : {"chunk"}, chunk : Int, timed : BOOLEAN, attempt : Int]
<1>1. job \in Chunk1 /\ Chunk1 \subseteq RunningJob
    BY DEF RunningJob
<1>2. job.chunk \in Int /\ job.attempt \in Int /\ job.attempt + 1 \in Int /\ job.chunk + 1 \in Int
    BY <1>1
<1>3. [at |-> "chunk", chunk |-> job.chunk + 1, timed |-> TRUE, attempt |-> 1] \in Chunk1
    BY <1>2
<1>4. [job EXCEPT !.attempt = @ + 1] \in Chunk1
    BY <1>1, <1>2
<1>5. [job EXCEPT !.timed = FALSE] \in Chunk1
    BY <1>1, Zenon
<1>6. \A j \in Chunk1 : [j EXCEPT !.attempt = 1] \in Chunk1
    OBVIOUS
<1>7. [job EXCEPT !.timed = FALSE, !.attempt = 1] \in Chunk1
    BY <1>5, <1>6, Zenon
<1>8. [at |-> "put"] \in RunningJob
    BY DEF RunningJob
<1> QED BY <1>1, <1>3, <1>4, <1>7, <1>8

\* What it may become before the first chunk.
LEMMA FirstChunk ==
    /\ [at |-> "chunk", chunk |-> 1, timed |-> TRUE, attempt |-> 1] \in RunningJob
    /\ [at |-> "tmpdir"] \in RunningJob /\ [at |-> "audio"] \in RunningJob
    /\ [at |-> "put"] \in RunningJob /\ [at |-> "finally"] \in RunningJob
BY DEF RunningJob

\* A request that goes on, and waits for nobody, disturbs nothing.
LEMMA AskingKeeps ==
    ASSUME IngestInv, NEW r \in Requests, NEW to \in Places,
           asker' = [asker EXCEPT ![r] = to], JobsSame
    PROVE  IngestInv'
BY RequestsOK DEF IngestInv, IngestTypes, JobsKnown, JobsSame

\* Nor does a job that goes on.
LEMMA WorkingKeeps ==
    ASSUME IngestInv, NEW r \in Requests, NEW job \in RunningJob,
           whisperJobs[r] # JobIdle, whisperJobs' = [whisperJobs EXCEPT ![r] = job],
           UNCHANGED <<registered, settled>>, JobOnly
    PROVE  IngestInv'
BY RunningIsNotIdle DEF IngestInv, IngestTypes, JobsKnown, JobOnly

\* A job that ends, and is forgotten, has settled.
LEMMA EndingKeeps ==
    ASSUME IngestInv, NEW r \in Requests, NEW how \in {"done", "failed"},
           whisperJobs[r] # JobIdle, whisperJobs' = [whisperJobs EXCEPT ![r] = JobIdle],
           Unregister(r, how), JobOnly
    PROVE  IngestInv'
<1> USE RequestsOK DEF IngestInv, IngestTypes, JobsKnown, JobOnly, Unregister
<1>1. how # Nothing
    BY DEF Nothing
<1>2. IngestTypes'
    OBVIOUS
<1>3. \A q \in Requests : whisperJobs'[q] = JobIdle
    OBVIOUS
<1>4. \A q \in Requests : settled[q] # Nothing => settled'[q] # Nothing
    BY <1>1
<1>5. \A q \in Requests : whisperJobs[q] # JobIdle => q = r
    OBVIOUS
<1> QED BY <1>1, <1>2, <1>3, <1>4, <1>5

\* The invariant of the ingestion is inductive.
LEMMA IngestStepKeeps == ASSUME IngestInv, [IngestStep]_ingestVars PROVE IngestInv'
<1>1. CASE UNCHANGED ingestVars \/ ForgetArtefact
    BY <1>1 DEF ingestVars, ForgetArtefact, JobsSame, IngestInv, IngestTypes, JobsKnown
<1>2. ASSUME NEW r \in Requests,
             \/ ReadMetadata(r) \/ FetchMetadata(r) \/ ChooseTrack(r) \/ ReadCues(r) \/ ReadJson3(r)
             \/ DownloadJson3(r) \/ ParseJson3(r) \/ SegmentCues(r) \/ ReadTranscript(r)
             \/ TakeTranscript(r)
      PROVE  IngestInv'
    <2>1. JobsSame /\ \E to \in Places : asker' = [asker EXCEPT ![r] = to]
        BY <1>2 DEF ReadMetadata, FetchMetadata, ChooseTrack, ReadCues, ReadJson3, DownloadJson3,
                    ParseJson3, SegmentCues, ReadTranscript, TakeTranscript, Asks, Places
    <2> QED BY <2>1, AskingKeeps
<1>3. ASSUME NEW r \in Requests, JoinJob(r) PROVE IngestInv'
    BY <1>3, RequestsOK DEF JoinJob, JobsSame, IngestInv, IngestTypes, JobsKnown
<1>4. ASSUME NEW r \in Requests, StartJob(r) PROVE IngestInv'
    <2>1. \A q \in Requests : whisperJobs[q] = JobIdle
        BY <1>4, RequestsOK DEF StartJob, IngestInv, IngestTypes, JobsKnown
    <2>2. whisperJobs' = [whisperJobs EXCEPT ![r] = [at |-> "tmpdir"]] /\ [at |-> "tmpdir"] # JobIdle
        BY <1>4 DEF StartJob, JobIdle
    <2>3. IngestTypes'
        BY <1>4, <2>2, FirstChunk DEF StartJob, IngestInv, IngestTypes
    <2>4. JobsKnown'
        BY <1>4, <2>1, <2>2 DEF StartJob, IngestInv, IngestTypes, JobsKnown
    <2> QED BY <2>3, <2>4 DEF IngestInv
<1>5. ASSUME NEW r \in Requests, MakeTmpDir(r) PROVE IngestInv'
    <2>1. whisperJobs[r].at = "tmpdir" /\ JobOnly /\ registered' = registered
        BY <1>5 DEF MakeTmpDir, JobGoes
    <2>2. whisperJobs[r] # JobIdle
        BY <2>1 DEF JobIdle
    <2>3. CASE whisperJobs' = [whisperJobs EXCEPT ![r] = [at |-> "audio"]] /\ UNCHANGED settled
        BY <2>1, <2>2, <2>3, FirstChunk, WorkingKeeps
    <2>4. CASE /\ whisperJobs' = [whisperJobs EXCEPT ![r] = JobIdle]
               /\ settled' = [settled EXCEPT ![r] = "failed"]
        <3>1. "failed" # Nothing
            BY DEF Nothing
        <3> QED BY <2>1, <2>4, <3>1 DEF JobOnly, IngestInv, IngestTypes, JobsKnown
    <2> QED BY <1>5, <2>3, <2>4 DEF MakeTmpDir, JobGoes
<1>6. ASSUME NEW r \in Requests, JobFails(r) PROVE IngestInv'
    <2>1. whisperJobs[r] # JobIdle
        BY <1>6 DEF JobFails, JobIdle
    <2> QED BY <1>6, <2>1, EndingKeeps DEF JobFails
<1>7. ASSUME NEW r \in Requests, SplitAudio(r) \/ TranscribeChunk(r) \/ KeepTranscript(r)
      PROVE  IngestInv'
    <2>1. whisperJobs[r] # JobIdle
        BY <1>7 DEF SplitAudio, TranscribeChunk, KeepTranscript, JobGoes, JobIdle
    <2>2. whisperJobs[r] \in RunningJob
        BY <2>1 DEF IngestInv, IngestTypes
    <2>3. UNCHANGED <<registered, settled>> /\ JobOnly
        BY <1>7 DEF SplitAudio, TranscribeChunk, KeepTranscript
    <2>4. \E job \in RunningJob : whisperJobs' = [whisperJobs EXCEPT ![r] = job]
        <3>1. CASE SplitAudio(r) \/ KeepTranscript(r)
            BY <3>1, FirstChunk DEF SplitAudio, KeepTranscript, JobGoes
        <3>2. CASE TranscribeChunk(r)
            <4>1. whisperJobs[r].at = "chunk"
                BY <3>2 DEF TranscribeChunk, JobGoes
            <4> QED BY <2>2, <3>2, <4>1, NextChunk DEF TranscribeChunk, JobGoes
        <3> QED BY <1>7, <3>1, <3>2
    <2> QED BY <2>1, <2>3, <2>4, WorkingKeeps
<1>8. ASSUME NEW r \in Requests, FinishJob(r) PROVE IngestInv'
    <2>1. whisperJobs[r] # JobIdle
        BY <1>8 DEF FinishJob, JobGoes, JobIdle
    <2> QED BY <1>8, <2>1, EndingKeeps DEF FinishJob, JobGoes
<1> QED BY <1>1, <1>2, <1>3, <1>4, <1>5, <1>6, <1>7, <1>8 DEF IngestStep

\* No two transcriptions run at a time, and a request only ever waits for one
\* that runs or is over, for any number of requests (app.ts:650).
THEOREM OneTranscription == IngestSpec => []OneIngestion
<1>1. IngestInv => OneIngestion
    <2> SUFFICES ASSUME IngestInv PROVE OneIngestion
        OBVIOUS
    <2> DEFINE busy == {r \in Requests : whisperJobs[r] # JobIdle}
    <2>1. busy = {} \/ busy = {registered}
        BY DEF IngestInv, JobsKnown
    <2> HIDE DEF busy
    <2>2. Cardinality(busy) = 0 \/ Cardinality(busy) = 1
        BY <2>1, FS_EmptySet, FS_Singleton, Zenon
    <2>3. Cardinality(busy) <= 1
        BY <2>2
    <2> QED BY <2>3 DEF IngestInv, JobsKnown, OneIngestion, busy
<1>2. IngestInv /\ [IngestStep]_ingestVars => IngestInv'
    BY IngestStepKeeps
<1> QED BY IngestInitially, <1>1, <1>2, PTL DEF IngestSpec

-----------------------------------------------------------------------------
(* Sums over finite sets.  The sum of the sizes is a recursive function that
   takes one element after another; induction is over a set of counterexamples,
   which would have a least one. *)

Pick(s) == CHOOSE x \in s : TRUE

IsSum(g, w, E) ==
    g = [s \in SUBSET E |-> IF s = {} THEN 0 ELSE w[Pick(s)] + g[s \ {Pick(s)}]]

\* A set of numbers has a least one.
LEMMA LeastNumber ==
    ASSUME NEW T \in SUBSET Nat, T # {}
    PROVE  \E n \in T : \A m \in T : n <= m
<1>1. \E n \in T : \A m \in T : <<m, n>> \notin OpToRel(<, Nat)
    BY NatLessThanWellFounded, WFMin
<1>2. PICK n \in T : \A m \in T : <<m, n>> \notin OpToRel(<, Nat)
    BY <1>1
<1>3. ASSUME NEW m \in T PROVE n <= m
    <2>1. m \in Nat /\ n \in Nat
        OBVIOUS
    <2>2. m < n => <<m, n>> \in OpToRel(<, Nat)
        BY <2>1 DEF OpToRel
    <2>3. ~(m < n)
        BY <1>2, <2>2
    <2> QED BY <2>1, <2>3
<1> QED BY <1>3

\* The sum of the subsets of at most n elements.
UpTo(E, n) == {s \in SUBSET E : Cardinality(s) <= n}
IsSumUpTo(g, w, E, n) ==
    g = [s \in UpTo(E, n) |-> IF s = {} THEN 0 ELSE w[Pick(s)] + g[s \ {Pick(s)}]]

\* A sum over a finite set exists.
LEMMA SumUpTo ==
    ASSUME NEW E, IsFiniteSet(E), NEW w, NEW n \in Nat
    PROVE  \E g : IsSumUpTo(g, w, E, n)
<1> DEFINE T == {k \in Nat : ~\E g : IsSumUpTo(g, w, E, k)}
<1>1. \A s \in SUBSET E : IsFiniteSet(s) /\ Cardinality(s) \in Nat
    BY FS_Subset, FS_CardinalityType
<1>2. 0 \notin T
    <2> DEFINE g == [s \in UpTo(E, 0) |-> 0]
    <2>1. \A s \in UpTo(E, 0) : s = {}
        BY <1>1, FS_EmptySet DEF UpTo
    <2>2. IsSumUpTo(g, w, E, 0)
        BY <2>1 DEF IsSumUpTo
    <2> QED BY <2>2
<1>3. ASSUME NEW k \in Nat, k \notin T PROVE k + 1 \notin T
    <2>1. PICK f : IsSumUpTo(f, w, E, k)
        BY <1>3
    <2> DEFINE g == [s \in UpTo(E, k + 1) |->
                        IF s \in UpTo(E, k) THEN f[s] ELSE w[Pick(s)] + f[s \ {Pick(s)}]]
    <2>2. ASSUME NEW s \in UpTo(E, k + 1), s # {}
          PROVE  /\ s \ {Pick(s)} \in UpTo(E, k)
                 /\ s \ {Pick(s)} \in UpTo(E, k + 1)
        <3>1. Pick(s) \in s
            BY <2>2 DEF Pick
        <3>2. Cardinality(s \ {Pick(s)}) = Cardinality(s) - 1
            BY <1>1, <3>1, FS_RemoveElement DEF UpTo
        <3> QED BY <1>1, <3>2 DEF UpTo
    <2>3. \A s \in UpTo(E, k) : s \in UpTo(E, k + 1)
        BY <1>1 DEF UpTo
    <2>4. ASSUME NEW s \in UpTo(E, k + 1)
          PROVE  g[s] = IF s = {} THEN 0 ELSE w[Pick(s)] + g[s \ {Pick(s)}]
        <3>1. CASE s = {}
            <4>1. s \in UpTo(E, k)
                BY <1>3, <3>1, FS_EmptySet DEF UpTo
            <4>2. f[s] = 0
                BY <2>1, <3>1, <4>1 DEF IsSumUpTo
            <4> QED BY <3>1, <4>1, <4>2
        <3>2. CASE s # {}
            <4>1. g[s \ {Pick(s)}] = f[s \ {Pick(s)}]
                BY <2>2, <3>2
            <4>2. s \in UpTo(E, k) => f[s] = w[Pick(s)] + f[s \ {Pick(s)}]
                BY <2>1, <3>2 DEF IsSumUpTo
            <4> QED BY <3>2, <4>1, <4>2
        <3> QED BY <3>1, <3>2
    <2>5. g = [s \in UpTo(E, k + 1) |-> g[s]]
        OBVIOUS
    <2> HIDE DEF g
    <2>6. IsSumUpTo(g, w, E, k + 1)
        BY <2>4, <2>5, Zenon DEF IsSumUpTo
    <2> QED BY <2>6
<1>4. T = {}
    <2> SUFFICES ASSUME T # {} PROVE FALSE
        OBVIOUS
    <2>1. PICK k \in T : \A m \in T : k <= m
        BY LeastNumber, T \in SUBSET Nat
    <2> HIDE DEF T
    <2>2. k \in Nat /\ k # 0
        BY <1>2 DEF T
    <2>3. k - 1 \in Nat /\ ~(k <= k - 1)
        BY <2>2
    <2>4. k - 1 \notin T
        BY <2>1, <2>3
    <2>5. (k - 1) + 1 \notin T
        BY <1>3, <2>3, <2>4
    <2> QED BY <2>2, <2>5
<1> QED BY <1>4

\* Finitely many weights have a sum: a set without one would have a smallest
\* subset without one.
LEMMA SumExists ==
    ASSUME NEW E, IsFiniteSet(E), NEW w
    PROVE  \E g : IsSum(g, w, E)
<1>1. Cardinality(E) \in Nat /\ SUBSET E = UpTo(E, Cardinality(E))
    BY FS_CardinalityType, FS_Subset DEF UpTo
<1>2. \E g : IsSumUpTo(g, w, E, Cardinality(E))
    BY <1>1, SumUpTo
<1> QED BY <1>1, <1>2 DEF IsSum, IsSumUpTo


\* A set of finite sets has one without smaller ones, and so has what refutes
\* a fact about the sums of all subsets.
LEMMA LeastSubset ==
    ASSUME NEW E, IsFiniteSet(E), NEW T \in SUBSET SUBSET E, T # {}
    PROVE  \E s \in T : \A t \in T : t \subseteq s => t = s
<1>1. FiniteSubsetsOf(E) = SUBSET E
    BY FS_FiniteSubsetsOfFinite
<1>2. \E s \in T : \A t \in T : <<t, s>> \notin StrictSubsetOrdering(E)
    BY <1>1, FS_StrictSubsetOrderingWellFounded, WFMin
<1>3. PICK s \in T : \A t \in T : <<t, s>> \notin StrictSubsetOrdering(E)
    BY <1>2
<1>4. ASSUME NEW t \in T, t \subseteq s PROVE t = s
    <2>1. t # s => <<t, s>> \in StrictSubsetOrdering(E)
        BY <1>4 DEF StrictSubsetOrdering
    <2> QED BY <1>3, <2>1
<1> QED BY <1>4

\* No weights sum up to nothing.
LEMMA SumOfNone ==
    ASSUME NEW g, NEW w, NEW E, IsSum(g, w, E)
    PROVE  g[{}] = 0
BY DEF IsSum

\* The sum is a weight and the sum of the others.
LEMMA SumOfSome ==
    ASSUME NEW g, NEW w, NEW E, IsSum(g, w, E), NEW s \in SUBSET E, s # {}
    PROVE  /\ Pick(s) \in s /\ Pick(s) \in E
           /\ s \ {Pick(s)} \in SUBSET E /\ s \ {Pick(s)} # s
           /\ g[s] = w[Pick(s)] + g[s \ {Pick(s)}]
<1>1. Pick(s) \in s
    BY DEF Pick
<1>2. g[s] = IF s = {} THEN 0 ELSE w[Pick(s)] + g[s \ {Pick(s)}]
    BY DEF IsSum
<1> QED BY <1>1, <1>2

\* A sum of natural numbers is one.
LEMMA SumIsNat ==
    ASSUME NEW E, IsFiniteSet(E), NEW w \in [E -> Nat], NEW g, IsSum(g, w, E)
    PROVE  \A s \in SUBSET E : g[s] \in Nat
<1> DEFINE T == {s \in SUBSET E : g[s] \notin Nat}
<1>1. T \in SUBSET SUBSET E
    OBVIOUS
<1>2. ASSUME NEW s \in T, \A t \in T : t \subseteq s => t = s PROVE FALSE
    <2>1. s \in SUBSET E /\ g[s] \notin Nat
        OBVIOUS
    <2>2. s # {}
        BY <2>1, SumOfNone
    <2>3. s \ {Pick(s)} \notin T
        BY <1>2, <2>1, <2>2, SumOfSome
    <2>4. g[s \ {Pick(s)}] \in Nat
        BY <2>1, <2>2, <2>3, SumOfSome
    <2>5. g[s] = w[Pick(s)] + g[s \ {Pick(s)}] /\ w[Pick(s)] \in Nat
        BY <2>1, <2>2, SumOfSome
    <2> QED BY <2>1, <2>4, <2>5
<1> HIDE DEF T
<1>3. T = {}
    BY <1>1, <1>2, LeastSubset
<1> QED BY <1>3 DEF T

\* A sum does not grow when no weight grows.
LEMMA SumMonotone ==
    ASSUME NEW E, IsFiniteSet(E), NEW w \in [E -> Nat], NEW v \in [E -> Nat],
           \A e \in E : v[e] <= w[e], NEW g, IsSum(g, w, E), NEW h, IsSum(h, v, E)
    PROVE  h[E] <= g[E]
<1> DEFINE T == {s \in SUBSET E : ~(h[s] <= g[s])}
<1>1. T \in SUBSET SUBSET E
    OBVIOUS
<1>2. ASSUME NEW s \in T, \A t \in T : t \subseteq s => t = s PROVE FALSE
    <2>1. s \in SUBSET E /\ ~(h[s] <= g[s])
        OBVIOUS
    <2>2. s # {}
        BY <2>1, SumOfNone
    <2> DEFINE u == s \ {Pick(s)}
    <2>3. u \notin T /\ u \in SUBSET E
        BY <1>2, <2>1, <2>2, SumOfSome
    <2>4. h[u] <= g[u] /\ h[u] \in Nat /\ g[u] \in Nat
        BY <2>3, SumIsNat
    <2>5. /\ g[s] = w[Pick(s)] + g[u] /\ h[s] = v[Pick(s)] + h[u] /\ v[Pick(s)] <= w[Pick(s)]
          /\ w[Pick(s)] \in Nat /\ v[Pick(s)] \in Nat
        BY <2>1, <2>2, SumOfSome
    <2> QED BY <2>1, <2>4, <2>5
<1> HIDE DEF T
<1>3. T = {}
    BY <1>1, <1>2, LeastSubset
<1> QED BY <1>3 DEF T

\* Nothing adds up to nothing.
LEMMA SumOfZeros ==
    ASSUME NEW E, IsFiniteSet(E), NEW w, \A e \in E : w[e] = 0, NEW g, IsSum(g, w, E)
    PROVE  g[E] = 0
<1> DEFINE T == {s \in SUBSET E : g[s] # 0}
<1>1. T \in SUBSET SUBSET E
    OBVIOUS
<1>2. ASSUME NEW s \in T, \A t \in T : t \subseteq s => t = s PROVE FALSE
    <2>1. s \in SUBSET E /\ g[s] # 0
        OBVIOUS
    <2>2. s # {}
        BY <2>1, SumOfNone
    <2>3. s \ {Pick(s)} \notin T /\ s \ {Pick(s)} \in SUBSET E
        BY <1>2, <2>1, <2>2, SumOfSome
    <2>4. g[s] = w[Pick(s)] + g[s \ {Pick(s)}] /\ Pick(s) \in E
        BY <2>1, <2>2, SumOfSome
    <2>5. w[Pick(s)] = 0
        BY <2>4
    <2> QED BY <2>1, <2>3, <2>4, <2>5
<1> HIDE DEF T
<1>3. T = {}
    BY <1>1, <1>2, LeastSubset
<1> QED BY <1>3 DEF T

\* When one weight becomes zero, the sum loses it.
LEMMA SumWithout ==
    ASSUME NEW E, IsFiniteSet(E), NEW w \in [E -> Nat], NEW e \in E,
           NEW v \in [E -> Nat], \A x \in E : v[x] = IF x = e THEN 0 ELSE w[x],
           NEW g, IsSum(g, w, E), NEW h, IsSum(h, v, E)
    PROVE  h[E] = g[E] - w[e]
<1>0. ASSUME NEW s \in SUBSET E, s # {}
      PROVE  /\ g[s] = w[Pick(s)] + g[s \ {Pick(s)}] /\ h[s] = v[Pick(s)] + h[s \ {Pick(s)}]
             /\ w[Pick(s)] \in Nat /\ v[Pick(s)] = IF Pick(s) = e THEN 0 ELSE w[Pick(s)]
             /\ Pick(s) \in s
    <2>1. g[s] = w[Pick(s)] + g[s \ {Pick(s)}] /\ Pick(s) \in s /\ Pick(s) \in E
        BY <1>0, SumOfSome
    <2>2. h[s] = v[Pick(s)] + h[s \ {Pick(s)}]
        BY <1>0, SumOfSome
    <2> QED BY <2>1, <2>2
<1> DEFINE Lost(s) == IF e \in s THEN w[e] ELSE 0
           T == {s \in SUBSET E : h[s] # g[s] - Lost(s)}
<1>1. T \in SUBSET SUBSET E
    OBVIOUS
<1>2. ASSUME NEW s \in T, \A t \in T : t \subseteq s => t = s PROVE FALSE
    <2>1. s \in SUBSET E /\ h[s] # g[s] - Lost(s)
        OBVIOUS
    <2>2. s # {}
        <3>1. g[{}] = 0 /\ h[{}] = 0 /\ Lost({}) = 0
            BY SumOfNone
        <3> QED BY <2>1, <3>1
    <2> DEFINE u == s \ {Pick(s)}
    <2>3. u \notin T /\ u \in SUBSET E
        BY <1>2, <2>1, <2>2, SumOfSome
    <2>4. h[u] = g[u] - Lost(u) /\ h[u] \in Nat /\ g[u] \in Nat
        BY <2>3, SumIsNat
    <2>5. /\ g[s] = w[Pick(s)] + g[u] /\ h[s] = v[Pick(s)] + h[u]
          /\ w[Pick(s)] \in Nat /\ v[Pick(s)] = IF Pick(s) = e THEN 0 ELSE w[Pick(s)]
          /\ Pick(s) \in s
        BY <1>0, <2>1, <2>2
    <2>6. CASE Pick(s) = e
        BY <2>1, <2>4, <2>5, <2>6
    <2>7. CASE Pick(s) # e
        BY <2>1, <2>4, <2>5, <2>7
    <2> QED BY <2>6, <2>7
<1> HIDE DEF T
<1>3. T = {}
    BY <1>1, <1>2, LeastSubset
<1>4. h[E] = g[E] - Lost(E)
    BY <1>3 DEF T
<1> QED BY <1>4

-----------------------------------------------------------------------------
(* The cache. *)

StoredFile == [size : Nat, written : Nat, mtime : Nat, atime : Nat]

CacheTypes ==
    /\ shelf \in [Entries -> StoredFile \cup {NoEntry}]
    /\ tick \in Nat
    /\ keeper.op \in {"none", "rename", "purge", "measure", "evict", "clear"}
    /\ keeper.op = "rename" => keeper.entry \in Entries /\ keeper.size \in Nat /\ keeper.at \in Nat
    /\ keeper.op = "purge" => keeper.then \in {"measure", "none"}
    /\ keeper.op = "clear" => keeper \in [op : {"clear"}, left : SUBSET Entries]
    /\ reading.at \in {"none", "content", "stat", "touch"}
    /\ reading.at # "none" => reading.entry \in Entries /\ reading.asked \in Nat
    /\ reading.at \in {"stat", "touch"} => reading.got \in Nat
    /\ reading.at = "touch" => reading.mtime \in Nat

\* The total that an eviction counts down is the volume, and what cannot make
\* the files grow starts and ends within the limit.
Sized ==
    /\ keeper = Unlocked \/ keeper.op = "clear" \/ (keeper.op = "purge" /\ keeper.then = "none")
          => Volume <= MaxBytes
    /\ keeper.op = "evict" => keeper.total = Volume /\ DOMAIN keeper.listed \subseteq Entries

\* Modification times are never later than the contents they belong to, those
\* of later contents never earlier.
Aged ==
    /\ \A e \in Stored : shelf[e].mtime <= shelf[e].written /\ shelf[e].written <= tick
    /\ keeper.op = "rename" =>
          /\ keeper.at <= tick
          /\ keeper.entry \in Stored => shelf[keeper.entry].written <= keeper.at

\* What a read may come upon, now or after the write under way, is as fresh
\* as what it checked, and no older than the modification time it will set.
NoOlder(e, time, ttl) ==
    /\ e \in Stored => time <= shelf[e].written + ttl
    /\ keeper.op = "rename" /\ keeper.entry = e => time <= keeper.at + ttl
ReadAged ==
    /\ reading.at # "none" => reading.asked <= tick
    /\ reading.at # "none" /\ reading.entry[2] = "metadata" =>
          MetadataTtl > 0 /\ NoOlder(reading.entry, reading.asked + 1, MetadataTtl)
    /\ reading.at = "touch" => reading.mtime <= tick /\ NoOlder(reading.entry, reading.mtime, 0)

CacheInv == CacheTypes /\ Sized /\ Aged /\ ReadAged /\ ServesFresh

\* The entries are finitely many.
LEMMA EntriesFinite == IsFiniteSet(Entries)
<1> DEFINE f(k) == [v \in Videos |-> <<v, k>>]
<1>1. ASSUME NEW k PROVE IsFiniteSet(Videos \X {k})
    <2>1. f(k) \in Surjection(Videos, Videos \X {k})
        BY DEF Surjection
    <2> QED BY <2>1, CacheOK, FS_Surjection
<1>2. Entries = (Videos \X {"metadata"}) \cup (Videos \X {"cues"})
    BY DEF Entries
<1> QED BY <1>1, <1>2, FS_Union

Weights == [e \in Entries |-> shelf[e].size]

\* The volume of the cache is a sum of weights.
LEMMA VolumeIsSum == \E g : IsSum(g, Weights, Entries) /\ Volume = g[Entries]
<1> DEFINE Body(g) == [s \in SUBSET Entries |->
                          IF s = {} THEN 0
                          ELSE LET x == CHOOSE y \in s : TRUE IN shelf[x].size + g[s \ {x}]]
           iter == CHOOSE g : g = Body(g)
<1>1. Volume = iter[Entries]
    BY DEF Volume, MapThenSumSet, MapThenFoldSet
<1>2. ASSUME NEW g PROVE IsSum(g, Weights, Entries) <=> g = Body(g)
    <2>1. \A s \in SUBSET Entries : s # {} => Weights[Pick(s)] = shelf[Pick(s)].size
        BY DEF Pick, Weights
    <2>2. [s \in SUBSET Entries |-> IF s = {} THEN 0 ELSE Weights[Pick(s)] + g[s \ {Pick(s)}]] = Body(g)
        BY <2>1 DEF Pick
    <2> QED BY <2>2 DEF IsSum
<1> HIDE DEF Body
<1>3. \E g : g = Body(g)
    <2>1. PICK g : IsSum(g, Weights, Entries)
        BY EntriesFinite, SumExists
    <2> QED BY <1>2, <2>1
<1>4. iter = Body(iter)
    BY <1>3
<1> QED BY <1>1, <1>2, <1>4

\* The weights and their sum are numbers.
LEMMA WeightsAreNat ==
    ASSUME CacheTypes
    PROVE  Weights \in [Entries -> Nat] /\ Volume \in Nat
<1>1. \A e \in Entries : shelf[e].size \in Nat
    BY DEF CacheTypes, StoredFile, NoEntry
<1>2. Weights \in [Entries -> Nat]
    BY <1>1 DEF Weights
<1> QED BY <1>2, VolumeIsSum, SumIsNat, EntriesFinite

\* The volume in the next state.
LEMMA NextVolumeIsSum ==
    (\E g : IsSum(g, Weights, Entries) /\ Volume = g[Entries])'
BY VolumeIsSum, PTL

\* So are those of the next state.
LEMMA NextWeightsAreNat ==
    (CacheTypes => Weights \in [Entries -> Nat] /\ Volume \in Nat)'
<1>1. CacheTypes => Weights \in [Entries -> Nat] /\ Volume \in Nat
    BY WeightsAreNat
<1> QED BY <1>1, PTL

\* The volume does not grow when no file does, and is the same for the same sizes.
LEMMA VolumeShrinks ==
    ASSUME CacheTypes, CacheTypes',
           \A e \in Entries : shelf'[e].size <= shelf[e].size
    PROVE  Volume' <= Volume
<1>1. \A e \in Entries : Weights'[e] = shelf'[e].size /\ Weights[e] = shelf[e].size
    BY DEF Weights
<1>2. PICK g : IsSum(g, Weights, Entries) /\ Volume = g[Entries]
    BY VolumeIsSum
<1>3. PICK h : IsSum(h, Weights', Entries) /\ Volume' = h[Entries]
    BY NextVolumeIsSum DEF IsSum, Entries
<1>4. Weights \in [Entries -> Nat] /\ Weights' \in [Entries -> Nat]
    BY WeightsAreNat, NextWeightsAreNat
<1> QED BY <1>1, <1>2, <1>3, <1>4, SumMonotone, EntriesFinite

\* It loses what is removed.
LEMMA VolumeWithout ==
    ASSUME CacheTypes, CacheTypes', NEW e \in Entries, shelf' = [shelf EXCEPT ![e] = NoEntry]
    PROVE  Volume' = Volume - shelf[e].size
<1>1. \A x \in Entries : Weights'[x] = IF x = e THEN 0 ELSE Weights[x]
    BY DEF Weights, CacheTypes, NoEntry
<1>2. PICK g : IsSum(g, Weights, Entries) /\ Volume = g[Entries]
    BY VolumeIsSum
<1>3. PICK h : IsSum(h, Weights', Entries) /\ Volume' = h[Entries]
    BY NextVolumeIsSum DEF IsSum, Entries
<1>4. Weights \in [Entries -> Nat] /\ Weights' \in [Entries -> Nat]
    BY WeightsAreNat, NextWeightsAreNat
<1>5. Weights[e] = shelf[e].size
    BY DEF Weights
<1> QED BY <1>1, <1>2, <1>3, <1>4, <1>5, SumWithout, EntriesFinite

\* The cache is empty at the start.
LEMMA CacheInitially == CacheInit => CacheInv
<1> SUFFICES ASSUME CacheInit PROVE CacheInv
    OBVIOUS
<1>1. CacheTypes /\ Stored = {}
    BY DEF CacheInit, CacheTypes, NoEntry, Unlocked, NotReading, Stored
<1>2. Volume = 0
    <2>1. \A e \in Entries : Weights[e] = 0
        BY DEF CacheInit, NoEntry, Weights
    <2> QED BY <2>1, VolumeIsSum, SumOfZeros, EntriesFinite
<1> QED BY <1>1, <1>2, CacheOK DEF CacheInit, CacheInv, Sized, Aged, ReadAged, ServesFresh, Unlocked, NotReading

\* What every step that leaves the files alone has to show.
LEMMA SameFiles ==
    ASSUME shelf' = shelf
    PROVE  /\ Volume' = Volume /\ Stored' = Stored
           /\ \A e \in Entries : shelf'[e] = shelf[e]
BY DEF Volume, Stored, MapThenSumSet, MapThenFoldSet

\* The fields of a stored file.
LEMMA FileFields ==
    ASSUME CacheTypes, NEW e \in Stored
    PROVE  e \in Entries /\ shelf[e] \in StoredFile
           /\ shelf[e].size \in Nat /\ shelf[e].written \in Nat /\ shelf[e].mtime \in Nat
BY DEF CacheTypes, Stored, StoredFile

\* Taking the lock, and maintenance that leaves the files alone.
LEMMA KeeperKeeps ==
    ASSUME CacheInv, \/ \E e \in Entries, size \in FileSizes : Put(e, size)
                     \/ Measure \/ Maintain("measure") \/ Maintain("none")
                     \/ \E es \in SUBSET Entries : Clear(es)
    PROVE  CacheInv'
<1>1. shelf' = shelf /\ tick' = tick /\ reading' = reading
    BY DEF Put, Measure, Maintain, Clear
<1>2. CacheTypes'
    <2>1. CASE \E e \in Entries, size \in FileSizes : Put(e, size)
        <3>1. PICK e \in Entries, size \in FileSizes :
                 keeper' = [op |-> "rename", entry |-> e, size |-> size, at |-> tick]
            BY <2>1 DEF Put
        <3> QED BY <1>1, <3>1, CacheOK DEF CacheInv, CacheTypes
    <2>2. CASE Maintain("measure") \/ Maintain("none")
        <3>1. keeper'.op = "purge" /\ keeper'.then \in {"measure", "none"}
            BY <2>2 DEF Maintain
        <3> QED BY <1>1, <3>1 DEF CacheInv, CacheTypes
    <2>3. CASE Measure \/ \E es \in SUBSET Entries : Clear(es)
        <3>1. keeper'.op \in {"none", "evict", "clear"}
            BY <2>3 DEF Measure, Clear, Unlocked
        <3>2. keeper'.op = "clear" => keeper' \in [op : {"clear"}, left : SUBSET Entries]
            BY <2>3 DEF Measure, Clear, Unlocked
        <3> QED BY <1>1, <3>1, <3>2 DEF CacheInv, CacheTypes
    <2> QED BY <2>1, <2>2, <2>3
<1>3. Sized'
    <2>1. Stored \subseteq Entries
        BY DEF Stored
    <2> QED BY <1>1, <2>1, SameFiles DEF CacheInv, Sized, Put, Measure, Maintain, Clear, Unlocked
<1>4. CASE \E e \in Entries, size \in FileSizes : Put(e, size)
    <2>1. PICK e \in Entries, size \in FileSizes : Put(e, size)
        BY <1>4
    <2>2. keeper' = [op |-> "rename", entry |-> e, size |-> size, at |-> tick]
        BY <2>1 DEF Put
    <2>3. keeper'.op = "rename" /\ keeper'.entry = e /\ keeper'.at = tick
        BY <2>2
    <2>4. tick \in Nat /\ \A f \in Stored : shelf[f].written \in Nat /\ shelf[f].written <= tick
        BY FileFields DEF CacheInv, CacheTypes, Aged
    <2>5. Aged'
        BY <1>1, <2>3, <2>4, SameFiles DEF CacheInv, Aged
    <2>6. ReadAged'
        <3>1. reading.at # "none" => reading.asked \in Nat
            BY DEF CacheInv, CacheTypes
        <3>2. reading.at = "touch" => reading.mtime \in Nat
            BY DEF CacheInv, CacheTypes
        <3> QED BY <1>1, <2>3, <2>4, <3>1, <3>2, CacheOK, SameFiles DEF CacheInv, ReadAged, NoOlder
    <2> QED BY <1>1, <1>2, <1>3, <2>5, <2>6 DEF CacheInv, ServesFresh
<1>5. CASE keeper'.op # "rename"
    <2>1. Aged'
        BY <1>1, <1>5, SameFiles DEF CacheInv, Aged
    <2>2. ReadAged'
        BY <1>1, <1>5, SameFiles DEF CacheInv, ReadAged, NoOlder
    <2> QED BY <1>1, <1>2, <1>3, <2>1, <2>2 DEF CacheInv, ServesFresh
<1> QED BY <1>4, <1>5 DEF Measure, Maintain, Clear, Unlocked

\* Files that go make nothing older.
LEMMA RemovalKeepsAges ==
    ASSUME CacheInv, \A e \in Entries : shelf'[e] = shelf[e] \/ shelf'[e] = NoEntry,
           keeper'.op # "rename", tick' = tick,
           reading' = reading \/ reading'.at = "none",
           CacheTypes', Sized'
    PROVE  CacheInv'
<1>1. \A e \in Stored' : e \in Stored /\ shelf'[e] = shelf[e]
    BY DEF Stored
<1>2. Aged'
    BY <1>1 DEF CacheInv, Aged
<1>3. ReadAged' /\ ServesFresh'
    <2>1. CASE reading'.at = "none"
        BY <2>1 DEF ReadAged, ServesFresh
    <2>2. CASE reading' = reading
        BY <1>1, <2>2 DEF CacheInv, ReadAged, ServesFresh, NoOlder
    <2> QED BY <2>1, <2>2
<1> QED BY <1>2, <1>3 DEF CacheInv

\* Files that are purged, evicted or forgotten in a restart take no other
\* with them.
LEMMA RemovalKeeps ==
    ASSUME CacheInv, PurgeExpired \/ RemoveOne \/ Restart \/ \E e \in Entries : Evict(e)
    PROVE  CacheInv'
<1>1. tick' = tick /\ (reading' = reading \/ reading' = NotReading)
    BY DEF PurgeExpired, RemoveOne, Restart, Evict
<1>2. shelf' \in [Entries -> StoredFile \cup {NoEntry}]
      /\ \A e \in Entries : shelf'[e] = shelf[e] \/ shelf'[e] = NoEntry
    <2>1. CASE PurgeExpired
        BY <2>1 DEF PurgeExpired, CacheInv, CacheTypes
    <2>2. CASE shelf' = shelf \/ \E e \in Entries : shelf' = [shelf EXCEPT ![e] = NoEntry]
        BY <2>2 DEF CacheInv, CacheTypes
    <2>3. CASE RemoveOne \/ Restart
        BY <2>2, <2>3 DEF RemoveOne, Restart, CacheInv, CacheTypes
    <2> QED BY <2>1, <2>2, <2>3 DEF Evict
<1>3. /\ keeper'.op \in {"none", "purge", "measure", "evict", "clear"}
      /\ keeper'.op = "purge" => keeper'.then \in {"measure", "none"}
      /\ keeper'.op = "clear" => keeper' \in [op : {"clear"}, left : SUBSET Entries]
    <2>1. CASE PurgeExpired \/ Restart
        BY <2>1 DEF PurgeExpired, Restart, CacheInv, CacheTypes
    <2>2. CASE RemoveOne
        <3>1. keeper.op = "clear" /\ keeper \in [op : {"clear"}, left : SUBSET Entries]
            BY <2>2 DEF RemoveOne, CacheInv, CacheTypes
        <3>2. keeper' = Unlocked \/ \E e \in keeper.left : keeper' = [keeper EXCEPT !.left = @ \ {e}]
            BY <2>2 DEF RemoveOne
        <3>3. keeper' = Unlocked \/ keeper' \in [op : {"clear"}, left : SUBSET Entries]
            BY <3>1, <3>2
        <3> QED BY <3>3 DEF Unlocked
    <2>3. CASE \E e \in Entries : Evict(e)
        BY <2>3 DEF Evict, Unlocked
    <2> QED BY <2>1, <2>2, <2>3
<1>4. CacheTypes'
    BY <1>1, <1>2, <1>3 DEF CacheInv, CacheTypes, NotReading
<1>5. Volume' <= Volume /\ Volume' \in Nat /\ Volume \in Nat
    <2>1. \A e \in Entries : shelf[e].size \in Nat
        BY DEF CacheInv, CacheTypes, StoredFile, NoEntry
    <2>2. \A e \in Entries : shelf'[e].size <= shelf[e].size
        BY <1>2, <2>1 DEF NoEntry
    <2> QED BY <1>4, <2>2, VolumeShrinks, WeightsAreNat, NextWeightsAreNat DEF CacheInv
<1>6. Sized'
    <2>1. CASE PurgeExpired
        <3>1. keeper' = [op |-> keeper.then] /\ keeper.op = "purge" /\ keeper.then \in {"measure", "none"}
            BY <2>1 DEF PurgeExpired, CacheInv, CacheTypes
        <3>2. keeper'.op \notin {"clear", "purge", "evict"}
            BY <3>1
        <3>3. keeper' = Unlocked => keeper.then = "none"
            BY <3>1 DEF Unlocked
        <3>4. keeper.then = "none" => Volume <= MaxBytes
            BY <3>1 DEF CacheInv, Sized
        <3> QED BY <1>5, <3>2, <3>3, <3>4, CacheOK DEF Sized
    <2>2. CASE RemoveOne
        <3>1. keeper.op = "clear" /\ keeper'.op \notin {"purge", "evict"}
            <4>1. keeper.op = "clear" /\ keeper \in [op : {"clear"}, left : SUBSET Entries]
                BY <2>2 DEF RemoveOne, CacheInv, CacheTypes
            <4>2. keeper' = Unlocked \/ keeper'.op = "clear"
                BY <2>2, <4>1 DEF RemoveOne
            <4> QED BY <4>1, <4>2 DEF Unlocked
        <3>2. Volume <= MaxBytes
            BY <3>1 DEF CacheInv, Sized
        <3> QED BY <1>5, <3>1, <3>2, CacheOK DEF Sized
    <2>3. CASE Restart
        BY <2>3 DEF Restart, Sized, Unlocked
    <2>4. ASSUME NEW e \in Entries, Evict(e) PROVE Sized'
        <3> DEFINE total == keeper.total - shelf[e].size
        <3>1. /\ keeper.op = "evict" /\ shelf' = [shelf EXCEPT ![e] = NoEntry]
              /\ keeper' = IF total <= MaxBytes THEN Unlocked
                           ELSE [op |-> "evict", total |-> total,
                                 listed |-> [f \in DOMAIN keeper.listed \ {e} |-> keeper.listed[f]]]
            BY <2>4 DEF Evict
        <3>2. total = Volume' /\ DOMAIN keeper.listed \subseteq Entries
            BY <1>4, <3>1, VolumeWithout DEF CacheInv, Sized
        <3> HIDE DEF total
        <3>3. CASE total <= MaxBytes
            BY <3>1, <3>2, <3>3 DEF Sized, Unlocked
        <3>4. CASE ~(total <= MaxBytes)
            BY <3>1, <3>2, <3>4 DEF Sized, Unlocked
        <3> QED BY <3>3, <3>4
    <2> QED BY <2>1, <2>2, <2>3, <2>4
<1> QED BY <1>1, <1>2, <1>3, <1>4, <1>6, RemovalKeepsAges DEF NotReading

\* The rename: the new content is the latest one, and what a read has checked
\* does not keep it from being served.
LEMMA RenameKeeps == ASSUME CacheInv, Rename PROVE CacheInv'
<1>1. PICK e \in Entries : e = keeper.entry
    BY DEF Rename, CacheInv, CacheTypes
<1> DEFINE f == [size |-> keeper.size, written |-> keeper.at, mtime |-> keeper.at, atime |-> keeper.at]
<1>2. /\ keeper.op = "rename" /\ shelf' = [shelf EXCEPT ![e] = f]
      /\ keeper' \in {[op |-> "purge", then |-> "measure"], [op |-> "measure"]}
      /\ tick' = tick /\ reading' = reading
    BY <1>1 DEF Rename
<1>3. f \in StoredFile /\ f.mtime = keeper.at /\ f.written = keeper.at /\ keeper.at \in Nat
    BY <1>2 DEF CacheInv, CacheTypes, StoredFile
<1>4. \/ keeper'.op = "purge" /\ keeper'.then = "measure" /\ keeper' # Unlocked
      \/ keeper'.op = "measure" /\ keeper' # Unlocked
    BY <1>2 DEF Unlocked
<1> HIDE DEF f
<1>5. CacheTypes'
    BY <1>2, <1>3, <1>4 DEF CacheInv, CacheTypes
<1>6. Sized'
    BY <1>4 DEF Sized
<1>7. \A x \in Entries : shelf'[x] = IF x = e THEN f ELSE shelf[x]
    BY <1>2 DEF CacheInv, CacheTypes
<1>8. \A x \in Entries : x # e => (x \in Stored' <=> x \in Stored)
    BY <1>7 DEF Stored
<1>9. Aged'
    <2>1. \A x \in Stored' : x \in Entries
        BY DEF Stored
    <2>2. keeper.at <= tick /\ tick' = tick
        BY <1>2 DEF CacheInv, Aged
    <2>3. ASSUME NEW x \in Stored'
          PROVE  shelf'[x].mtime <= shelf'[x].written /\ shelf'[x].written <= tick'
        <3>1. CASE x = e
            BY <1>3, <1>7, <2>2, <3>1
        <3>2. CASE x # e
            BY <1>2, <1>7, <1>8, <2>1, <3>2 DEF CacheInv, Aged
        <3> QED BY <3>1, <3>2
    <2> QED BY <1>4, <2>3 DEF Aged
<1>10. ReadAged'
    <2>1. \A time, ttl : reading.entry \in Entries /\ NoOlder(reading.entry, time, ttl)
             => /\ reading.entry \in Stored' => time <= shelf'[reading.entry].written + ttl
                /\ keeper'.op # "rename"
        BY <1>1, <1>2, <1>3, <1>4, <1>7, <1>8 DEF NoOlder
    <2> QED BY <1>2, <2>1 DEF CacheInv, CacheTypes, ReadAged, NoOlder
<1> QED BY <1>2, <1>5, <1>6, <1>9, <1>10 DEF CacheInv, ServesFresh

\* A read: what it has checked, and what it takes from the file.
LEMMA ReadingKeeps ==
    ASSUME CacheInv, ReadContent \/ StatContent \/ \E e \in Entries : CheckAge(e)
    PROVE  CacheInv'
<1>1. shelf' = shelf /\ tick' = tick /\ keeper' = keeper
    BY DEF ReadContent, StatContent, CheckAge
<1>2. Sized' /\ Aged'
    BY <1>1, SameFiles DEF CacheInv, Sized, Aged
<1>3. CASE reading' = NotReading
    BY <1>1, <1>2, <1>3 DEF CacheInv, CacheTypes, ReadAged, ServesFresh, NotReading
<1>4. ASSUME NEW e \in Entries, CheckAge(e) PROVE CacheInv'
    <2>1. /\ reading'.at = "content" /\ reading'.entry = e /\ reading'.asked = tick
          /\ e \in Stored /\ Fresh(e, tick)
        BY <1>4 DEF CheckAge
    <2>2. CacheTypes'
        BY <1>1, <2>1 DEF CacheInv, CacheTypes
    <2>3. ReadAged'
        <3>1. /\ tick \in Nat /\ shelf[e].mtime \in Nat /\ shelf[e].written \in Nat
              /\ shelf[e].mtime <= shelf[e].written /\ shelf[e].written <= tick
            BY <2>1, FileFields DEF CacheInv, CacheTypes, Aged
        <3>2. ASSUME e[2] = "metadata"
              PROVE  MetadataTtl > 0 /\ NoOlder(e, tick + 1, MetadataTtl)
            <4>1. tick < shelf[e].mtime + MetadataTtl
                BY <2>1, <3>2 DEF Fresh
            <4>2. keeper.op = "rename" /\ keeper.entry = e =>
                     keeper.at \in Nat /\ shelf[e].written <= keeper.at
                BY <2>1 DEF CacheInv, CacheTypes, Aged
            <4> QED BY <3>1, <4>1, <4>2, CacheOK DEF NoOlder
        <3> QED BY <1>1, <2>1, <3>1, <3>2, SameFiles DEF ReadAged, NoOlder
    <2> QED BY <1>2, <2>1, <2>2, <2>3 DEF CacheInv, ServesFresh
<1>5. CASE ReadContent /\ reading' # NotReading
    <2>1. /\ reading.at = "content" /\ reading.entry \in Stored
          /\ reading'.at = "stat" /\ reading'.entry = reading.entry
          /\ reading'.asked = reading.asked /\ reading'.got = shelf[reading.entry].written
        BY <1>5 DEF ReadContent
    <2>2. CacheTypes'
        BY <1>1, <2>1, FileFields DEF CacheInv, CacheTypes
    <2>3. ReadAged'
        BY <1>1, <2>1, SameFiles DEF CacheInv, ReadAged, NoOlder
    <2>4. ServesFresh'
        <3>1. reading.asked \in Nat /\ shelf[reading.entry].written \in Nat
            BY <2>1, FileFields DEF CacheInv, CacheTypes
        <3>2. reading.entry[2] = "metadata" =>
                 reading.asked + 1 <= shelf[reading.entry].written + MetadataTtl
            BY <2>1 DEF CacheInv, ReadAged, NoOlder
        <3> QED BY <2>1, <3>1, <3>2, CacheOK DEF ServesFresh
    <2> QED BY <1>2, <2>2, <2>3, <2>4 DEF CacheInv
<1>6. CASE StatContent /\ reading' # NotReading
    <2>1. /\ reading.at = "stat" /\ reading.entry \in Stored
          /\ reading'.at = "touch" /\ reading'.entry = reading.entry
          /\ reading'.asked = reading.asked /\ reading'.got = reading.got
          /\ reading'.mtime = shelf[reading.entry].mtime
        BY <1>6 DEF StatContent
    <2>2. CacheTypes'
        BY <1>1, <2>1, FileFields DEF CacheInv, CacheTypes
    <2>3. /\ shelf[reading.entry].mtime \in Nat /\ shelf[reading.entry].written \in Nat /\ tick \in Nat
          /\ shelf[reading.entry].mtime <= shelf[reading.entry].written
          /\ shelf[reading.entry].written <= tick
        BY <2>1, FileFields DEF CacheInv, CacheTypes, Aged
    <2>4. keeper.op = "rename" /\ keeper.entry = reading.entry =>
             keeper.at \in Nat /\ shelf[reading.entry].written <= keeper.at
        BY <2>1 DEF CacheInv, CacheTypes, Aged
    <2>5. NoOlder(reading.entry, shelf[reading.entry].mtime, 0)
        BY <2>3, <2>4 DEF NoOlder
    <2>6. shelf[reading.entry].mtime <= tick
        BY <2>3
    <2>7. ReadAged'
        BY <1>1, <2>1, <2>5, <2>6, SameFiles DEF CacheInv, ReadAged, NoOlder
    <2>8. ServesFresh'
        BY <2>1 DEF CacheInv, ServesFresh
    <2> QED BY <1>2, <2>2, <2>7, <2>8 DEF CacheInv
<1> QED BY <1>3, <1>4, <1>5, <1>6

\* Setting the times changes no content and, as the modification time may be
\* outdated but is not too late, makes nothing fresher than it is.
LEMMA TouchKeeps == ASSUME CacheInv, Touch PROVE CacheInv'
<1>1. tick' = tick /\ keeper' = keeper /\ reading' = NotReading
    BY DEF Touch
<1>2. CASE shelf' = shelf
    BY <1>1, <1>2, SameFiles
       DEF CacheInv, CacheTypes, Sized, Aged, ReadAged, ServesFresh, NotReading
<1>3. ASSUME NEW e \in Stored, reading.at = "touch", e = reading.entry,
             shelf' = [shelf EXCEPT ![e] = Touched(reading.mtime)]
      PROVE  CacheInv'
    <2> DEFINE f == [shelf[e] EXCEPT !.mtime = reading.mtime, !.atime = tick]
    <2>1. e \in Entries /\ shelf[e] \in StoredFile /\ tick \in Nat /\ reading.mtime \in Nat
        BY <1>3, FileFields DEF CacheInv, CacheTypes
    <2>2. /\ f \in StoredFile /\ f.size = shelf[e].size /\ f.written = shelf[e].written
          /\ f.mtime = reading.mtime
        BY <2>1 DEF StoredFile
    <2>3. shelf' = [shelf EXCEPT ![e] = f]
        BY <1>3 DEF Touched
    <2> HIDE DEF f
    <2>4. \A x \in Entries : shelf'[x] = IF x = e THEN f ELSE shelf[x]
        BY <2>3 DEF CacheInv, CacheTypes
    <2>5. CacheTypes'
        BY <1>1, <2>2, <2>3 DEF CacheInv, CacheTypes, NotReading
    <2>6. Sized'
        <3>1. \A x \in Entries : shelf'[x].size <= shelf[x].size
            <4>1. \A x \in Entries : shelf[x].size \in Nat
                BY DEF CacheInv, CacheTypes, StoredFile, NoEntry
            <4> QED BY <2>1, <2>2, <2>4, <4>1
        <3>2. Volume' <= Volume /\ Volume' \in Nat /\ Volume \in Nat
            BY <2>5, <3>1, VolumeShrinks, WeightsAreNat, NextWeightsAreNat DEF CacheInv
        <3>3. Volume' = Volume
            <4>1. PICK g : IsSum(g, Weights, Entries) /\ Volume = g[Entries]
                BY VolumeIsSum
            <4>2. Weights' = Weights
                BY <2>1, <2>2, <2>4 DEF Weights, Entries
            <4>3. PICK h : IsSum(h, Weights, Entries) /\ Volume' = h[Entries]
                BY <4>2, NextVolumeIsSum DEF IsSum, Entries
            <4>4. Weights \in [Entries -> Nat]
                BY WeightsAreNat DEF CacheInv
            <4>5. \A e1 \in Entries : Weights[e1] <= Weights[e1]
                BY <4>4
            <4>6. h[Entries] <= g[Entries] /\ g[Entries] <= h[Entries]
                BY <4>1, <4>3, <4>4, <4>5, SumMonotone, EntriesFinite
            <4> QED BY <3>2, <4>1, <4>3, <4>6
        <3> QED BY <1>1, <3>3, CacheOK DEF CacheInv, Sized
    <2>7. Aged'
        <3>1. \A x \in Entries : x \in Stored' => x \in Stored
            BY <2>1, <2>4 DEF Stored, StoredFile, NoEntry
        <3>2. reading.mtime <= shelf[e].written
            BY <1>3, <2>1 DEF CacheInv, ReadAged, NoOlder, StoredFile
        <3>3. \A x \in Stored' : x \in Entries
            BY DEF Stored
        <3> QED BY <1>1, <2>2, <2>4, <3>1, <3>2, <3>3 DEF CacheInv, CacheTypes, Aged
    <2> QED BY <1>1, <2>5, <2>6, <2>7 DEF CacheInv, ReadAged, ServesFresh, NotReading
<1> QED BY <1>2, <1>3 DEF Touch

\* Time makes files older, and nothing else.
LEMMA PassTimeKeeps == ASSUME CacheInv, PassTime PROVE CacheInv'
<1>1. shelf' = shelf /\ keeper' = keeper /\ reading' = reading /\ tick' = tick + 1
    BY DEF PassTime
<1>2. tick \in Nat
    BY DEF CacheInv, CacheTypes
<1>3. CacheTypes'
    BY <1>1, <1>2 DEF CacheInv, CacheTypes
<1>4. Aged'
    <2>1. \A e \in Stored : shelf[e].written \in Nat
        BY FileFields DEF CacheInv
    <2> QED BY <1>1, <1>2, <2>1, SameFiles DEF CacheInv, CacheTypes, Aged
<1>5. ReadAged'
    BY <1>1, <1>2, SameFiles DEF CacheInv, CacheTypes, ReadAged, NoOlder
<1> QED BY <1>1, <1>3, <1>4, <1>5, SameFiles DEF CacheInv, Sized, ServesFresh

\* What a read of the cache returns was fresh when it asked, and between two
\* operations the files fit the limit, whatever is written, touched, purged,
\* evicted, cleared or interrupted in between (cache.ts:252, :305).
THEOREM CacheIsSound == CacheSpec => []CacheSound
<1>1. CacheInv => CacheSound
    BY DEF CacheInv, Sized, CacheSound, SizeBounded
<1>2. CacheInv /\ [CacheStep]_cacheVars => CacheInv'
    <2> SUFFICES ASSUME CacheInv, [CacheStep]_cacheVars PROVE CacheInv'
        OBVIOUS
    <2>1. CASE UNCHANGED cacheVars
        <3>1. shelf' = shelf /\ tick' = tick /\ keeper' = keeper /\ reading' = reading
            BY <2>1 DEF cacheVars
        <3> QED BY <3>1, SameFiles
                DEF CacheInv, CacheTypes, Sized, Aged, ReadAged, ServesFresh, NoOlder
    <2>2. CASE CacheStep
        <3>1. Entries \in SUBSET Entries
              /\ \A v \in Videos : {v} \X {"metadata", "cues"} \in SUBSET Entries
            BY DEF Entries
        <3> QED BY <2>2, <3>1, KeeperKeeps, RemovalKeeps, RenameKeeps, ReadingKeeps, TouchKeeps,
                   PassTimeKeeps DEF CacheStep
    <2> QED BY <2>1, <2>2
<1> QED BY CacheInitially, <1>1, <1>2, PTL DEF CacheSpec

-----------------------------------------------------------------------------
(* The cached translations. *)

Heard == {"", "part", "whole"}
Connected ==
    [at : {"cues", "streaming", "keep", "whole", "keepwhole"}, known : [Texts -> Heard],
     working : [Texts -> Heard \cup {"failed"}], next : Nat \ {0}, failed : BOOLEAN]

RelayTypes ==
    /\ strategy \in Strategies /\ curtailed \in BOOLEAN
    /\ relay \in [Relays -> Connected \cup {[at |-> "new"]}]
    /\ memory \in [Texts -> Heard]

\* Without an early end, there is no half-streamed text.
Entire(text, early) == text = "part" => early = TRUE

\* Cue by cue: what a connection has translated are the cues before the next
\* one, all of them unless one has failed, and of the next one what has come in.
ByCue(c, early) ==
    /\ c.at \in {"cues", "streaming", "keep"}
    /\ \A i \in Texts :
          /\ Entire(c.known[i], early) /\ c.working[i] # "failed"
          /\ i < c.next => Entire(c.working[i], early) /\ (c.failed = TRUE \/ Good(c.working[i]))
          /\ i > c.next \/ (i = c.next /\ c.at = "cues") => c.working[i] = ""
    /\ c.at \in {"streaming", "keep"} => c.next \in Texts
    /\ c.at = "keep" =>
          Entire(c.working[c.next], early) /\ (c.failed = TRUE \/ Good(c.working[c.next]))

\* In whole chunks: only a complete translation is about to be cached.
AsWhole(c) ==
    /\ c.at \in {"whole", "keepwhole"}
    /\ \A i \in Texts : c.working[i] # "part"
    /\ c.at = "keepwhole" /\ ~c.failed => \A i \in Texts : Good(c.working[i])

RelayKnown ==
    /\ \A r \in Relays : relay[r].at # "new" =>
          IF strategy = "cues" THEN ByCue(relay[r], curtailed) ELSE AsWhole(relay[r])
    /\ \A i \in Texts : Entire(memory[i], curtailed)
    /\ IF strategy = "whole"
       THEN /\ \A i \in Texts : memory[i] # "part"
            /\ \A i, j \in Texts : Good(memory[i]) => Good(memory[j])
       ELSE \A i, j \in Texts : i < j /\ Good(memory[j]) => Good(memory[i])

RelayInv == RelayTypes /\ RelayKnown

\* Nothing is relayed at the start.
LEMMA RelayInitially == RelayInit => RelayInv
<1> SUFFICES ASSUME RelayInit PROVE RelayInv
    OBVIOUS
<1>1. RelayTypes
    BY DEF RelayInit, RelayTypes, Heard, Blank
<1>2. RelayKnown
    BY DEF RelayInit, RelayKnown, Blank, Good, Entire
<1> QED BY <1>1, <1>2 DEF RelayInv

\* A connection that changes alone, while the cache and what is known of the
\* providers stay.
LEMMA ConnectionKeeps ==
    ASSUME RelayInv, NEW r \in Relays, NEW c \in Connected,
           relay' = [relay EXCEPT ![r] = c],
           IF strategy = "cues" THEN ByCue(c, curtailed) ELSE AsWhole(c),
           UNCHANGED <<strategy, memory, curtailed>>
    PROVE  RelayInv'
<1>1. RelayTypes'
    BY DEF RelayInv, RelayTypes
<1>2. ASSUME NEW q \in Relays, relay'[q].at # "new"
      PROVE  IF strategy = "cues" THEN ByCue(relay'[q], curtailed) ELSE AsWhole(relay'[q])
    <2>1. relay'[q] = IF q = r THEN c ELSE relay[q]
        BY DEF RelayInv, RelayTypes
    <2> QED BY <1>2, <2>1 DEF RelayInv, RelayKnown
<1> QED BY <1>1, <1>2, ZenonT(30) DEF RelayInv, RelayKnown, ByCue, AsWhole, Entire

\* More of the text of the next cue, or all of it.
LEMMA MoreText ==
    ASSUME NEW c \in Connected, NEW early, ByCue(c, early), c.at = "streaming",
           NEW d, NEW text, text # "failed",
           d.at = "streaming", d.known = c.known, d.next = c.next, d.failed = c.failed,
           \A i \in Texts : d.working[i] = IF i = c.next THEN text ELSE c.working[i]
    PROVE  ByCue(d, early)
<1>1. c.next \in Nat /\ \A i \in Texts : i \in Nat
    BY RelaysOK DEF Connected, Texts
<1>2. ASSUME NEW i \in Texts
      PROVE  /\ Entire(d.known[i], early) /\ d.working[i] # "failed"
             /\ i < d.next => Entire(d.working[i], early) /\ (d.failed = TRUE \/ Good(d.working[i]))
             /\ i > d.next \/ (i = d.next /\ d.at = "cues") => d.working[i] = ""
    <2>1. d.working[i] # "failed" /\ Entire(d.known[i], early)
        BY DEF ByCue
    <2>2. ASSUME i < d.next PROVE Entire(d.working[i], early) /\ (d.failed = TRUE \/ Good(d.working[i]))
        <3>1. i < c.next /\ d.working[i] = c.working[i]
            BY <1>1, <2>2
        <3> QED BY <3>1 DEF ByCue
    <2>3. ASSUME i > d.next PROVE d.working[i] = ""
        <3>1. i > c.next /\ d.working[i] = c.working[i]
            BY <1>1, <2>3
        <3> QED BY <3>1 DEF ByCue
    <2> QED BY <2>1, <2>2, <2>3
<1> QED BY <1>2 DEF ByCue

\* On to the line after the next cue, with a text for it that is whole or cached.
LEMMA NextLine ==
    ASSUME NEW c \in Connected, NEW early, ByCue(c, early), NEW d, NEW text, text # "failed",
           Entire(text, early), d.failed = TRUE \/ Good(text), c.failed = TRUE => d.failed = TRUE,
           d.at = "cues", d.known = c.known, d.next = c.next + 1,
           \A i \in Texts : d.working[i] = IF i = c.next THEN text ELSE c.working[i]
    PROVE  ByCue(d, early)
<1>1. c.next \in Nat /\ \A i \in Texts : i \in Nat
    BY RelaysOK DEF Connected, Texts
<1>2. ASSUME NEW i \in Texts
      PROVE  /\ Entire(d.known[i], early) /\ d.working[i] # "failed"
             /\ i < d.next => Entire(d.working[i], early) /\ (d.failed = TRUE \/ Good(d.working[i]))
             /\ i > d.next \/ (i = d.next /\ d.at = "cues") => d.working[i] = ""
    <2>1. d.working[i] # "failed" /\ Entire(d.known[i], early)
        BY DEF ByCue
    <2>2. ASSUME i < d.next PROVE Entire(d.working[i], early) /\ (d.failed = TRUE \/ Good(d.working[i]))
        <3>1. CASE i < c.next
            <4>1. d.working[i] = c.working[i]
                BY <1>1, <3>1
            <4> QED BY <3>1, <4>1 DEF ByCue
        <3>2. CASE i = c.next
            BY <3>2
        <3>3. i < c.next \/ i = c.next
            BY <1>1, <2>2
        <3> QED BY <3>1, <3>2, <3>3
    <2>3. ASSUME i > d.next \/ i = d.next PROVE d.working[i] = ""
        <3>1. i > c.next /\ d.working[i] = c.working[i]
            BY <1>1, <2>3
        <3> QED BY <3>1 DEF ByCue
    <2> QED BY <2>1, <2>2, <2>3
<1> QED BY <1>2 DEF ByCue

\* A relay begins, takes in a part of a line, or fails.
LEMMA CuesKeep ==
    ASSUME RelayInv, NEW r \in Relays,
           OpenRelay(r) \/ BeginLine(r) \/ Chunk(r) \/ RelayFails(r)
    PROVE  RelayInv'
<1> DEFINE c == relay[r]
<1>1. CASE RelayFails(r) \/ (BeginLine(r) /\ c.next > CueCount)
    <2>1. relay' = [relay EXCEPT ![r] = [at |-> "new"]] /\ UNCHANGED <<strategy, memory, curtailed>>
        BY <1>1 DEF RelayFails, BeginLine, Line, Over, Becomes
    <2> QED BY <2>1, ZenonT(30) DEF RelayInv, RelayTypes, RelayKnown, ByCue, AsWhole, Entire
<1>2. CASE OpenRelay(r)
    <2> DEFINE d == [at |-> strategy, known |-> memory, working |-> Blank, next |-> 1, failed |-> FALSE]
    <2>1. d \in Connected
        <3>1. Blank \in [Texts -> Heard \cup {"failed"}] /\ memory \in [Texts -> Heard]
            BY DEF RelayInv, RelayTypes, Blank, Heard
        <3>2. strategy \in {"cues", "streaming", "keep", "whole", "keepwhole"} /\ 1 \in Nat \ {0}
            BY DEF RelayInv, RelayTypes, Strategies
        <3> QED BY <3>1, <3>2 DEF Connected
    <2>2. IF strategy = "cues" THEN ByCue(d, curtailed) ELSE AsWhole(d)
        <3>1. /\ d.at = strategy /\ d.known = memory /\ d.next = 1
              /\ \A i \in Texts : d.working[i] = "" /\ ~(i < 1)
              /\ strategy \in {"cues", "whole"}
            BY RelaysOK DEF Blank, Texts, RelayInv, RelayTypes, Strategies
        <3> HIDE DEF d
        <3> QED BY <3>1 DEF RelayInv, RelayKnown, ByCue, AsWhole
    <2> HIDE DEF d
    <2>3. relay' = [relay EXCEPT ![r] = d] /\ UNCHANGED <<strategy, memory, curtailed>>
        BY <1>2 DEF OpenRelay, Becomes, d
    <2> QED BY <2>1, <2>2, <2>3, ConnectionKeeps
<1>3. CASE BeginLine(r) /\ ~(c.next > CueCount)
    <2>1. c.at = "cues" /\ UNCHANGED <<strategy, memory, curtailed>>
        BY <1>3 DEF BeginLine
    <2>2. c \in Connected /\ ByCue(c, curtailed) /\ strategy = "cues"
        BY <2>1 DEF RelayInv, RelayTypes, RelayKnown, AsWhole
    <2>3. c.next \in Texts
        BY <1>3, <2>2, RelaysOK DEF Texts, Connected
    <2> DEFINE d1 == [c EXCEPT !.working = [c.working EXCEPT ![c.next] = c.known[c.next]], !.next = c.next + 1]
               d2 == [c EXCEPT !.at = "streaming", !.working = [c.working EXCEPT ![c.next] = ""]]
    <2>4. CASE Good(c.known[c.next]) /\ relay' = [relay EXCEPT ![r] = d1]
        <3>1. /\ [c.working EXCEPT ![c.next] = c.known[c.next]] \in [Texts -> Heard \cup {"failed"}]
              /\ c.next + 1 \in Nat \ {0}
            BY <2>2, <2>3 DEF Connected
        <3>2. d1 \in Connected
            BY <2>2, <3>1 DEF Connected
        <3>3. /\ d1.at = "cues" /\ d1.known = c.known /\ d1.next = c.next + 1
              /\ d1.failed = c.failed
            BY <2>1, <2>2 DEF Connected
        <3>4. \A i \in Texts : d1.working[i] = IF i = c.next THEN c.known[c.next] ELSE c.working[i]
            BY <2>2 DEF Connected
        <3>5. Entire(c.known[c.next], curtailed) /\ c.known[c.next] # "failed"
            BY <2>2, <2>3, <2>4 DEF ByCue, Good
        <3> HIDE DEF d1
        <3>6. ByCue(d1, curtailed)
            BY <2>2, <2>4, <3>3, <3>4, <3>5, NextLine, ZenonT(30)
        <3> QED BY <2>1, <2>2, <2>4, <3>2, <3>6, ConnectionKeeps
    <2>5. CASE relay' = [relay EXCEPT ![r] = d2]
        <3>1. d2 \in Connected
            BY <2>2, <2>3 DEF Connected, Heard
        <3>2. ByCue(d2, curtailed)
            BY <2>1, <2>2, <2>3, RelaysOK DEF Connected, ByCue, Texts
        <3> QED BY <2>1, <2>2, <2>5, <3>1, <3>2, ConnectionKeeps
    <2> QED BY <1>3, <2>4, <2>5 DEF BeginLine, Becomes, Now, Line
<1>4. CASE Chunk(r)
    <2>1. c.at = "streaming" /\ UNCHANGED <<strategy, memory, curtailed>>
        BY <1>4 DEF Chunk, Streaming
    <2>2. c \in Connected /\ ByCue(c, curtailed) /\ strategy = "cues"
        BY <2>1 DEF RelayInv, RelayTypes, RelayKnown, AsWhole
    <2>3. PICK text \in {"part", "whole"} :
             relay' = [relay EXCEPT ![r] = [c EXCEPT !.working = [c.working EXCEPT ![c.next] = text]]]
        BY <1>4 DEF Chunk, Becomes, Now, Line
    <2> DEFINE d == [c EXCEPT !.working = [c.working EXCEPT ![c.next] = text]]
    <2>4. d \in Connected
        BY <2>1, <2>2 DEF Connected, ByCue, Heard
    <2>5. ByCue(d, curtailed)
        <3>1. /\ d.at = "streaming" /\ d.known = c.known /\ d.next = c.next
              /\ d.failed = c.failed /\ text # "failed"
              /\ \A i \in Texts : d.working[i] = IF i = c.next THEN text ELSE c.working[i]
              /\ \A i \in Texts : i \in Nat
              /\ c.next \in Nat
            BY <2>1, <2>2, RelaysOK DEF Connected, Texts
        <3> HIDE DEF d
        <3> QED BY <2>1, <2>2, <3>1, MoreText
    <2> QED BY <2>1, <2>2, <2>3, <2>4, <2>5, ConnectionKeeps
<1> QED BY <1>1, <1>2, <1>3, <1>4

\* A stream that ends is complete, or a provider has closed it early.
LEMMA EndedLine ==
    ASSUME NEW c \in Connected, NEW early \in BOOLEAN, ByCue(c, early), c.at = "streaming",
           NEW d, d.at = "keep", d.known = c.known, d.next = c.next, d.working = c.working,
           c.failed = TRUE \/ c.working[c.next] = "" => d.failed = TRUE,
           NEW later \in BOOLEAN, early = TRUE \/ c.working[c.next] = "part" => later = TRUE
    PROVE  ByCue(d, later)
<1>1. c.next \in Texts
    BY DEF ByCue
<1>2. \A text : Entire(text, early) => Entire(text, later)
    BY DEF Entire
<1>3. Entire(c.working[c.next], later) /\ (d.failed = TRUE \/ Good(c.working[c.next]))
    BY <1>1 DEF Entire, Good, ByCue
<1>4. ASSUME NEW i \in Texts
      PROVE  /\ Entire(d.known[i], later) /\ d.working[i] # "failed"
             /\ i < d.next => Entire(d.working[i], later) /\ (d.failed = TRUE \/ Good(d.working[i]))
             /\ i > d.next \/ (i = d.next /\ d.at = "cues") => d.working[i] = ""
    <2>1. /\ Entire(c.known[i], early) /\ c.working[i] # "failed"
          /\ i < c.next => Entire(c.working[i], early) /\ (c.failed = TRUE \/ Good(c.working[i]))
          /\ i > c.next => c.working[i] = ""
        BY DEF ByCue
    <2> QED BY <1>2, <2>1
<1> QED BY <1>1, <1>3, <1>4 DEF ByCue

\* A line of the relay is complete.
LEMMA EndLineKeeps ==
    ASSUME RelayInv, NEW r \in Relays, EndLine(r)
    PROVE  RelayInv'
<1> DEFINE c == relay[r]
           said == c.working[c.next]
           d == [c EXCEPT !.at = "keep", !.failed = c.failed \/ said = ""]
<1>1. c.at = "streaming" /\ UNCHANGED <<strategy, memory>>
    BY DEF EndLine, Streaming
<1>2. c \in Connected /\ ByCue(c, curtailed) /\ strategy = "cues" /\ curtailed \in BOOLEAN
    BY <1>1 DEF RelayInv, RelayTypes, RelayKnown, AsWhole
<1>3. /\ relay' = [relay EXCEPT ![r] = d]
      /\ curtailed' = (curtailed \/ said = "part")
    BY DEF EndLine, Becomes, Said, Line
<1>4. d \in Connected
    <2>1. (c.failed \/ said = "") \in BOOLEAN
        OBVIOUS
    <2> QED BY <1>2, <2>1 DEF Connected
<1>5. /\ d.at = "keep" /\ d.known = c.known /\ d.next = c.next /\ d.working = c.working
      /\ d.failed = (c.failed \/ said = "")
    BY <1>2 DEF Connected
<1>6. /\ curtailed' \in BOOLEAN
      /\ curtailed = TRUE \/ said = "part" => curtailed' = TRUE
      /\ c.failed = TRUE \/ said = "" => d.failed = TRUE
    BY <1>2, <1>3, <1>5
<1> HIDE DEF d
<1>7. ByCue(d, curtailed')
    BY <1>1, <1>2, <1>5, <1>6, EndedLine
<1>8. RelayTypes'
    BY <1>1, <1>2, <1>3, <1>4, <1>6 DEF RelayInv, RelayTypes
<1>9. \A text : Entire(text, curtailed) => Entire(text, curtailed')
    BY <1>6 DEF Entire
<1>10. \A q : ByCue(q, curtailed) => ByCue(q, curtailed')
    BY <1>9 DEF ByCue
<1>11. \A q \in Relays : relay'[q] = IF q = r THEN d ELSE relay[q]
    BY <1>3 DEF RelayInv, RelayTypes
<1> QED BY <1>1, <1>2, <1>7, <1>8, <1>9, <1>10, <1>11 DEF RelayInv, RelayKnown

\* A complete line is cached.
LEMMA KeepLineKeeps ==
    ASSUME RelayInv, NEW r \in Relays, KeepLine(r)
    PROVE  RelayInv'
<1> DEFINE c == relay[r]
           d == [c EXCEPT !.at = "cues", !.next = c.next + 1]
<1>1. c.at = "keep" /\ UNCHANGED <<strategy, curtailed>>
    BY DEF KeepLine
<1>2. c \in Connected /\ ByCue(c, curtailed) /\ strategy = "cues"
    BY <1>1 DEF RelayInv, RelayTypes, RelayKnown, AsWhole
<1>3. /\ relay' = [relay EXCEPT ![r] = d]
      /\ memory' = IF c.failed THEN memory ELSE c.working
    BY DEF KeepLine, Becomes, Kept
<1>4. d \in Connected
    <2>1. c.next + 1 \in Nat \ {0}
        BY <1>2 DEF Connected
    <2> QED BY <1>2, <2>1 DEF Connected
<1>5. /\ d.at = "cues" /\ d.known = c.known /\ d.next = c.next + 1 /\ d.working = c.working
      /\ d.failed = c.failed
    BY <1>2 DEF Connected
<1>6. c.next \in Texts /\ c.next \in Nat /\ \A i \in Texts : i \in Nat
    <2>1. c.next \in Texts
        BY <1>1, <1>2 DEF ByCue
    <2>2. \A i \in Texts : i \in Nat
        BY RelaysOK DEF Texts
    <2> QED BY <2>1, <2>2
<1> HIDE DEF d
<1>7. ByCue(d, curtailed)
    <2>1. /\ c.working[c.next] # "failed" /\ Entire(c.working[c.next], curtailed)
          /\ d.failed = TRUE \/ Good(c.working[c.next])
        BY <1>1, <1>2, <1>5, <1>6 DEF ByCue
    <2>2. \A i \in Texts : d.working[i] = IF i = c.next THEN c.working[c.next] ELSE c.working[i]
        BY <1>5
    <2> QED BY <1>2, <1>5, <2>1, <2>2, NextLine
<1>8. /\ memory' \in [Texts -> Heard]
      /\ \A i \in Texts : Entire(memory'[i], curtailed)
      /\ \A i, j \in Texts : i < j /\ Good(memory'[j]) => Good(memory'[i])
    <2>1. CASE c.failed = TRUE
        BY <1>2, <1>3, <2>1 DEF RelayInv, RelayTypes, RelayKnown
    <2>2. CASE c.failed # TRUE
        <3>1. memory' = c.working
            BY <1>2, <1>3, <2>2 DEF Connected
        <3>2. \A i \in Texts : c.working[i] \in Heard
            BY <1>2 DEF ByCue, Connected
        <3>3. \A i \in Texts : IF i > c.next THEN c.working[i] = ""
                               ELSE Good(c.working[i]) /\ Entire(c.working[i], curtailed)
            <4> SUFFICES ASSUME NEW i \in Texts
                         PROVE  IF i > c.next THEN c.working[i] = ""
                                ELSE Good(c.working[i]) /\ Entire(c.working[i], curtailed)
                OBVIOUS
            <4>1. i > c.next \/ i = c.next \/ i < c.next
                BY <1>6
            <4>2. i > c.next => c.working[i] = ""
                BY <1>2 DEF ByCue
            <4>3. i < c.next => Good(c.working[i]) /\ Entire(c.working[i], curtailed)
                BY <1>2, <2>2 DEF ByCue
            <4>4. i = c.next => Good(c.working[i]) /\ Entire(c.working[i], curtailed)
                BY <1>1, <1>2, <2>2 DEF ByCue
            <4> QED BY <4>1, <4>2, <4>3, <4>4
        <3>4. memory' \in [Texts -> Heard]
            BY <1>2, <3>1, <3>2 DEF Connected
        <3>5. ~Good("") /\ Entire("", curtailed)
            BY DEF Good, Entire
        <3>6. \A i \in Texts : Entire(c.working[i], curtailed)
            BY <3>3, <3>5
        <3>7. ASSUME NEW i \in Texts, NEW j \in Texts, i < j, Good(c.working[j])
              PROVE  Good(c.working[i])
            <4>1. ~(j > c.next)
                BY <3>3, <3>5, <3>7
            <4>2. ~(i > c.next)
                BY <1>6, <3>7, <4>1
            <4> QED BY <3>3, <4>2
        <3> QED BY <3>1, <3>4, <3>6, <3>7
    <2> QED BY <2>1, <2>2
<1>9. \A q \in Relays : relay'[q] = IF q = r THEN d ELSE relay[q]
    BY <1>3 DEF RelayInv, RelayTypes
<1>10. RelayTypes'
    BY <1>1, <1>3, <1>4, <1>8 DEF RelayInv, RelayTypes
<1> QED BY <1>1, <1>2, <1>7, <1>8, <1>9, <1>10 DEF RelayInv, RelayKnown

\* A request for a chunk is answered, for every cue of it, with the whole
\* text, a failure or nothing.
LEMMA Answered ==
    ASSUME NEW r \in Relays, NEW texts \in WholeAnswers(r)
    PROVE  \A i \in ChunkOf(r) : texts[i] \in Batch
<1> DEFINE chunk == ChunkOf(r)
           Filled(got) == {[i \in chunk |-> IF i \in got THEN "whole" ELSE rest[i]] : rest \in [chunk -> Single]}
<1>1. PICK got \in SUBSET chunk :
         texts \in (IF 2 * Cardinality(got) < Cardinality(chunk) THEN [chunk -> Batch] ELSE Filled(got))
    BY DEF WholeAnswers
<1>2. CASE texts \in [chunk -> Batch]
    BY <1>2
<1>3. CASE texts \in Filled(got)
    <2>1. PICK rest \in [chunk -> Single] : texts = [i \in chunk |-> IF i \in got THEN "whole" ELSE rest[i]]
        BY <1>3
    <2> QED BY <2>1 DEF Single, Batch
<1> QED BY <1>1, <1>2, <1>3

\* A document that is not relayed line by line is translated, and sent.
LEMMA WholeKeeps ==
    ASSUME RelayInv, NEW r \in Relays, TranslateChunk(r) \/ SendWhole(r)
    PROVE  RelayInv'
<1> DEFINE c == relay[r]
<1>1. c.at = "whole" /\ UNCHANGED <<strategy, memory, curtailed>>
    BY DEF TranslateChunk, SendWhole
<1>2. c \in Connected /\ AsWhole(c) /\ strategy = "whole" /\ strategy # "cues"
    <2>1. c \in Connected
        BY <1>1 DEF RelayInv, RelayTypes
    <2>2. IF strategy = "cues" THEN ByCue(c, curtailed) ELSE AsWhole(c)
        BY <1>1 DEF RelayInv, RelayKnown
    <2>3. strategy # "cues"
        BY <1>1, <2>2 DEF ByCue
    <2> QED BY <2>1, <2>2, <2>3 DEF RelayInv, RelayTypes, Strategies
<1>3. CASE TranslateChunk(r)
    <2>1. PICK texts \in WholeAnswers(r) :
             relay' = [relay EXCEPT ![r] = [c EXCEPT !.next = c.next + WholeChunk,
                         !.working = [i \in Texts |-> IF i \in ChunkOf(r) THEN texts[i] ELSE c.working[i]]]]
        BY <1>3 DEF TranslateChunk, Becomes
    <2> DEFINE w == [i \in Texts |-> IF i \in ChunkOf(r) THEN texts[i] ELSE c.working[i]]
               d == [c EXCEPT !.next = c.next + WholeChunk, !.working = w]
    <2>2. w \in [Texts -> Heard \cup {"failed"}] /\ \A i \in Texts : w[i] # "part"
        <3>1. \A i \in Texts : c.working[i] \in Heard \cup {"failed"} /\ c.working[i] # "part"
            BY <1>2 DEF AsWhole, Connected
        <3>2. \A i \in ChunkOf(r) : texts[i] \in Heard \cup {"failed"} /\ texts[i] # "part"
            BY Answered DEF Heard, Batch
        <3> QED BY <3>1, <3>2
    <2>3. c.next + WholeChunk \in Nat \ {0}
        BY <1>2, RelaysOK DEF Connected
    <2> HIDE DEF w
    <2>4. d \in Connected /\ d.at = "whole" /\ d.working = w
        BY <1>1, <1>2, <2>2, <2>3 DEF Connected
    <2>5. relay' = [relay EXCEPT ![r] = d]
        BY <2>1 DEF w
    <2> HIDE DEF d
    <2>6. AsWhole(d)
        BY <2>2, <2>4 DEF AsWhole
    <2> QED BY <1>1, <1>2, <2>4, <2>5, <2>6, ConnectionKeeps
<1>4. CASE SendWhole(r)
    <2> DEFINE d == [c EXCEPT !.at = "keepwhole", !.failed = AnyFailed(c.working)]
    <2>1. AnyFailed(c.working) \in BOOLEAN
        BY DEF AnyFailed
    <2>2. d \in Connected
        BY <1>2, <2>1 DEF Connected
    <2>3. d.at = "keepwhole" /\ d.working = c.working /\ d.failed = AnyFailed(c.working)
        BY <1>2 DEF Connected
    <2>4. relay' = [relay EXCEPT ![r] = d]
        BY <1>4 DEF SendWhole, Becomes
    <2> HIDE DEF d
    <2>5. AsWhole(d)
        BY <1>2, <2>3 DEF AsWhole, AnyFailed
    <2> QED BY <1>1, <1>2, <2>2, <2>4, <2>5, ConnectionKeeps
<1> QED BY <1>3, <1>4

\* It is cached as a whole.
LEMMA KeepWholeKeeps ==
    ASSUME RelayInv, NEW r \in Relays, KeepWhole(r)
    PROVE  RelayInv'
<1> DEFINE c == relay[r]
<1>1. c.at = "keepwhole" /\ UNCHANGED <<strategy, curtailed>>
    BY DEF KeepWhole
<1>2. c \in Connected /\ AsWhole(c) /\ strategy = "whole" /\ strategy # "cues"
    <2>1. c \in Connected
        BY <1>1 DEF RelayInv, RelayTypes
    <2>2. IF strategy = "cues" THEN ByCue(c, curtailed) ELSE AsWhole(c)
        BY <1>1 DEF RelayInv, RelayKnown
    <2>3. strategy # "cues"
        BY <1>1, <2>2 DEF ByCue
    <2> QED BY <2>1, <2>2, <2>3 DEF RelayInv, RelayTypes, Strategies
<1>3. /\ relay' = [relay EXCEPT ![r] = [at |-> "new"]]
      /\ memory' = IF c.failed THEN memory ELSE c.working
    BY DEF KeepWhole, Over, Becomes, Kept
<1>4. /\ memory' \in [Texts -> Heard]
      /\ \A i \in Texts : memory'[i] # "part" /\ Entire(memory'[i], curtailed)
      /\ \A i, j \in Texts : Good(memory'[i]) => Good(memory'[j])
    <2>1. CASE c.failed = TRUE
        BY <1>2, <1>3, <2>1 DEF RelayInv, RelayTypes, RelayKnown
    <2>2. CASE c.failed # TRUE
        <3>1. memory' = c.working
            BY <1>2, <1>3, <2>2 DEF Connected
        <3>2. \A i \in Texts : c.working[i] = "whole"
            BY <1>1, <1>2, <2>2 DEF AsWhole, Connected, Heard, Good
        <3>3. Good("whole") /\ Entire("whole", curtailed) /\ "whole" \in Heard
            BY DEF Good, Entire, Heard
        <3> QED BY <1>2, <3>1, <3>2, <3>3 DEF Connected
    <2> QED BY <2>1, <2>2
<1>5. \A q \in Relays : relay'[q] = IF q = r THEN [at |-> "new"] ELSE relay[q]
    BY <1>3 DEF RelayInv, RelayTypes
<1>6. RelayTypes'
    BY <1>1, <1>3, <1>4 DEF RelayInv, RelayTypes
<1> QED BY <1>1, <1>2, <1>4, <1>5, <1>6 DEF RelayInv, RelayKnown

\* Whatever a connection, a provider or a viewer does, what is cached is whole
\* translations, of the first cues or of all of them (websocket.ts:144).
THEOREM CachedWhole == RelaySpec => []CachedIsWhole
<1>1. RelayInv => CachedIsWhole
    <2>1. RelayInv => \A i \in Texts : memory[i] \in Heard /\ Entire(memory[i], curtailed)
        BY DEF RelayInv, RelayTypes, RelayKnown
    <2> QED BY <2>1 DEF RelayInv, RelayKnown, CachedIsWhole, Entire, Heard
<1>2. RelayInv /\ [RelayStep]_relayVars => RelayInv'
    <2> SUFFICES ASSUME RelayInv, [RelayStep]_relayVars PROVE RelayInv'
        OBVIOUS
    <2>1. CASE UNCHANGED relayVars
        BY <2>1 DEF relayVars, RelayInv, RelayTypes, RelayKnown
    <2>2. CASE RelayStep
        BY <2>2, CuesKeep, EndLineKeeps, KeepLineKeeps, WholeKeeps, KeepWholeKeeps DEF RelayStep
    <2> QED BY <2>1, <2>2
<1> QED BY RelayInitially, <1>1, <1>2, PTL DEF RelaySpec

-----------------------------------------------------------------------------
(* The captions of the page. *)

Capture == [clip : Clips, rank : {0, 1}, direct : BOOLEAN]
OnePerClip(seq) == \A j, k \in DOMAIN seq : seq[j].clip = seq[k].clip => j = k

\* Removing an element leaves the others in their order.
LEMMA Removal ==
    ASSUME NEW seq \in Seq(Capture), NEW j \in DOMAIN seq, OnePerClip(seq)
    PROVE  LET rest == RemoveAt(seq, j)
           IN  /\ rest \in Seq(Capture) /\ OnePerClip(rest)
               /\ \A k \in DOMAIN rest : \E m \in DOMAIN seq : rest[k] = seq[m] /\ m # j
<1> DEFINE n == Len(seq)
           front == SubSeq(seq, 1, j - 1)
           back == SubSeq(seq, j + 1, n)
           rest == front \o back
           from(k) == IF k < j THEN k ELSE k + 1
<1>1. n \in Nat /\ DOMAIN seq = 1 .. n /\ j \in 1 .. n
    OBVIOUS
<1>2. /\ front \in Seq(Capture) /\ Len(front) = j - 1
      /\ \A k \in 1 .. j - 1 : front[k] = seq[k]
    BY <1>1
<1>3. /\ back \in Seq(Capture) /\ Len(back) = n - j
      /\ \A k \in 1 .. n - j : back[k] = seq[j + k]
    BY <1>1
<1> HIDE DEF front, back
<1>4. /\ rest \in Seq(Capture) /\ Len(rest) = n - 1 /\ DOMAIN rest = 1 .. n - 1
      /\ \A k \in 1 .. n - 1 : rest[k] = IF k < j THEN front[k] ELSE back[k - (j - 1)]
    <2>1. /\ rest \in Seq(Capture) /\ Len(rest) = Len(front) + Len(back)
          /\ \A k \in 1 .. Len(front) + Len(back) :
                rest[k] = IF k <= Len(front) THEN front[k] ELSE back[k - Len(front)]
        BY <1>2, <1>3, ConcatProperties
    <2> HIDE DEF rest, n
    <2>2. Len(rest) = n - 1 /\ Len(front) = j - 1
        BY <1>1, <1>2, <1>3, <2>1
    <2>3. DOMAIN rest = 1 .. n - 1
        BY <2>1, <2>2
    <2>4. \A k \in 1 .. n - 1 : rest[k] = IF k < j THEN front[k] ELSE back[k - (j - 1)]
        <3>1. Len(front) + Len(back) = n - 1
            BY <2>1, <2>2
        <3>2. \A k \in 1 .. n - 1 : rest[k] = IF k <= j - 1 THEN front[k] ELSE back[k - (j - 1)]
            BY <2>1, <2>2, <3>1
        <3>3. \A k \in 1 .. n - 1 : k <= j - 1 <=> k < j
            BY <1>1
        <3> QED BY <3>2, <3>3
    <2> QED BY <2>1, <2>2, <2>3, <2>4
<1>5. \A k \in 1 .. n - 1 : rest[k] = seq[from(k)] /\ from(k) \in DOMAIN seq /\ from(k) # j
    <2> SUFFICES ASSUME NEW k \in 1 .. n - 1
                 PROVE  rest[k] = seq[from(k)] /\ from(k) \in DOMAIN seq /\ from(k) # j
        OBVIOUS
    <2>1. CASE k < j
        <3> HIDE DEF rest, n
        <3> QED BY <1>1, <1>2, <1>4, <2>1
    <2>2. CASE k >= j
        <3> HIDE DEF rest, n
        <3>1. rest[k] = back[k - (j - 1)] /\ k - (j - 1) \in 1 .. n - j
            BY <1>1, <1>4, <2>2
        <3>2. back[k - (j - 1)] = seq[j + (k - (j - 1))] /\ j + (k - (j - 1)) = k + 1
            BY <1>1, <1>3, <2>2, <3>1
        <3> QED BY <1>1, <2>2, <3>1, <3>2
    <2>3. k \in Int /\ j \in Int
        BY <1>1
    <2> HIDE DEF rest
    <2> QED BY <2>1, <2>2, <2>3
<1>6. OnePerClip(rest)
    <2>1. \A k, l \in 1 .. n - 1 : from(k) = from(l) => k = l
        BY <1>1
    <2> HIDE DEF from, rest
    <2> QED BY <1>4, <1>5, <2>1, SMTT(30) DEF OnePerClip
<1>7. RemoveAt(seq, j) = rest
    BY DEF RemoveAt, front, back
<1> HIDE DEF rest
<1> QED BY <1>1, <1>4, <1>5, <1>6, <1>7

\* A new capture is kept, the captures of other videos are kept as they were
\* or make room.
LEMMA Making ==
    ASSUME NEW seq \in Seq(Capture), OnePerClip(seq), NEW c \in Capture,
           \A k \in DOMAIN seq : seq[k].clip # c.clip
    PROVE  LET stored == Room(Append(seq, c))
           IN  /\ stored \in Seq(Capture) /\ OnePerClip(stored)
               /\ \A k \in DOMAIN stored : stored[k] = c \/ \E m \in DOMAIN seq : stored[k] = seq[m]
               /\ \E k \in DOMAIN stored : stored[k] = c
<1> DEFINE all == Append(seq, c)
           n == Len(seq) + 1
           d == IF n > MaxCaptured THEN 2 ELSE 1
           stored == SubSeq(all, d, n)
<1>1. /\ all \in Seq(Capture) /\ Len(all) = n /\ n \in Nat \ {0} /\ DOMAIN all = 1 .. n /\ all[n] = c
      /\ \A k \in 1 .. n - 1 : all[k] = seq[k]
      /\ DOMAIN seq = 1 .. n - 1
    OBVIOUS
<1>2. d \in {1, 2} /\ d <= n
    BY <1>1, BridgeOK
<1> HIDE DEF all, n, d
<1>3. /\ stored \in Seq(Capture) /\ DOMAIN stored = 1 .. n - d + 1
      /\ \A k \in 1 .. n - d + 1 : stored[k] = all[k + d - 1]
    BY <1>1, <1>2
<1>4. OnePerClip(all)
    BY <1>1 DEF OnePerClip
<1> HIDE DEF stored
<1>5. OnePerClip(stored)
    <2> SUFFICES ASSUME NEW j \in 1 .. n - d + 1, NEW k \in 1 .. n - d + 1, stored[j].clip = stored[k].clip
                 PROVE  j = k
        BY <1>3 DEF OnePerClip
    <2>1. j + d - 1 \in 1 .. n /\ k + d - 1 \in 1 .. n /\ stored[j] = all[j + d - 1] /\ stored[k] = all[k + d - 1]
        BY <1>1, <1>2, <1>3
    <2>2. j + d - 1 = k + d - 1
        BY <1>1, <1>4, <2>1 DEF OnePerClip
    <2> QED BY <1>2, <2>2
<1>6. \A k \in DOMAIN stored : stored[k] = c \/ \E m \in DOMAIN seq : stored[k] = seq[m]
    <2> SUFFICES ASSUME NEW k \in 1 .. n - d + 1 PROVE stored[k] = c \/ \E m \in DOMAIN seq : stored[k] = seq[m]
        BY <1>3
    <2>1. k + d - 1 \in 1 .. n /\ stored[k] = all[k + d - 1]
        BY <1>1, <1>2, <1>3
    <2> QED BY <1>1, <2>1
<1>7. stored[n - d + 1] = c /\ n - d + 1 \in DOMAIN stored
    <2>1. n - d + 1 \in 1 .. n - d + 1 /\ (n - d + 1) + d - 1 = n
        BY <1>1, <1>2
    <2> QED BY <1>1, <1>3, <2>1
<1>8. Room(Append(seq, c)) = stored
    BY <1>1 DEF Room, stored, d, all
<1> QED BY <1>3, <1>5, <1>6, <1>7, <1>8

\* What is stored: the capture of its own video is the better of the two and
\* direct if either is; those of other videos are the ones there were.
CapturesOK == captured \in Seq(Capture) /\ OnePerClip(captured)

Holds(seq, clip) == \E k \in DOMAIN seq : seq[k].clip = clip
HoldsDirect(seq, clip) == \E k \in DOMAIN seq : seq[k].clip = clip /\ seq[k].direct = TRUE

\* The two questions the bridge asks of its captures.
LEMMA CapturesHeld ==
    ASSUME CapturesOK, NEW clip
    PROVE  (CapturesOf(clip) # {} <=> Holds(captured, clip)) /\ (Direct(clip) <=> HoldsDirect(captured, clip))
<1>1. \A k \in DOMAIN captured : captured[k].direct \in BOOLEAN
    <2>1. \A k \in DOMAIN captured : captured[k] \in Capture
        BY DEF CapturesOK
    <2> QED BY <2>1 DEF Capture
<1>2. CapturesOf(clip) # {} <=> Holds(captured, clip)
    BY DEF CapturesOf, Holds
<1>3. Direct(clip) <=> HoldsDirect(captured, clip)
    BY <1>1 DEF CapturesOf, Direct, HoldsDirect
<1> QED BY <1>2, <1>3

\* A capture that is stored is found, unless it is worse than what was there.
LEMMA Storing ==
    ASSUME CapturesOK, NEW clip \in Clips, NEW rank \in {0, 1}, NEW direct \in BOOLEAN,
           captured' = StoredCaptures(clip, rank, direct)
    PROVE  /\ CapturesOK'
           /\ Holds(captured', clip)
           /\ direct = TRUE \/ HoldsDirect(captured, clip) => HoldsDirect(captured', clip)
           /\ \A other : other # clip /\ Holds(captured', other) =>
                 /\ Holds(captured, other)
                 /\ HoldsDirect(captured, other) => HoldsDirect(captured', other)
<1>1. CASE Better(clip, rank)
    <2> DEFINE c == [clip |-> clip, rank |-> rank, direct |-> direct \/ Direct(clip)]
               rest == Others(clip)
    <2>1. /\ rest \in Seq(Capture) /\ OnePerClip(rest)
          /\ \A k \in DOMAIN rest : \E m \in DOMAIN captured : rest[k] = captured[m]
          /\ \A k \in DOMAIN rest : rest[k].clip # clip
        <3>1. CASE CapturesOf(clip) = {}
            BY <3>1 DEF Others, CapturesOf, CapturesOK
        <3>2. CASE CapturesOf(clip) # {}
            <4> DEFINE j == CHOOSE k \in CapturesOf(clip) : TRUE
            <4>1. j \in CapturesOf(clip)
                BY <3>2
            <4> HIDE DEF j
            <4>2. j \in DOMAIN captured /\ captured[j].clip = clip
                BY <4>1 DEF CapturesOf
            <4>3. rest = RemoveAt(captured, j)
                BY <3>2 DEF Others, j
            <4> HIDE DEF rest
            <4>4. /\ rest \in Seq(Capture) /\ OnePerClip(rest)
                  /\ \A k \in DOMAIN rest : \E m \in DOMAIN captured : rest[k] = captured[m] /\ m # j
                BY <4>2, <4>3, Removal DEF CapturesOK
            <4>5. \A m \in DOMAIN captured : m # j => captured[m].clip # clip
                BY <4>2 DEF CapturesOK, OnePerClip
            <4> QED BY <4>4, <4>5
        <3> QED BY <3>1, <3>2
    <2>2. (direct \/ Direct(clip)) \in BOOLEAN
        BY Zenon
    <2>3. c \in Capture /\ c.clip = clip /\ c.direct = (direct \/ Direct(clip))
        BY <2>2 DEF Capture
    <2>4. captured' = Room(Append(rest, c))
        BY <1>1 DEF StoredCaptures
    <2>5. (direct = TRUE \/ HoldsDirect(captured, clip)) => c.direct = TRUE
        BY <2>3, CapturesHeld
    <2> HIDE DEF c, rest
    <2>6. /\ captured' \in Seq(Capture) /\ OnePerClip(captured')
          /\ \A k \in DOMAIN captured' : captured'[k] = c \/ \E m \in DOMAIN rest : captured'[k] = rest[m]
          /\ \E k \in DOMAIN captured' : captured'[k] = c
        BY <2>1, <2>3, <2>4, Making
    <2>7. \A k \in DOMAIN captured' : captured'[k] = c \/ \E m \in DOMAIN captured : captured'[k] = captured[m]
        BY <2>1, <2>6
    <2>8. Holds(captured', clip) /\ (c.direct = TRUE => HoldsDirect(captured', clip))
        BY <2>3, <2>6 DEF Holds, HoldsDirect
    <2>9. ASSUME NEW other, other # clip, Holds(captured', other)
          PROVE  Holds(captured, other) /\ (HoldsDirect(captured, other) => HoldsDirect(captured', other))
        <3>1. PICK k \in DOMAIN captured' : captured'[k].clip = other
            BY <2>9 DEF Holds
        <3>2. PICK m \in DOMAIN captured : captured'[k] = captured[m]
            BY <2>3, <2>7, <2>9, <3>1
        <3>3. \A l \in DOMAIN captured : captured[l].clip = other => l = m
            BY <3>1, <3>2 DEF CapturesOK, OnePerClip
        <3> QED BY <3>1, <3>2, <3>3 DEF Holds, HoldsDirect
    <2> QED BY <2>5, <2>6, <2>8, <2>9 DEF CapturesOK
<1>2. CASE ~Better(clip, rank)
    <2>1. captured' = [k \in DOMAIN captured |->
                         [captured[k] EXCEPT !.direct = @ \/ (direct /\ captured[k].clip = clip)]]
        BY <1>2 DEF StoredCaptures
    <2>2. \A k \in DOMAIN captured : captured[k] \in Capture
        BY DEF CapturesOK
    <2>3. \A k \in DOMAIN captured :
              /\ (captured[k].direct \/ (direct /\ captured[k].clip = clip)) \in BOOLEAN
              /\ captured[k].direct = TRUE => (captured[k].direct \/ (direct /\ captured[k].clip = clip)) = TRUE
              /\ direct = TRUE /\ captured[k].clip = clip
                   => (captured[k].direct \/ (direct /\ captured[k].clip = clip)) = TRUE
        BY Zenon
    <2>4. /\ DOMAIN captured' = DOMAIN captured
          /\ \A k \in DOMAIN captured :
                /\ captured'[k] \in Capture /\ captured'[k].clip = captured[k].clip
                /\ captured[k].direct = TRUE => captured'[k].direct = TRUE
                /\ direct = TRUE /\ captured[k].clip = clip => captured'[k].direct = TRUE
        BY <2>1, <2>2, <2>3, ZenonT(30) DEF Capture
    <2>5. captured' \in Seq(Capture)
        <3>1. DOMAIN captured = 1 .. Len(captured) /\ Len(captured) \in Nat
            BY DEF CapturesOK
        <3>2. captured' \in [1 .. Len(captured) -> Capture]
            BY <2>1, <2>4, <3>1
        <3> QED BY <3>1, <3>2
    <2>6. OnePerClip(captured')
        BY <2>4 DEF CapturesOK, OnePerClip
    <2>7. Holds(captured, clip)
        BY <1>2 DEF Better, CapturesOf, Holds
    <2> HIDE DEF CapturesOK
    <2>8. \A other : Holds(captured', other) <=> Holds(captured, other)
        BY <2>4 DEF Holds
    <2>9. \A other : HoldsDirect(captured, other) => HoldsDirect(captured', other)
        BY <2>4 DEF HoldsDirect
    <2>10. direct = TRUE => HoldsDirect(captured', clip)
        BY <2>4, <2>7 DEF Holds, HoldsDirect
    <2> QED BY <2>5, <2>6, <2>7, <2>8, <2>9, <2>10 DEF CapturesOK
<1> QED BY <1>1, <1>2

Polling == [clip : Clips, number : Nat, attempts : Nat]
BridgeInv ==
    /\ CapturesOK
    /\ onPage \in Clips \cup {NoClip} /\ polls \in Nat
    /\ poll \in Polling \cup {NoPoll} /\ (poll # NoPoll => poll.number <= polls)
    /\ fetches \subseteq [number : Nat, clip : Clips]
    /\ \A f \in fetches : f.number <= polls /\ (poll # NoPoll /\ f.number = poll.number => f.clip = poll.clip)
    /\ wanted \in {NoClip, onPage}
    /\ wanted # NoClip =>
          /\ excused = TRUE \/ HoldsDirect(captured, wanted) \/ (poll # NoPoll /\ poll.clip = wanted)
          /\ Holds(captured, wanted) => accepted = wanted

\* Nothing is captured at the start.
LEMMA BridgeInitially == BridgeInit => BridgeInv
BY DEF BridgeInit, BridgeInv, CapturesOK, OnePerClip, Capture, NoPoll

\* The invariant says that captions that were captured arrive.
LEMMA BridgeInvMeans == BridgeInv => CaptionsArrive
<1> SUFFICES ASSUME BridgeInv, wanted # NoClip
             PROVE  /\ excused \/ Direct(wanted) \/ poll.clip = wanted
                    /\ CapturesOf(wanted) # {} => accepted = wanted
    BY DEF CaptionsArrive
<1> QED BY CapturesHeld DEF BridgeInv

\* The bridge that polls for nothing is not among those that poll.
LEMMA NotPolled == NoPoll \notin Polling /\ NoPoll.clip = NoClip
BY BridgeOK DEF NoPoll, Polling

\* Whatever is stored, the wanted video's captions are kept or excused.
LEMMA StoreKeeps ==
    ASSUME BridgeInv, NEW clip \in Clips, NEW rank \in {0, 1}, NEW direct \in BOOLEAN,
           Store(clip, rank, direct), UNCHANGED <<onPage, wanted>>, wanted # NoClip
    PROVE  /\ CapturesOK'
           /\ Displaced \/ (HoldsDirect(captured, wanted) => HoldsDirect(captured', wanted))
           /\ Displaced = TRUE \/ Displaced = FALSE
           /\ Holds(captured', wanted) => accepted' = wanted
           /\ direct = TRUE /\ clip = wanted => HoldsDirect(captured', wanted)
<1>1. captured' = StoredCaptures(clip, rank, direct) /\ CapturesOK
    BY DEF Store, BridgeInv
<1>2. /\ CapturesOK' /\ Holds(captured', clip)
      /\ direct = TRUE \/ HoldsDirect(captured, clip) => HoldsDirect(captured', clip)
      /\ \A other : other # clip /\ Holds(captured', other) =>
            /\ Holds(captured, other)
            /\ HoldsDirect(captured, other) => HoldsDirect(captured', other)
    BY <1>1, Storing
<1>3. Displaced = TRUE \/ Displaced = FALSE
    BY DEF Displaced
<1>4. HoldsDirect(captured, wanted) => Holds(captured, wanted)
    BY DEF HoldsDirect, Holds
<1>5. Displaced <=> Holds(captured, wanted) /\ ~Holds(captured', wanted)
    <2>1. CapturesOf(wanted) # {} <=> Holds(captured, wanted)
        BY <1>1, CapturesHeld
    <2> QED BY <2>1 DEF Displaced, Holds
<1>6. Displaced \/ (HoldsDirect(captured, wanted) => HoldsDirect(captured', wanted))
    BY <1>2, <1>4, <1>5
<1>7. Holds(captured', wanted) => accepted' = wanted
    <2>1. wanted = onPage /\ (Holds(captured, wanted) => accepted = wanted)
        BY DEF BridgeInv
    <2>2. CASE clip = wanted /\ Better(clip, rank)
        BY <2>1, <2>2 DEF Store
    <2>3. CASE clip = wanted /\ ~Better(clip, rank)
        <3>1. Holds(captured, wanted)
            BY <2>3 DEF Better, CapturesOf, Holds
        <3> QED BY <2>1, <2>3, <3>1 DEF Store
    <2>4. CASE clip # wanted
        BY <1>2, <2>1, <2>4 DEF Store
    <2> QED BY <2>2, <2>3, <2>4
<1> QED BY <1>2, <1>3, <1>6, <1>7

\* The player's own request for captions is intercepted.
LEMMA InterceptKeeps ==
    ASSUME BridgeInv, NEW clip \in Clips, NEW rank \in {0, 1}, Intercept(clip, rank)
    PROVE  BridgeInv'
<1>1. /\ Store(clip, rank, FALSE) /\ excused' = (excused \/ Displaced)
      /\ UNCHANGED <<onPage, poll, polls, fetches, wanted>>
    BY DEF Intercept
<1>2. CapturesOK'
    BY <1>1, Storing DEF Store, BridgeInv
<1>3. ASSUME wanted # NoClip
      PROVE  /\ excused' = TRUE \/ HoldsDirect(captured', wanted) \/ (poll # NoPoll /\ poll.clip = wanted)
             /\ Holds(captured', wanted) => accepted' = wanted
    <2>1. /\ Displaced \/ (HoldsDirect(captured, wanted) => HoldsDirect(captured', wanted))
          /\ Holds(captured', wanted) => accepted' = wanted
        BY <1>1, <1>3, StoreKeeps
    <2>2. excused = TRUE \/ Displaced => excused' = TRUE
        BY <1>1, Zenon
    <2> QED BY <1>3, <2>1, <2>2 DEF BridgeInv
<1> QED BY <1>1, <1>2, <1>3 DEF BridgeInv

\* A request of the bridge is answered, or fails.
LEMMA FetchEnds ==
    ASSUME BridgeInv, NEW f \in fetches, FetchFails(f) \/ \E rank \in {0, 1} : FetchSucceeds(f, rank)
    PROVE  BridgeInv'
<1>1. CASE FetchFails(f)
    BY <1>1 DEF BridgeInv, CapturesOK, FetchFails
<1>2. ASSUME NEW rank \in {0, 1}, FetchSucceeds(f, rank) PROVE BridgeInv'
    <2>1. /\ fetches' = fetches \ {f} /\ Store(f.clip, rank, TRUE)
          /\ excused' = (excused \/ Displaced \/ (poll # NoPoll /\ poll.number # f.number))
          /\ poll' = NoPoll /\ UNCHANGED <<onPage, polls, wanted>>
        BY <1>2 DEF FetchSucceeds
    <2>2. f.clip \in Clips
        BY DEF BridgeInv
    <2>3. CapturesOK'
        BY <2>1, <2>2, Storing DEF Store, BridgeInv
    <2>4. ASSUME wanted # NoClip
          PROVE  /\ excused' = TRUE \/ HoldsDirect(captured', wanted)
                 /\ Holds(captured', wanted) => accepted' = wanted
        <3>1. /\ Displaced \/ (HoldsDirect(captured, wanted) => HoldsDirect(captured', wanted))
              /\ Holds(captured', wanted) => accepted' = wanted
              /\ f.clip = wanted => HoldsDirect(captured', wanted)
            BY <2>1, <2>2, <2>4, StoreKeeps
        <3>2. excused = TRUE \/ Displaced \/ (poll # NoPoll /\ poll.number # f.number) => excused' = TRUE
            BY <2>1, Zenon
        <3>3. poll # NoPoll /\ f.number = poll.number => f.clip = poll.clip
            BY DEF BridgeInv
        <3>4. excused = TRUE \/ HoldsDirect(captured, wanted) \/ (poll # NoPoll /\ poll.clip = wanted)
            BY <2>4 DEF BridgeInv
        <3> QED BY <3>1, <3>2, <3>3, <3>4
    <2>5. \A g \in fetches' : g.number <= polls'
        BY <2>1 DEF BridgeInv
    <2> QED BY <2>1, <2>3, <2>4, <2>5 DEF BridgeInv
<1> QED BY <1>1, <1>2

\* The content script asks for captions.
LEMMA RequestKeeps ==
    ASSUME BridgeInv, NEW clip \in Clips, Request(clip)
    PROVE  BridgeInv'
<1>1. /\ clip = onPage /\ accepted' = IF CapturesOf(clip) # {} THEN clip ELSE accepted
      /\ wanted' = clip /\ excused' = FALSE /\ UNCHANGED <<onPage, captured, fetches>>
    BY DEF Request
<1>2. CapturesOK /\ CapturesOK'
    BY <1>1 DEF BridgeInv, CapturesOK
<1>3. Holds(captured, clip) => accepted' = clip
    BY <1>1, <1>2, CapturesHeld
<1>4. CASE (Direct(clip) \/ poll.clip = clip) /\ UNCHANGED <<poll, polls>>
    <2>1. HoldsDirect(captured, clip) \/ (poll # NoPoll /\ poll.clip = clip)
        BY <1>2, <1>4, CapturesHeld, NotPolled, BridgeOK
    <2> QED BY <1>1, <1>2, <1>3, <1>4, <2>1 DEF BridgeInv
<1>5. CASE NewPoll(clip)
    <2>1. poll' \in Polling /\ poll'.number = polls + 1 /\ polls' = polls + 1 /\ poll'.clip = clip
        BY <1>5 DEF NewPoll, Polling, BridgeInv
    <2>2. poll' # NoPoll
        BY <2>1, NotPolled
    <2>3. \A f \in fetches : f.number <= polls /\ f.number \in Nat
        BY DEF BridgeInv
    <2>4. polls \in Nat
        BY DEF BridgeInv
    <2>5. \A f \in fetches' : f.number <= polls' /\ f.number # poll'.number
        BY <1>1, <2>1, <2>3, <2>4
    <2> QED BY <1>1, <1>2, <1>3, <2>1, <2>2, <2>4, <2>5 DEF BridgeInv
<1> QED BY <1>4, <1>5 DEF Request

\* The bridge looks again.
LEMMA PollKeepsCaptions == ASSUME BridgeInv, PollAgain PROVE BridgeInv'
<1>1. /\ poll # NoPoll /\ poll \in Polling /\ UNCHANGED <<onPage, captured, polls, accepted, wanted>>
    BY DEF PollAgain, BridgeInv
<1>2. CapturesOK'
    BY <1>1 DEF BridgeInv, CapturesOK
<1>3. ASSUME NEW why \in BOOLEAN, PollEnds(why), UNCHANGED fetches, why = TRUE \/ onPage # poll.clip
      PROVE  BridgeInv'
    <2>1. poll' = NoPoll /\ (excused = TRUE \/ why = TRUE => excused' = TRUE)
        BY <1>3, Zenon DEF PollEnds
    <2> QED BY <1>1, <1>2, <1>3, <2>1 DEF BridgeInv
<1>4. ASSUME poll' = [poll EXCEPT !.attempts = @ + 1], UNCHANGED excused,
             \/ UNCHANGED fetches
             \/ fetches' = fetches \cup {[number |-> poll.number, clip |-> poll.clip]}
      PROVE  BridgeInv'
    <2>1. /\ poll' \in Polling /\ poll'.clip = poll.clip /\ poll'.number = poll.number
          /\ poll.number \in Nat /\ poll.clip \in Clips
        BY <1>1, <1>4 DEF Polling
    <2>2. poll' # NoPoll
        BY <2>1, NotPolled
    <2>3. /\ fetches' \subseteq [number : Nat, clip : Clips]
          /\ \A f \in fetches' : f \in fetches \/ (f.number = poll.number /\ f.clip = poll.clip)
        BY <1>4, <2>1 DEF BridgeInv
    <2>4. \A f \in fetches' : f.number <= polls /\ (f.number = poll.number => f.clip = poll.clip)
        BY <1>1, <2>3 DEF BridgeInv
    <2> QED BY <1>1, <1>2, <1>4, <2>1, <2>2, <2>3, <2>4 DEF BridgeInv
<1>5. (poll.attempts = PollAttempts) \in BOOLEAN
    BY Zenon
<1>6. CASE onPage # poll.clip \/ poll.attempts = PollAttempts
    <2>1. PollEnds(poll.attempts = PollAttempts) /\ UNCHANGED fetches
        BY <1>6 DEF PollAgain
    <2>2. (poll.attempts = PollAttempts) = TRUE \/ onPage # poll.clip
        BY <1>6
    <2> QED BY <1>3, <1>5, <2>1, <2>2
<1>7. CASE ~(onPage # poll.clip \/ poll.attempts = PollAttempts)
    <2>1. \/ PollEnds(TRUE) /\ UNCHANGED fetches
          \/ /\ poll' = [poll EXCEPT !.attempts = @ + 1] /\ UNCHANGED excused
             /\ \/ UNCHANGED fetches
                \/ fetches' = fetches \cup {[number |-> poll.number, clip |-> poll.clip]}
        BY <1>7 DEF PollAgain
    <2> QED BY <1>3, <1>4, <2>1
<1> QED BY <1>6, <1>7

(* Whatever videos are asked for, left and captured while a fetch is under
   way: the captions of the video that stays on the page are being polled,
   have been fetched, or are missing for one of the stated reasons, and the
   content script has been told of what was captured. *)
THEOREM CaptionsAreFollowed == BridgeSpec => []CaptionsArrive
<1>1. BridgeInv /\ [BridgeStep]_bridgeVars => BridgeInv'
    <2> SUFFICES ASSUME BridgeInv, [BridgeStep]_bridgeVars PROVE BridgeInv'
        OBVIOUS
    <2>1. ASSUME NEW clip \in Clips, Request(clip) \/ \E rank \in {0, 1} : Intercept(clip, rank)
          PROVE  BridgeInv'
        BY <2>1, RequestKeeps, InterceptKeeps
    <2>2. ASSUME NEW clip \in Clips, Navigate(clip) PROVE BridgeInv'
        BY <2>2 DEF Navigate, BridgeInv, CapturesOK
    <2>3. CASE NavigateStart
        BY <2>3 DEF NavigateStart, BridgeInv, CapturesOK
    <2>4. CASE PlayerLoads \/ UNCHANGED bridgeVars
        BY <2>4 DEF PlayerLoads, bridgeVars, BridgeInv, CapturesOK
    <2>5. CASE PollAgain
        BY <2>5, PollKeepsCaptions
    <2>6. ASSUME NEW f \in fetches, FetchFails(f) \/ \E rank \in {0, 1} : FetchSucceeds(f, rank)
          PROVE  BridgeInv'
        BY <2>6, FetchEnds
    <2> QED BY <2>1, <2>2, <2>3, <2>4, <2>5, <2>6 DEF BridgeStep
<1> QED BY <1>1, BridgeInitially, BridgeInvMeans, PTL DEF BridgeSpec
=============================================================================
