---------------------------- MODULE Viewer_proofs -----------------------------
(***************************************************************************)
(* Proofs about what the viewer of a translation sees: for any videos and  *)
(* cues, any number of loads, retries and versions, and any window of the  *)
(* temporary translations.                                                 *)
(***************************************************************************)
EXTENDS Viewer, FiniteSetTheorems, SequenceTheorems, TLAPS

-----------------------------------------------------------------------------
(* The server: who translates a video, and what it has left to do. *)

Legacy(c) == c.phase \in {"reading", "translating"}

\* A connection is served by the engine the viewer has chosen.
EngineOK(c) ==
    /\ mode = "document" => ~Legacy(c)
    /\ mode = "legacy" => c.phase \notin {"submitted", "observing"}

LegacyInv ==
    /\ OneLegacyStream
    /\ \A g \in Loads : EngineOK(connection[g])
    /\ \A g \in Loads :
          /\ connection[g].phase \in {"ingest", "reading"} => connection[g].failed = 0
          /\ connection[g].phase = "translating" =>
                /\ connection[g].failed + Cardinality(connection[g].todo) <= Length
                /\ connection[g].todo \cap cache[connection[g].video] = {}

-----------------------------------------------------------------------------
(* What is on the wires. *)

CueEvent(e) == e.type \in {"source_cue", "cue", "preview"}
Breaks(e) == e.type \in {"error", "unavailable"}

\* An event says what its video's document says.
Truthful(doc, e) ==
    /\ CueEvent(e) => e.index \in Cues
    /\ mode = "document" =>
          /\ e.type = "done" => e.index = 0
          /\ e.type \in {"source_cue", "cue"} /\ e.text # 0 =>
                doc.status = "succeeded" /\ e.text = doc.final[e.index]

\* A publication translates every cue.
Complete(doc) == doc.status = "succeeded" => \A i \in Cues : doc.final[i] # 0

\* A failure is the last event of its stream, and nothing is sent before there
\* is something to send.
WireOK(c) ==
    /\ \A k \in DOMAIN c.wire :
          /\ Truthful(document[c.video], c.wire[k])
          /\ Breaks(c.wire[k]) => c.phase = "ended" /\ k = Len(c.wire)
    /\ c.phase \in {"none", "ingest", "submitted", "reading"} => c.wire = << >>

Wires ==
    /\ \A g \in Loads : WireOK(connection[g])
    /\ \A v \in Videos : Complete(document[v])

-----------------------------------------------------------------------------
(* A load and its connection. *)

Mine == connection[load.number]

Attached ==
    /\ load.phase # "idle" => load.number \in Loads /\ page.enabled
    /\ \A g \in Loads : g > load.number => connection[g].phase = "none"
    /\ load.phase \in {"tracks", "captions"} => Mine.phase = "none"
    /\ load.phase \notin {"idle", "tracks", "captions", "failed"} => Mine.video = load.video
    /\ load.phase = "stream" => ~Mine.gone
    /\ load.phase \notin {"idle", "stream"} =>
          Mine.wire = << >> /\ (Mine.phase \in {"none", "ended"} \/ Mine.gone)
    /\ load.phase \in {"switch", "delay", "done"} => Mine.phase = "ended"
    /\ load.phase = "delay" => load.attempt < Retries
    /\ load.phase \in {"tracks", "captions", "switch"} => ~load.receivedMeta
    /\ mode = "document" => load.failedCues = 0 /\ load.phase \notin {"delay", "exhausted"}

\* Cue m is known, or among the first k events.
Due(w, known, m, k) == m \in known \/ \E j \in 1 .. k : CueEvent(w[j]) /\ w[j].index = m
Introduced(w, meta, k) == meta = TRUE \/ \E j \in 1 .. k : w[j].type = "meta"

\* Cues come in source order and after the meta event, and from some moment on
\* all have come or are on their way.
InSourceOrder(w, known, meta) ==
    \A k \in DOMAIN w : CueEvent(w[k]) =>
        /\ \A m \in 0 .. w[k].index - 1 : Due(w, known, m, k - 1)
        /\ Introduced(w, meta, k - 1)
AllDue(w, known, meta) == (\A m \in Cues : Due(w, known, m, Len(w))) /\ Introduced(w, meta, Len(w))

\* The published text of a cue is shown, or on its way.
ShownFinal(i) ==
    /\ i \in DOMAIN subtitles
    /\ subtitles[i] = [text |-> document[load.video].final[i], source |-> "document"]
FinalCue(e, i) == e.type = "cue" /\ e.index = i /\ e.text # 0
HasDone(w) == \E k \in DOMAIN w : w[k].type = "done"
Publication ==
    /\ document[load.video].status = "succeeded"
    /\ \A i \in Cues : ShownFinal(i) \/ \E k \in DOMAIN Mine.wire : FinalCue(Mine.wire[k], i)

\* A cached translation was sent, or the stream fails.
Doomed(w) == w # << >> /\ w[Len(w)].type = "error"
Cached(i) == i \in cache[load.video]

Feed ==
    load.phase = "stream" =>
        /\ InSourceOrder(Mine.wire, DOMAIN subtitles, load.receivedMeta)
        /\ Mine.phase \in {"observing", "translating"} =>
              AllDue(Mine.wire, DOMAIN subtitles, load.receivedMeta)
        /\ mode = "document" /\ (load.streamDone \/ HasDone(Mine.wire)) => Publication
        /\ mode = "legacy" =>
              /\ \A k \in DOMAIN Mine.wire : CueEvent(Mine.wire[k]) /\ Mine.wire[k].text # 0 =>
                    Cached(Mine.wire[k].index) \/ Doomed(Mine.wire)
              /\ \A i \in DOMAIN subtitles : subtitles[i].source # "none" => Cached(i) \/ Doomed(Mine.wire)

Settled ==
    /\ load.phase = "delay" => \A i \in DOMAIN subtitles : subtitles[i].source # "none" => Cached(i)
    /\ mode = "document" /\ load.phase = "done" =>
          /\ document[load.video].status = "succeeded"
          /\ \A i \in Cues : ShownFinal(i)

ViewInv ==
    /\ TypeOK /\ LegacyInv /\ Wires /\ Attached /\ Feed /\ Settled
    /\ WholeSource /\ FallbackWhileUseful

-----------------------------------------------------------------------------
(* The events of a set of cues. *)

\* The cues are finitely many, and so are those of every set of them.
LEMMA CuesCounted ==
    /\ IsFiniteSet(Cues) /\ Cardinality(Cues) = Length
    /\ \A S \in SUBSET Cues : IsFiniteSet(S) /\ Cardinality(S) \in 0 .. Length
<1>1. IsFiniteSet(Cues) /\ Cardinality(Cues) = Length
    BY StreamOK, FS_Interval DEF Cues
<1>2. ASSUME NEW S \in SUBSET Cues PROVE IsFiniteSet(S) /\ Cardinality(S) \in 0 .. Length
    BY <1>1, StreamOK, FS_Subset, FS_CardinalityType
<1> QED BY <1>1, <1>2

\* The cues of a set before one.
Earlier(S, i) == {j \in S : j < i}

\* A cue has fewer cues of a set before it than the set has, and no two of
\* them have the same number.
LEMMA Counted ==
    ASSUME NEW S \in SUBSET Cues
    PROVE  /\ \A i \in S : Cardinality(Earlier(S, i)) \in 0 .. Cardinality(S) - 1
           /\ \A i, j \in S : Cardinality(Earlier(S, i)) = Cardinality(Earlier(S, j)) => i = j
<1>1. S \subseteq Int
    BY StreamOK DEF Cues
<1>2. IsFiniteSet(S) /\ Cardinality(S) \in Nat
    BY CuesCounted, FS_CardinalityType
<1>3. ASSUME NEW T \in SUBSET S, NEW U \in SUBSET T, NEW x \in T, x \notin U
      PROVE  Cardinality(U) \in Nat /\ Cardinality(U) < Cardinality(T)
    <2>1. IsFiniteSet(T) /\ IsFiniteSet(U)
        BY <1>2, FS_Subset
    <2>2. Cardinality(U) <= Cardinality(T) /\ (Cardinality(T) = Cardinality(U) => T = U)
        BY <2>1, FS_Subset
    <2>3. Cardinality(T) \in Nat /\ Cardinality(U) \in Nat
        BY <2>1, FS_CardinalityType
    <2> QED BY <1>3, <2>2, <2>3
<1>4. ASSUME NEW i \in S PROVE Cardinality(Earlier(S, i)) \in 0 .. Cardinality(S) - 1
    <2>1. Earlier(S, i) \in SUBSET S /\ i \notin Earlier(S, i) /\ S \in SUBSET S
        BY <1>1 DEF Earlier
    <2>2. Cardinality(Earlier(S, i)) \in Nat /\ Cardinality(Earlier(S, i)) < Cardinality(S)
        BY <1>3, <2>1
    <2> QED BY <1>2, <2>2
<1>5. ASSUME NEW i \in S, NEW j \in S, i < j
      PROVE  Cardinality(Earlier(S, i)) < Cardinality(Earlier(S, j))
    <2>1. i \in Int /\ j \in Int /\ ~(i < i) /\ \A k \in S : k < i => k < j
        BY <1>1, <1>5
    <2>2. Earlier(S, j) \in SUBSET S /\ Earlier(S, i) \in SUBSET Earlier(S, j)
        BY <2>1 DEF Earlier
    <2>3. i \in Earlier(S, j) /\ i \notin Earlier(S, i)
        BY <1>5, <2>1 DEF Earlier
    <2> QED BY <1>3, <2>2, <2>3
<1>6. ASSUME NEW i \in S, NEW j \in S, Cardinality(Earlier(S, i)) = Cardinality(Earlier(S, j)) PROVE i = j
    <2>1. Cardinality(Earlier(S, i)) \in Int
        BY <1>2, <1>4
    <2>2. ~(i < j) /\ ~(j < i)
        BY <1>5, <1>6, <2>1
    <2> QED BY <1>1, <2>2
<1> QED BY <1>4, <1>6

\* Their order lists every one of them.
LEMMA Ordered ==
    ASSUME NEW S \in SUBSET Cues
    PROVE  /\ Cardinality(S) \in Nat
           /\ \A k \in 1 .. Cardinality(S) :
                 InOrder(S)[k] \in S /\ Cardinality(Earlier(S, InOrder(S)[k])) = k - 1
           /\ \A i \in S : \E k \in 1 .. Cardinality(S) : InOrder(S)[k] = i
<1> DEFINE n == Cardinality(S)
           rank == [i \in S |-> Cardinality(Earlier(S, i))]
<1>1. n \in Nat /\ IsFiniteSet(S)
    BY CuesCounted, FS_CardinalityType
<1>2. /\ \A i \in S : Cardinality(Earlier(S, i)) \in 0 .. n - 1
      /\ \A i, j \in S : Cardinality(Earlier(S, i)) = Cardinality(Earlier(S, j)) => i = j
    BY Counted
<1>3. IsFiniteSet(0 .. n - 1) /\ Cardinality(0 .. n - 1) = n
    BY <1>1, FS_Interval, SMTT(30)
<1>4. rank \in Injection(S, 0 .. n - 1)
    BY <1>2 DEF Injection, IsInjective
<1>5. rank \in Surjection(S, 0 .. n - 1)
    <2> HIDE DEF rank
    <2>1. Cardinality(S) = Cardinality(0 .. n - 1) <=> rank \in Surjection(S, 0 .. n - 1)
        BY <1>3, <1>4, FS_Injection
    <2> QED BY <1>3, <2>1
<1>6. \A m \in 0 .. n - 1 : \E i \in S : Cardinality(Earlier(S, i)) = m
    BY <1>5 DEF Surjection
<1> HIDE DEF rank
<1>7. InOrder(S) = [k \in 1 .. n |-> CHOOSE i \in S : Cardinality(Earlier(S, i)) = k - 1]
    BY DEF InOrder, Earlier
<1>8. ASSUME NEW k \in 1 .. n
      PROVE  InOrder(S)[k] \in S /\ Cardinality(Earlier(S, InOrder(S)[k])) = k - 1
    <2>1. k - 1 \in 0 .. n - 1
        BY <1>1
    <2>2. \E i \in S : Cardinality(Earlier(S, i)) = k - 1
        BY <1>6, <2>1
    <2>3. InOrder(S)[k] = CHOOSE i \in S : Cardinality(Earlier(S, i)) = k - 1
        BY <1>7
    <2> QED BY <2>2, <2>3
<1>9. ASSUME NEW i \in S PROVE \E k \in 1 .. n : InOrder(S)[k] = i
    <2> DEFINE k == Cardinality(Earlier(S, i)) + 1
    <2>1. k \in 1 .. n /\ k - 1 = Cardinality(Earlier(S, i))
        BY <1>1, <1>2
    <2>2. InOrder(S)[k] \in S /\ Cardinality(Earlier(S, InOrder(S)[k])) = k - 1
        BY <1>8, <2>1
    <2> QED BY <1>2, <2>1, <2>2
<1> QED BY <1>1, <1>8, <1>9

\* One event for each of them, with its text.
Reports(type, S, texts, w) ==
    /\ w \in Seq(Events) /\ Len(w) = Cardinality(S)
    /\ \A k \in DOMAIN w : w[k].type = type /\ w[k].index \in S /\ w[k].text = texts[w[k].index]
    /\ \A i \in S : \E k \in DOMAIN w : w[k] = Event(type, i, texts[i])

\* The events of a set of cues report each of them once.
LEMMA EventsPerCue ==
    ASSUME NEW type \in {"source_cue", "cue", "preview"}, NEW S \in SUBSET Cues,
           NEW T, S \subseteq T, NEW texts \in [T -> 0 .. Versions]
    PROVE  Reports(type, S, texts, PerCue(type, S, texts))
<1> DEFINE n == Cardinality(S)
           w == PerCue(type, S, texts)
<1>1. /\ n \in Nat
      /\ \A k \in 1 .. n : InOrder(S)[k] \in S
      /\ \A i \in S : \E k \in 1 .. n : InOrder(S)[k] = i
    BY Ordered
<1>2. w = [k \in 1 .. n |-> Event(type, InOrder(S)[k], texts[InOrder(S)[k]])]
    BY DEF PerCue
<1>3. \A i \in S : i \in 0 .. Length
    BY StreamOK DEF Cues
<1>4. \A i \in S : Event(type, i, texts[i]) \in Events
    BY <1>3 DEF Event, Events
<1> HIDE DEF w, n
<1>5. \A k \in 1 .. n : w[k] = Event(type, InOrder(S)[k], texts[InOrder(S)[k]]) /\ InOrder(S)[k] \in S
    BY <1>1, <1>2
<1>6. w \in [1 .. n -> Events]
    BY <1>1, <1>2, <1>4
<1>7. w \in Seq(Events) /\ Len(w) = n /\ DOMAIN w = 1 .. n
    BY <1>1, <1>6
<1>8. \A k \in 1 .. n : w[k].type = type /\ w[k].index \in S /\ w[k].text = texts[w[k].index]
    <2>1. \A i, t : Event(type, i, t).type = type /\ Event(type, i, t).index = i /\ Event(type, i, t).text = t
        BY DEF Event
    <2> QED BY <1>5, <2>1
<1>9. \A i \in S : \E k \in 1 .. n : w[k] = Event(type, i, texts[i])
    BY <1>1, <1>5
<1> QED BY <1>7, <1>8, <1>9 DEF w, n, Reports

\* The header: the meta event and the source cues in order.
LEMMA HeaderEvents ==
    /\ Header \in Seq(Events) /\ Len(Header) = Length + 1 /\ Header[1] = Meta
    /\ \A i \in Cues : Header[i + 2] = Event("source_cue", i, 0)
<1> DEFINE w == PerCue("source_cue", Cues, NoText)
<1>1. NoText \in [Cues -> 0 .. Versions] /\ \A i \in Cues : NoText[i] = 0
    BY StreamOK DEF NoText
<1>2. w \in Seq(Events) /\ Len(w) = Length
    <2>1. Reports("source_cue", Cues, NoText, w)
        BY <1>1, EventsPerCue
    <2> QED BY <2>1, CuesCounted DEF Reports
<1>3. ASSUME NEW i \in Cues PROVE w[i + 1] = Event("source_cue", i, 0)
    <2>1. Cardinality(Cues) = Length /\ i \in Int /\ i + 1 \in 1 .. Length
        BY CuesCounted, StreamOK DEF Cues
    <2>2. Earlier(Cues, i) = 0 .. i - 1
        BY StreamOK DEF Earlier, Cues
    <2>3. Cardinality(Earlier(Cues, i)) = i
        BY <2>1, <2>2, FS_Interval DEF Cues
    <2>4. InOrder(Cues)[i + 1] \in Cues /\ Cardinality(Earlier(Cues, InOrder(Cues)[i + 1])) = (i + 1) - 1
        BY <2>1, Ordered
    <2>5. InOrder(Cues)[i + 1] = i
        <3>1. \A a, b \in Cues : Cardinality(Earlier(Cues, a)) = Cardinality(Earlier(Cues, b)) => a = b
            BY Counted
        <3>2. (i + 1) - 1 = i
            BY <2>1
        <3> QED BY <2>3, <2>4, <3>1, <3>2
    <2>6. w[i + 1] = Event("source_cue", InOrder(Cues)[i + 1], NoText[InOrder(Cues)[i + 1]])
        BY <2>1 DEF PerCue
    <2> QED BY <1>1, <2>5, <2>6
<1>4. Meta \in Events
    BY StreamOK DEF Meta, Event, Events
<1>5. <<Meta>> \in Seq(Events) /\ Len(<<Meta>>) = 1 /\ <<Meta>>[1] = Meta
    BY <1>4
<1> HIDE DEF w
<1>6. /\ <<Meta>> \o w \in Seq(Events) /\ Len(<<Meta>> \o w) = 1 + Length
      /\ \A k \in 1 .. 1 + Length : (<<Meta>> \o w)[k] = IF k <= 1 THEN <<Meta>>[k] ELSE w[k - 1]
    BY <1>2, <1>5, ConcatProperties
<1>7. \A i \in Cues : i + 2 \in 1 .. 1 + Length /\ ~(i + 2 <= 1) /\ (i + 2) - 1 = i + 1
    BY StreamOK DEF Cues
<1>8. 1 \in 1 .. 1 + Length
    BY StreamOK
<1>9. Header = <<Meta>> \o w
    BY DEF Header, w
<1> QED BY <1>3, <1>5, <1>6, <1>7, <1>8, <1>9, StreamOK

-----------------------------------------------------------------------------
(* The order of events on a wire. *)

\* What was due stays due when more is sent.
LEMMA OrderExtends ==
    ASSUME NEW w \in Seq(Events), NEW more \in Seq(Events), NEW known, NEW meta,
           InSourceOrder(w, known, meta), AllDue(w, known, meta),
           \A k \in DOMAIN more : CueEvent(more[k]) => more[k].index \in Cues
    PROVE  InSourceOrder(w \o more, known, meta) /\ AllDue(w \o more, known, meta)
<1> DEFINE all == w \o more
           n == Len(w)
<1>1. /\ all \in Seq(Events) /\ Len(all) = n + Len(more) /\ n \in Nat /\ Len(more) \in Nat
      /\ \A k \in 1 .. n : all[k] = w[k]
      /\ \A k \in n + 1 .. n + Len(more) : all[k] = more[k - n] /\ k - n \in 1 .. Len(more)
    BY ConcatProperties
<1> HIDE DEF all, n
<1>2. ASSUME NEW m, NEW k \in 0 .. Len(all), NEW i \in 0 .. n, i <= k, Due(w, known, m, i) PROVE Due(all, known, m, k)
    <2>1. \A j \in 1 .. i : j \in 1 .. k /\ all[j] = w[j]
        BY <1>1, <1>2
    <2> QED BY <1>2, <2>1 DEF Due
<1>3. ASSUME NEW k \in 0 .. Len(all), NEW i \in 0 .. n, i <= k, Introduced(w, meta, i) PROVE Introduced(all, meta, k)
    <2>1. \A j \in 1 .. i : j \in 1 .. k /\ all[j] = w[j]
        BY <1>1, <1>3
    <2> QED BY <1>3, <2>1 DEF Introduced
<1>4. (\A m \in Cues : Due(w, known, m, n)) /\ Introduced(w, meta, n)
    BY DEF AllDue, n
<1>5. AllDue(all, known, meta)
    <2>1. n \in 0 .. n /\ n <= Len(all) /\ Len(all) \in 0 .. Len(all)
        BY <1>1
    <2> QED BY <1>2, <1>3, <1>4, <2>1 DEF AllDue
<1>6. ASSUME NEW k \in 1 .. Len(all), CueEvent(all[k])
      PROVE  (\A m \in 0 .. all[k].index - 1 : Due(all, known, m, k - 1)) /\ Introduced(all, meta, k - 1)
    <2>1. CASE k <= n
        <3>1. k \in DOMAIN w /\ all[k] = w[k] /\ k - 1 \in 0 .. n /\ k - 1 \in 0 .. Len(all)
            BY <1>1, <2>1 DEF n
        <3>2. (\A m \in 0 .. w[k].index - 1 : Due(w, known, m, k - 1)) /\ Introduced(w, meta, k - 1)
            BY <1>6, <3>1 DEF InSourceOrder
        <3> QED BY <1>2, <1>3, <3>1, <3>2
    <2>2. CASE k > n
        <3>1. all[k] = more[k - n] /\ k - n \in DOMAIN more
            <4>1. k \in n + 1 .. n + Len(more) /\ DOMAIN more = 1 .. Len(more)
                BY <1>1, <2>2
            <4> QED BY <1>1, <4>1
        <3>2. all[k].index \in Cues
            BY <1>6, <3>1
        <3>3. \A m \in 0 .. all[k].index - 1 : m \in Cues
            BY <3>2, StreamOK DEF Cues
        <3>4. n \in 0 .. n /\ n <= k - 1 /\ k - 1 \in 0 .. Len(all)
            BY <1>1, <2>2
        <3> QED BY <1>2, <1>3, <1>4, <3>3, <3>4
    <2> QED BY <1>1, <2>1, <2>2
<1>7. DOMAIN all = 1 .. Len(all)
    BY <1>1
<1>8. InSourceOrder(all, known, meta)
    BY <1>6, <1>7 DEF InSourceOrder
<1> QED BY <1>5, <1>8 DEF all

\* The header announces every cue.
LEMMA HeaderOpens ==
    ASSUME NEW known, NEW meta
    PROVE  InSourceOrder(Header, known, meta) /\ AllDue(Header, known, meta)
<1>1. /\ Header \in Seq(Events) /\ DOMAIN Header = 1 .. Length + 1 /\ Header[1] = Meta /\ Len(Header) = Length + 1
      /\ \A i \in Cues : Header[i + 2] = Event("source_cue", i, 0)
    BY HeaderEvents
<1>2. Meta.type = "meta" /\ \A i : /\ Event("source_cue", i, 0).type = "source_cue"
                                  /\ Event("source_cue", i, 0).index = i
    BY DEF Meta, Event
<1>3. ASSUME NEW m \in Cues, NEW k \in 0 .. Length + 1, m + 2 <= k PROVE Due(Header, known, m, k)
    <2>1. m + 2 \in 1 .. k
        BY <1>3 DEF Cues
    <2>2. CueEvent(Header[m + 2]) /\ Header[m + 2].index = m
        BY <1>1, <1>2 DEF CueEvent
    <2> QED BY <2>1, <2>2 DEF Due
<1>4. ASSUME NEW k \in 1 .. Length + 1 PROVE Introduced(Header, meta, k)
    BY <1>1, <1>2 DEF Introduced
<1>5. AllDue(Header, known, meta)
    <2>1. Length + 1 \in 1 .. Length + 1 /\ \A m \in Cues : m + 2 <= Length + 1
        BY StreamOK DEF Cues
    <2> QED BY <1>1, <1>3, <1>4, <2>1 DEF AllDue
<1>6. ASSUME NEW k \in 1 .. Length + 1, CueEvent(Header[k])
      PROVE  (\A m \in 0 .. Header[k].index - 1 : Due(Header, known, m, k - 1)) /\ Introduced(Header, meta, k - 1)
    <2>1. k # 1
        BY <1>1, <1>2, <1>6 DEF CueEvent
    <2>2. k - 2 \in Cues /\ (k - 2) + 2 = k /\ k - 1 \in 1 .. Length + 1
        BY <2>1, StreamOK DEF Cues
    <2>3. Header[k].index = k - 2
        BY <1>1, <1>2, <2>2
    <2>4. \A m \in 0 .. k - 2 - 1 : m \in Cues /\ m + 2 <= k - 1
        BY <2>2, StreamOK DEF Cues
    <2> QED BY <1>3, <1>4, <2>2, <2>3, <2>4
<1>7. InSourceOrder(Header, known, meta)
    BY <1>1, <1>6 DEF InSourceOrder
<1> QED BY <1>5, <1>7

\* Taking an event off a wire leaves the rest in order.
LEMMA OrderTaken ==
    ASSUME NEW w \in Seq(Events), w # << >>, NEW known, NEW meta, InSourceOrder(w, known, meta),
           NEW later, known \subseteq later, CueEvent(Head(w)) => Head(w).index \in later,
           NEW told, meta = TRUE => told = TRUE, Head(w).type = "meta" => told = TRUE
    PROVE  /\ InSourceOrder(Tail(w), later, told)
           /\ AllDue(w, known, meta) => AllDue(Tail(w), later, told)
<1> DEFINE n == Len(w)
           t == Tail(w)
<1>1. /\ n \in Nat \ {0} /\ t \in Seq(Events) /\ Len(t) = n - 1 /\ DOMAIN t = 1 .. n - 1 /\ DOMAIN w = 1 .. n
      /\ Head(w) = w[1]
      /\ \A k \in 1 .. n - 1 : t[k] = w[k + 1]
    BY HeadTailProperties
<1> HIDE DEF t, n
<1>2. ASSUME NEW m, NEW k \in 1 .. n, Due(w, known, m, k) PROVE Due(t, later, m, k - 1)
    <2>1. CASE m \in known
        BY <2>1 DEF Due
    <2>2. ASSUME NEW j \in 1 .. k, CueEvent(w[j]), w[j].index = m PROVE Due(t, later, m, k - 1)
        <3>1. CASE j = 1
            BY <1>1, <2>2, <3>1 DEF Due
        <3>2. CASE j # 1
            <4>1. j - 1 \in 1 .. k - 1 /\ j - 1 \in 1 .. n - 1 /\ (j - 1) + 1 = j
                BY <1>1, <3>2
            <4>2. t[j - 1] = w[j]
                BY <1>1, <4>1
            <4> QED BY <2>2, <4>1, <4>2 DEF Due
        <3> QED BY <3>1, <3>2
    <2> QED BY <1>2, <2>1, <2>2 DEF Due
<1>3. ASSUME NEW k \in 1 .. n, Introduced(w, meta, k) PROVE Introduced(t, told, k - 1)
    <2>1. ASSUME NEW j \in 1 .. k, w[j].type = "meta" PROVE Introduced(t, told, k - 1)
        <3>1. CASE j = 1
            BY <1>1, <2>1, <3>1 DEF Introduced
        <3>2. CASE j # 1
            <4>1. j - 1 \in 1 .. k - 1 /\ j - 1 \in 1 .. n - 1 /\ (j - 1) + 1 = j
                BY <1>1, <3>2
            <4>2. t[j - 1] = w[j]
                BY <1>1, <4>1
            <4> QED BY <2>1, <4>1, <4>2 DEF Introduced
        <3> QED BY <3>1, <3>2
    <2> QED BY <1>3, <2>1 DEF Introduced
<1>4. ASSUME NEW k \in 1 .. n - 1, CueEvent(t[k])
      PROVE  (\A m \in 0 .. t[k].index - 1 : Due(t, later, m, k - 1)) /\ Introduced(t, told, k - 1)
    <2>1. k + 1 \in DOMAIN w /\ t[k] = w[k + 1] /\ (k + 1) - 1 = k /\ k \in 1 .. n
        BY <1>1
    <2>2. (\A m \in 0 .. w[k + 1].index - 1 : Due(w, known, m, (k + 1) - 1)) /\ Introduced(w, meta, (k + 1) - 1)
        BY <1>4, <2>1 DEF InSourceOrder
    <2> QED BY <1>2, <1>3, <2>1, <2>2
<1>5. InSourceOrder(t, later, told)
    BY <1>1, <1>4 DEF InSourceOrder
<1>6. AllDue(w, known, meta) => AllDue(t, later, told)
    <2>1. n \in 1 .. n
        BY <1>1
    <2> QED BY <1>1, <1>2, <1>3, <2>1 DEF AllDue, n
<1> QED BY <1>5, <1>6 DEF t

-----------------------------------------------------------------------------
(* Who translates a video. *)

\* The fields of a connection.
LEMMA ConnectionTyped ==
    ASSUME TypeOK, NEW g \in Loads
    PROVE  /\ connection[g] \in Connection /\ connection[g].wire \in Seq(Events)
           /\ connection[g].video \in Videos /\ connection[g].todo \in SUBSET Cues
           /\ connection[g].failed \in 0 .. Length
<1>1. connection[g] \in Connection
    BY DEF TypeOK
<1> QED BY <1>1 DEF Connection

\* A connection that begins, goes on or ends without translating.
LEMMA SameStreams ==
    ASSUME TypeOK, LegacyInv, NEW g \in Loads, NEW c,
           connection' = [connection EXCEPT ![g] = c],
           UNCHANGED <<mode, cache, activeLegacyStreams>>,
           \/ /\ c.phase = connection[g].phase /\ c.video = connection[g].video
              /\ c.todo = connection[g].todo /\ c.failed = connection[g].failed
           \/ /\ ~Legacy(connection[g]) /\ ~Legacy(c) /\ EngineOK(c)
              /\ c.phase = "ingest" => c.failed = 0
    PROVE  LegacyInv'
<1>1. connection'[g] = c /\ \A h \in Loads : h # g => connection'[h] = connection[h]
    BY DEF TypeOK
<1>2. OneLegacyStream'
    <2> SUFFICES ASSUME NEW v \in Videos
                 PROVE  {h \in Loads : connection'[h].video = v /\ Legacy(connection'[h])}
                            = {activeLegacyStreams[v]} \ {0}
        BY DEF OneLegacyStream, Legacy
    <2>1. {h \in Loads : connection[h].video = v /\ Legacy(connection[h])} = {activeLegacyStreams[v]} \ {0}
        BY DEF LegacyInv, OneLegacyStream, Legacy
    <2>2. \A h \in Loads : connection'[h].video = v /\ Legacy(connection'[h])
                               <=> connection[h].video = v /\ Legacy(connection[h])
        BY <1>1 DEF Legacy
    <2> QED BY <2>1, <2>2
<1>3. \A h \in Loads : EngineOK(connection'[h])
    BY <1>1 DEF LegacyInv, EngineOK, Legacy
<1>4. \A h \in Loads :
          /\ connection'[h].phase \in {"ingest", "reading"} => connection'[h].failed = 0
          /\ connection'[h].phase = "translating" =>
                /\ connection'[h].failed + Cardinality(connection'[h].todo) <= Length
                /\ connection'[h].todo \cap cache[connection'[h].video] = {}
    BY <1>1 DEF LegacyInv, Legacy
<1> QED BY <1>2, <1>3, <1>4 DEF LegacyInv, EngineOK, Legacy

\* A stream that is over is not registered.
LEMMA StreamReleased ==
    ASSUME TypeOK, LegacyInv, NEW g \in Loads, NEW c, c.phase = "ended",
           connection' = [connection EXCEPT ![g] = c], Release(g), UNCHANGED <<mode, cache>>
    PROVE  LegacyInv' /\ activeLegacyStreams' \in [Videos -> 0 .. MaxLoads]
<1>1. connection'[g] = c /\ \A h \in Loads : h # g => connection'[h] = connection[h]
    BY DEF TypeOK
<1>2. activeLegacyStreams' = [v \in Videos |-> IF activeLegacyStreams[v] = g THEN 0 ELSE activeLegacyStreams[v]]
    BY DEF Release
<1>3. OneLegacyStream'
    <2> SUFFICES ASSUME NEW v \in Videos
                 PROVE  {h \in Loads : connection'[h].video = v /\ Legacy(connection'[h])}
                            = {activeLegacyStreams'[v]} \ {0}
        BY DEF OneLegacyStream, Legacy
    <2>1. {h \in Loads : connection[h].video = v /\ Legacy(connection[h])} = {activeLegacyStreams[v]} \ {0}
        BY DEF LegacyInv, OneLegacyStream, Legacy
    <2>2. \A h \in Loads : connection'[h].video = v /\ Legacy(connection'[h])
                               <=> h # g /\ connection[h].video = v /\ Legacy(connection[h])
        BY <1>1 DEF Legacy
    <2>3. {h \in Loads : connection'[h].video = v /\ Legacy(connection'[h])}
             = {h \in Loads : connection[h].video = v /\ Legacy(connection[h])} \ {g}
        BY <2>2
    <2>4. activeLegacyStreams'[v] = IF activeLegacyStreams[v] = g THEN 0 ELSE activeLegacyStreams[v]
        BY <1>2
    <2> QED BY <2>1, <2>3, <2>4
<1>4. \A h \in Loads : EngineOK(connection'[h])
    BY <1>1 DEF LegacyInv, EngineOK, Legacy
<1>5. \A h \in Loads :
          /\ connection'[h].phase \in {"ingest", "reading"} => connection'[h].failed = 0
          /\ connection'[h].phase = "translating" =>
                /\ connection'[h].failed + Cardinality(connection'[h].todo) <= Length
                /\ connection'[h].todo \cap cache[connection'[h].video] = {}
    BY <1>1 DEF LegacyInv
<1>6. activeLegacyStreams' \in [Videos -> 0 .. MaxLoads]
    BY <1>2, StreamOK DEF TypeOK
<1> QED BY <1>3, <1>4, <1>5, <1>6 DEF LegacyInv, EngineOK, Legacy

\* A stream that begins is the only one of its video.
LEMMA StreamRegistered ==
    ASSUME TypeOK, LegacyInv, NEW g \in Loads, NEW c, mode = "legacy",
           connection[g].phase = "ingest", c.phase = "reading",
           c.video = connection[g].video, c.failed = connection[g].failed,
           activeLegacyStreams[c.video] = 0,
           activeLegacyStreams' = [activeLegacyStreams EXCEPT ![c.video] = g],
           connection' = [connection EXCEPT ![g] = c], UNCHANGED <<mode, cache>>
    PROVE  LegacyInv' /\ activeLegacyStreams' \in [Videos -> 0 .. MaxLoads]
<1>1. connection'[g] = c /\ (\A h \in Loads : h # g => connection'[h] = connection[h]) /\ c.video \in Videos
    BY ConnectionTyped DEF TypeOK
<1>2. OneLegacyStream'
    <2> SUFFICES ASSUME NEW v \in Videos
                 PROVE  {h \in Loads : connection'[h].video = v /\ Legacy(connection'[h])}
                            = {activeLegacyStreams'[v]} \ {0}
        BY DEF OneLegacyStream, Legacy
    <2>1. {h \in Loads : connection[h].video = v /\ Legacy(connection[h])} = {activeLegacyStreams[v]} \ {0}
        BY DEF LegacyInv, OneLegacyStream, Legacy
    <2>2. \A h \in Loads : connection'[h].video = v /\ Legacy(connection'[h])
                               <=> \/ h = g /\ v = c.video
                                   \/ connection[h].video = v /\ Legacy(connection[h])
        BY <1>1 DEF Legacy
    <2>3. activeLegacyStreams'[v] = IF v = c.video THEN g ELSE activeLegacyStreams[v]
        BY DEF TypeOK
    <2>4. g # 0
        BY DEF Loads
    <2> QED BY <2>1, <2>2, <2>3, <2>4
<1>3. \A h \in Loads : EngineOK(connection'[h])
    BY <1>1 DEF LegacyInv, EngineOK, Legacy
<1>4. \A h \in Loads :
          /\ connection'[h].phase \in {"ingest", "reading"} => connection'[h].failed = 0
          /\ connection'[h].phase = "translating" =>
                /\ connection'[h].failed + Cardinality(connection'[h].todo) <= Length
                /\ connection'[h].todo \cap cache[connection'[h].video] = {}
    BY <1>1 DEF LegacyInv
<1>5. activeLegacyStreams' \in [Videos -> 0 .. MaxLoads]
    <2>1. g \in 0 .. MaxLoads
        BY StreamOK DEF Loads
    <2>2. activeLegacyStreams \in [Videos -> 0 .. MaxLoads]
        BY DEF TypeOK
    <2> QED BY <2>1, <2>2
<1> QED BY <1>2, <1>3, <1>4, <1>5 DEF LegacyInv, EngineOK, Legacy

\* A stream that goes on translating shares its video with no other one, so
\* that what it caches is not another one's to do.
LEMMA StreamTranslates ==
    ASSUME TypeOK, LegacyInv, NEW g \in Loads, NEW c, Legacy(connection[g]), c.phase = "translating",
           c.video = connection[g].video, NEW stored \in SUBSET Cues,
           c.failed + Cardinality(c.todo) <= Length,
           c.todo \cap (cache[c.video] \cup stored) = {},
           connection' = [connection EXCEPT ![g] = c],
           cache' = [cache EXCEPT ![c.video] = @ \cup stored], UNCHANGED <<mode, activeLegacyStreams>>
    PROVE  LegacyInv'
<1>1. connection'[g] = c /\ (\A h \in Loads : h # g => connection'[h] = connection[h]) /\ c.video \in Videos
    BY ConnectionTyped DEF TypeOK
<1>2. \A v \in Videos : {h \in Loads : connection[h].video = v /\ Legacy(connection[h])} = {activeLegacyStreams[v]} \ {0}
    BY DEF LegacyInv, OneLegacyStream, Legacy
<1>3. OneLegacyStream'
    <2> SUFFICES ASSUME NEW v \in Videos
                 PROVE  {h \in Loads : connection'[h].video = v /\ Legacy(connection'[h])}
                            = {activeLegacyStreams[v]} \ {0}
        BY DEF OneLegacyStream, Legacy
    <2>1. \A h \in Loads : connection'[h].video = v /\ Legacy(connection'[h])
                               <=> connection[h].video = v /\ Legacy(connection[h])
        BY <1>1 DEF Legacy
    <2> QED BY <1>2, <2>1
<1>4. \A h \in Loads : EngineOK(connection'[h])
    BY <1>1 DEF LegacyInv, EngineOK, Legacy
<1>5. \A h \in Loads : h # g /\ connection[h].phase = "translating" => connection[h].video # c.video
    <2> SUFFICES ASSUME NEW h \in Loads, h # g, connection[h].phase = "translating", connection[h].video = c.video
                 PROVE  FALSE
        OBVIOUS
    <2>1. {g, h} \subseteq {activeLegacyStreams[c.video]} \ {0}
        BY <1>1, <1>2 DEF Legacy
    <2> QED BY <2>1
<1>6. \A h \in Loads : h # g /\ connection[h].phase = "translating"
          => cache'[connection[h].video] = cache[connection[h].video]
    BY <1>1, <1>5, ConnectionTyped DEF TypeOK
<1>7. cache'[c.video] = cache[c.video] \cup stored
    BY <1>1 DEF TypeOK
<1>8. \A h \in Loads :
          /\ connection'[h].phase \in {"ingest", "reading"} => connection'[h].failed = 0
          /\ connection'[h].phase = "translating" =>
                /\ connection'[h].failed + Cardinality(connection'[h].todo) <= Length
                /\ connection'[h].todo \cap cache'[connection'[h].video] = {}
    <2> SUFFICES ASSUME NEW h \in Loads
                 PROVE  /\ connection'[h].phase \in {"ingest", "reading"} => connection'[h].failed = 0
                        /\ connection'[h].phase = "translating" =>
                              /\ connection'[h].failed + Cardinality(connection'[h].todo) <= Length
                              /\ connection'[h].todo \cap cache'[connection'[h].video] = {}
        OBVIOUS
    <2>1. CASE h = g
        BY <1>1, <1>7, <2>1
    <2>2. CASE h # g
        BY <1>1, <1>6, <2>2 DEF LegacyInv
    <2> QED BY <2>1, <2>2
<1> QED BY <1>3, <1>4, <1>8 DEF LegacyInv, EngineOK, Legacy

-----------------------------------------------------------------------------
(* What the server does for a connection. *)

\* What was published stays published, what was cached stays cached.
Keeps ==
    /\ mode' = mode
    /\ document' \in [Videos -> Document] /\ cache' \in [Videos -> SUBSET Cues]
    /\ \A v \in Videos :
          /\ document[v].status = "succeeded" => document'[v] = document[v]
          /\ Complete(document'[v])
          /\ cache[v] \subseteq cache'[v]

\* A connection goes on or ends, and more is sent on it: the header first.
Continues(old, c, more) ==
    /\ c \in Connection /\ c.video = old.video /\ c.gone = old.gone
    /\ old.phase \notin {"none", "ended"} /\ c.phase \notin {"none", "ingest"}
    /\ more \in Seq(Events)
    /\ c.wire = IF old.gone THEN old.wire ELSE old.wire \o more
    /\ c.phase \in {"submitted", "reading"} => old.phase = "ingest" /\ more = << >>
    /\ \/ old.phase \in {"observing", "translating"}
       \/ \E rest \in Seq(Events) : more = Header \o rest
       \/ c.phase \notin {"observing", "translating"} /\ \A k \in DOMAIN more : ~CueEvent(more[k])

\* What is sent says what is so.
Says(doc, cached, phase, more) ==
    /\ \A k \in DOMAIN more :
          /\ Truthful(doc, more[k])
          /\ Breaks(more[k]) => phase = "ended" /\ k = Len(more)
    /\ mode = "document" /\ HasDone(more) =>
          doc.status = "succeeded" /\ \A i \in Cues : \E k \in DOMAIN more : FinalCue(more[k], i)
    /\ mode = "legacy" => \A k \in DOMAIN more :
          CueEvent(more[k]) /\ more[k].text # 0 => more[k].index \in cached \/ Doomed(more)

\* What has been said stays true.
LEMMA TruthStays ==
    ASSUME TypeOK, Keeps, NEW v \in Videos, NEW e, Truthful(document[v], e)
    PROVE  Truthful(document[v], e)'
BY DEF Truthful, Keeps

\* An event of two sequences together is an event of one of them.
LEMMA Joined ==
    ASSUME NEW w \in Seq(Events), NEW more \in Seq(Events)
    PROVE  /\ w \o more \in Seq(Events) /\ Len(w \o more) = Len(w) + Len(more)
           /\ \A k \in DOMAIN w : k \in DOMAIN (w \o more) /\ (w \o more)[k] = w[k]
           /\ \A k \in DOMAIN more : Len(w) + k \in DOMAIN (w \o more) /\ (w \o more)[Len(w) + k] = more[k]
           /\ \A k \in DOMAIN (w \o more) :
                 \/ k \in DOMAIN w
                 \/ \E j \in DOMAIN more : k = Len(w) + j
<1> DEFINE all == w \o more
<1>1. /\ all \in Seq(Events) /\ Len(all) = Len(w) + Len(more) /\ Len(w) \in Nat /\ Len(more) \in Nat
      /\ \A k \in 1 .. Len(w) + Len(more) : all[k] = IF k <= Len(w) THEN w[k] ELSE more[k - Len(w)]
    BY ConcatProperties
<1>2. DOMAIN w = 1 .. Len(w) /\ DOMAIN more = 1 .. Len(more) /\ DOMAIN all = 1 .. Len(w) + Len(more)
    BY <1>1
<1> HIDE DEF all
<1>3. \A k \in 1 .. Len(w) : k \in 1 .. Len(w) + Len(more) /\ k <= Len(w)
    BY <1>1
<1>4. \A k \in 1 .. Len(more) : /\ Len(w) + k \in 1 .. Len(w) + Len(more) /\ ~(Len(w) + k <= Len(w))
                                 /\ (Len(w) + k) - Len(w) = k
    BY <1>1
<1>5. \A k \in 1 .. Len(w) + Len(more) :
          k \in 1 .. Len(w) \/ (k - Len(w) \in 1 .. Len(more) /\ k = Len(w) + (k - Len(w)))
    BY <1>1
<1>6. \A k \in DOMAIN all : k \in DOMAIN w \/ \E j \in DOMAIN more : k = Len(w) + j
    BY <1>2, <1>5
<1>7. \A k \in DOMAIN w : k \in DOMAIN all /\ all[k] = w[k]
    BY <1>1, <1>2, <1>3
<1>8. \A k \in DOMAIN more : Len(w) + k \in DOMAIN all /\ all[Len(w) + k] = more[k]
    BY <1>1, <1>2, <1>4
<1> QED BY <1>1, <1>6, <1>7, <1>8 DEF all

\* The wires stay truthful.
LEMMA ServedWires ==
    ASSUME ViewInv, Keeps, NEW g \in Loads, NEW c, NEW more,
           Continues(connection[g], c, more), connection' = [connection EXCEPT ![g] = c],
           Says(document'[c.video], cache'[c.video], c.phase, more)
    PROVE  Wires'
<1>1. connection'[g] = c /\ \A h \in Loads : h # g => connection'[h] = connection[h]
    BY DEF ViewInv, TypeOK
<1>2. /\ connection[g].wire \in Seq(Events) /\ more \in Seq(Events) /\ c.video = connection[g].video
      /\ \A h \in Loads : connection[h].video \in Videos
    BY ConnectionTyped DEF Continues, ViewInv
<1>3. \A h \in Loads : WireOK(connection[h])
    BY DEF ViewInv, Wires
<1>4. \A h \in Loads : \A k \in DOMAIN connection[h].wire :
          Truthful(document'[connection[h].video], connection[h].wire[k])
    <2> SUFFICES ASSUME NEW h \in Loads, NEW k \in DOMAIN connection[h].wire
                 PROVE  Truthful(document'[connection[h].video], connection[h].wire[k])
        OBVIOUS
    <2>1. Truthful(document[connection[h].video], connection[h].wire[k]) /\ TypeOK
        BY <1>3 DEF WireOK, ViewInv
    <2>2. connection[h].video \in Videos
        BY <1>2
    <2>3. /\ mode' = mode
          /\ document[connection[h].video].status = "succeeded"
                => document'[connection[h].video] = document[connection[h].video]
        BY <2>2 DEF Keeps
    <2> QED BY <2>1, <2>3 DEF Truthful
<1>5. ASSUME NEW h \in Loads, h # g PROVE WireOK(connection[h])'
    <2> DEFINE d == connection[h]
    <2>1. connection'[h] = d /\ mode' = mode
        BY <1>1, <1>5 DEF Keeps
    <2>2. /\ \A k \in DOMAIN d.wire : Breaks(d.wire[k]) => d.phase = "ended" /\ k = Len(d.wire)
          /\ d.phase \in {"none", "ingest", "submitted", "reading"} => d.wire = << >>
        BY <1>3 DEF WireOK
    <2>3. \A k \in DOMAIN d.wire : Truthful(document'[d.video], d.wire[k])
        BY <1>4
    <2> HIDE DEF d
    <2> QED BY <2>1, <2>2, <2>3, ZenonT(30) DEF WireOK, Truthful
<1>6. WireOK(connection[g])'
    <2> DEFINE old == connection[g]
    <2>1. /\ WireOK(old) /\ old.phase # "ended"
          /\ \A k \in DOMAIN old.wire : Truthful(document'[c.video], old.wire[k]) /\ ~Breaks(old.wire[k])
        BY <1>2, <1>3, <1>4 DEF WireOK, Continues
    <2>2. \A k \in DOMAIN c.wire :
              Truthful(document'[c.video], c.wire[k]) /\ (Breaks(c.wire[k]) => c.phase = "ended" /\ k = Len(c.wire))
        <3>1. CASE old.gone = TRUE
            BY <2>1, <3>1 DEF Continues
        <3>2. CASE old.gone # TRUE
            <4> DEFINE all == old.wire \o more
            <4>1. c.wire = all
                BY <3>2 DEF Continues
            <4>2. /\ Len(all) = Len(old.wire) + Len(more)
                  /\ \A k \in DOMAIN old.wire : all[k] = old.wire[k]
                  /\ \A k \in DOMAIN more : all[Len(old.wire) + k] = more[k]
                  /\ \A k \in DOMAIN all : k \in DOMAIN old.wire \/ \E j \in DOMAIN more : k = Len(old.wire) + j
                BY <1>2, Joined
            <4> HIDE DEF all, old
            <4>3. \A k \in DOMAIN more : Truthful(document'[c.video], more[k])
                                          /\ (Breaks(more[k]) => c.phase = "ended" /\ k = Len(more))
                BY DEF Says
            <4> QED BY <2>1, <4>1, <4>2, <4>3, ZenonT(30)
        <3> QED BY <3>1, <3>2
    <2>3. c.phase \in {"none", "ingest", "submitted", "reading"} => c.wire = << >>
        <3> SUFFICES ASSUME c.phase \in {"none", "ingest", "submitted", "reading"} PROVE c.wire = << >>
            OBVIOUS
        <3>1. old.phase = "ingest" /\ more = << >>
            BY DEF Continues
        <3>2. old.wire = << >>
            BY <2>1, <3>1 DEF WireOK
        <3> QED BY <3>1, <3>2 DEF Continues
    <2> QED BY <1>1, <2>2, <2>3 DEF WireOK, Truthful, Keeps
<1>7. \A v \in Videos : Complete(document'[v])
    BY DEF Keeps
<1> QED BY <1>5, <1>6, <1>7 DEF Wires

\* A load goes on watching its connection.
LEMMA ServedAttached ==
    ASSUME ViewInv, Keeps, UNCHANGED client, NEW g \in Loads, NEW c, NEW more,
           Continues(connection[g], c, more), connection' = [connection EXCEPT ![g] = c]
    PROVE  Attached'
<1>1. connection'[g] = c /\ \A h \in Loads : h # g => connection'[h] = connection[h]
    BY DEF ViewInv, TypeOK
<1>2. UNCHANGED <<load, page>> /\ mode' = mode /\ load.number \in 0 .. MaxLoads
    BY DEF client, Keeps, ViewInv, TypeOK, Load
<1>3. Attached
    BY DEF ViewInv
<1>4. CASE load.number \notin Loads
    <2>1. load.phase = "idle"
        BY <1>3, <1>4 DEF Attached
    <2> QED BY <1>1, <1>2, <1>3, <2>1 DEF Attached, Continues
<1>5. CASE load.number \in Loads /\ load.number # g
    <2>1. Mine' = Mine
        BY <1>1, <1>2, <1>5 DEF Mine
    <2>2. \A h \in Loads : h > load.number => connection'[h].phase = "none"
        BY <1>1, <1>3 DEF Attached, Continues
    <2> QED BY <1>2, <1>3, <2>1, <2>2 DEF Attached
<1>6. CASE load.number = g
    <2>1. Mine = connection[g] /\ Mine' = c
        BY <1>1, <1>2, <1>6 DEF Mine
    <2>2. \A h \in Loads : h > load.number => connection'[h].phase = "none"
        BY <1>1, <1>3, <1>6, <1>2 DEF Attached, Continues
    <2>3. Mine.phase \notin {"none", "ended"}
        BY <2>1 DEF Continues
    <2>4. load.phase \notin {"idle", "stream"} => Mine'.wire = << >> /\ Mine'.gone /\ load.phase \notin {"tracks", "captions"}
        BY <1>3, <2>1, <2>3 DEF Attached, Continues
    <2>5. load.phase \notin {"idle", "tracks", "captions", "failed"} => Mine'.video = load.video
        BY <1>3, <2>1 DEF Attached, Continues
    <2>6. load.phase = "stream" => ~Mine'.gone
        BY <1>3, <2>1 DEF Attached, Continues
    <2> QED BY <1>2, <1>3, <2>2, <2>3, <2>4, <2>5, <2>6 DEF Attached
<1> QED BY <1>4, <1>5, <1>6

\* What a load is sent keeps the order, and keeps the promise of its events.
LEMMA ServedFeed ==
    ASSUME ViewInv, Keeps, UNCHANGED client, NEW g \in Loads, NEW c, NEW more,
           Continues(connection[g], c, more), connection' = [connection EXCEPT ![g] = c],
           Says(document'[c.video], cache'[c.video], c.phase, more)
    PROVE  Feed'
<1>1. connection'[g] = c /\ \A h \in Loads : h # g => connection'[h] = connection[h]
    BY DEF ViewInv, TypeOK
<1>2. UNCHANGED <<load, page, subtitles>> /\ mode' = mode
    BY DEF client, Keeps
<1> SUFFICES ASSUME load.phase = "stream" PROVE Feed'
    BY <1>2 DEF Feed
<1>3. /\ load.number \in Loads /\ Mine.video = load.video /\ Mine.gone # TRUE
    BY DEF ViewInv, Attached
<1>4. load.video \in Videos /\ Mine.wire \in Seq(Events)
    BY <1>3, ConnectionTyped DEF ViewInv, Mine
<1>5. /\ InSourceOrder(Mine.wire, DOMAIN subtitles, load.receivedMeta)
      /\ Mine.phase \in {"observing", "translating"} =>
            AllDue(Mine.wire, DOMAIN subtitles, load.receivedMeta)
      /\ mode = "document" /\ (load.streamDone \/ HasDone(Mine.wire)) => Publication
      /\ mode = "legacy" =>
            /\ \A k \in DOMAIN Mine.wire : CueEvent(Mine.wire[k]) /\ Mine.wire[k].text # 0 =>
                  Cached(Mine.wire[k].index) \/ Doomed(Mine.wire)
            /\ \A i \in DOMAIN subtitles : subtitles[i].source # "none" => Cached(i) \/ Doomed(Mine.wire)
    BY DEF ViewInv, Feed
<1>6. \A i : Cached(i) => i \in cache'[load.video]
    BY <1>2, <1>4 DEF Cached, Keeps
<1>7. document[load.video].status = "succeeded" => document'[load.video] = document[load.video]
    BY <1>4 DEF Keeps
<1>8. CASE load.number # g
    <2>1. Mine' = Mine
        BY <1>1, <1>2, <1>3, <1>8 DEF Mine
    <2>2. Publication => Publication'
        BY <1>2, <1>7, <2>1 DEF Publication, ShownFinal
    <2> QED BY <1>2, <1>5, <1>6, <2>1, <2>2 DEF Feed, Cached
<1>9. CASE load.number = g
    <2> DEFINE old == connection[g].wire
               known == DOMAIN subtitles
               meta == load.receivedMeta
    <2>1. Mine = connection[g] /\ Mine' = c /\ connection[g].gone # TRUE /\ c.video = load.video
        BY <1>1, <1>2, <1>3, <1>9 DEF Mine, Continues
    <2>2. c.wire = old \o more /\ old \in Seq(Events) /\ more \in Seq(Events)
        BY <1>4, <2>1 DEF Continues
    <2>3. WireOK(connection[g])
        BY DEF ViewInv, Wires
    <2>4. /\ Len(c.wire) = Len(old) + Len(more)
          /\ \A k \in DOMAIN old : k \in DOMAIN c.wire /\ c.wire[k] = old[k]
          /\ \A k \in DOMAIN more : Len(old) + k \in DOMAIN c.wire /\ c.wire[Len(old) + k] = more[k]
          /\ \A k \in DOMAIN c.wire : k \in DOMAIN old \/ \E j \in DOMAIN more : k = Len(old) + j
        BY <2>2, Joined
    <2>5. \A k \in DOMAIN more : CueEvent(more[k]) => more[k].index \in Cues
        BY DEF Says, Truthful
    <2>6. InSourceOrder(c.wire, known, meta) /\ (c.phase \in {"observing", "translating"} => AllDue(c.wire, known, meta))
        <3> HIDE DEF known, meta, old
        <3>1. CASE connection[g].phase \in {"observing", "translating"}
            <4>1. InSourceOrder(old, known, meta) /\ AllDue(old, known, meta)
                BY <1>5, <2>1, <3>1 DEF known, meta, old
            <4> QED BY <2>2, <2>5, <4>1, OrderExtends
        <3>2. CASE connection[g].phase \notin {"observing", "translating"}
            <4>1. connection[g].phase \in {"ingest", "submitted", "reading"}
                BY <3>2, ConnectionTyped DEF ViewInv, Connection, Continues
            <4>2. old = << >>
                BY <2>3, <4>1 DEF WireOK, old
            <4>3. c.wire = more
                BY <2>2, <4>2
            <4>4. ASSUME NEW rest \in Seq(Events), more = Header \o rest
                  PROVE  InSourceOrder(more, known, meta) /\ AllDue(more, known, meta)
                <5>1. Header \in Seq(Events) /\ InSourceOrder(Header, known, meta) /\ AllDue(Header, known, meta)
                    BY HeaderEvents, HeaderOpens
                <5>2. \A k \in DOMAIN rest : CueEvent(rest[k]) => rest[k].index \in Cues
                    <6>1. \A k \in DOMAIN rest : Len(Header) + k \in DOMAIN more /\ more[Len(Header) + k] = rest[k]
                        BY <4>4, <5>1, Joined
                    <6> QED BY <2>5, <6>1
                <5> QED BY <4>4, <5>1, <5>2, OrderExtends
            <4>5. ASSUME \A k \in DOMAIN more : ~CueEvent(more[k]) PROVE InSourceOrder(more, known, meta)
                BY <4>5 DEF InSourceOrder
            <4> QED BY <3>2, <4>3, <4>4, <4>5 DEF Continues
        <3> QED BY <3>1, <3>2
    <2>7. ASSUME mode = "document", load.streamDone \/ HasDone(c.wire) PROVE Publication'
        <3>1. ASSUME load.streamDone \/ HasDone(old) PROVE Publication'
            <4>1. Publication
                BY <1>5, <2>1, <2>7, <3>1
            <4>2. \A i : (\E k \in DOMAIN old : FinalCue(old[k], i)) => \E k \in DOMAIN c.wire : FinalCue(c.wire[k], i)
                BY <2>4
            <4> QED BY <1>2, <1>7, <2>1, <4>1, <4>2 DEF Publication, ShownFinal
        <3>2. ASSUME HasDone(more) PROVE Publication'
            <4>1. /\ document'[load.video].status = "succeeded"
                  /\ \A i \in Cues : \E k \in DOMAIN more : FinalCue(more[k], i)
                BY <2>1, <2>7, <3>2 DEF Says
            <4>2. \A i \in Cues : \E k \in DOMAIN c.wire : FinalCue(c.wire[k], i)
                BY <2>4, <4>1
            <4> QED BY <1>2, <2>1, <4>1, <4>2 DEF Publication
        <3>3. HasDone(c.wire) => HasDone(old) \/ HasDone(more)
            <4> HIDE DEF old
            <4> QED BY <2>4 DEF HasDone
        <3> QED BY <2>7, <3>1, <3>2, <3>3
    <2>8. ~Doomed(old)
        <3> SUFFICES ASSUME Doomed(old) PROVE FALSE
            OBVIOUS
        <3>1. Len(old) \in DOMAIN old /\ Breaks(old[Len(old)])
            BY <2>2 DEF Doomed, Breaks
        <3>2. connection[g].phase = "ended"
            BY <2>3, <3>1 DEF WireOK
        <3> QED BY <3>2 DEF Continues
    <2>9. ASSUME Doomed(more) PROVE Doomed(c.wire)
        <3>1. Len(more) \in DOMAIN more /\ Len(more) \in Nat \ {0}
            BY <2>2, <2>9 DEF Doomed
        <3>2. c.wire[Len(c.wire)] = more[Len(more)] /\ Len(c.wire) \in DOMAIN c.wire
            BY <2>4, <3>1
        <3>3. c.wire # << >>
            BY <3>2
        <3> QED BY <2>9, <3>2, <3>3 DEF Doomed
    <2>10. ASSUME mode = "legacy"
           PROVE  /\ \A k \in DOMAIN c.wire : CueEvent(c.wire[k]) /\ c.wire[k].text # 0 =>
                        c.wire[k].index \in cache'[load.video] \/ Doomed(c.wire)
                  /\ \A i \in DOMAIN subtitles : subtitles[i].source # "none" =>
                        i \in cache'[load.video] \/ Doomed(c.wire)
        <3>1. \A k \in DOMAIN more : CueEvent(more[k]) /\ more[k].text # 0 =>
                  more[k].index \in cache'[load.video] \/ Doomed(c.wire)
            BY <1>2, <2>1, <2>9, <2>10 DEF Says, Cached
        <3>2. \A k \in DOMAIN old : CueEvent(old[k]) /\ old[k].text # 0 => old[k].index \in cache'[load.video]
            BY <1>5, <1>6, <2>1, <2>8, <2>10
        <3>3. \A i \in DOMAIN subtitles : subtitles[i].source # "none" => i \in cache'[load.video]
            BY <1>5, <1>6, <2>1, <2>8, <2>10
        <3> HIDE DEF old
        <3> QED BY <2>4, <3>1, <3>2, <3>3
    <2> QED BY <1>2, <2>1, <2>6, <2>7, <2>10 DEF Feed, Cached
<1> QED BY <1>8, <1>9

\* A step of the server for a connection keeps the invariant.
LEMMA Served ==
    ASSUME ViewInv, Keeps, UNCHANGED client, NEW g \in Loads, NEW c, NEW more,
           Continues(connection[g], c, more), connection' = [connection EXCEPT ![g] = c],
           Says(document'[c.video], cache'[c.video], c.phase, more),
           LegacyInv', activeLegacyStreams' \in [Videos -> 0 .. MaxLoads]
    PROVE  ViewInv'
<1>1. TypeOK'
    <2>1. connection' \in [Loads -> Connection]
        BY DEF ViewInv, TypeOK, Continues
    <2>2. mode' \in {"document", "legacy"} /\ document' \in [Videos -> Document] /\ cache' \in [Videos -> SUBSET Cues]
        BY DEF Keeps, ViewInv, TypeOK
    <2>3. UNCHANGED <<page, load, subtitles, position, fallback>>
        BY DEF client
    <2> QED BY <2>1, <2>2, <2>3 DEF ViewInv, TypeOK
<1>2. Wires' /\ Attached' /\ Feed'
    BY ServedWires, ServedAttached, ServedFeed
<1>3. load.video \in Videos
    BY DEF ViewInv, TypeOK, Load
<1>4. Settled'
    BY <1>3 DEF ViewInv, Settled, Keeps, client, Cached, ShownFinal
<1>5. WholeSource' /\ FallbackWhileUseful'
    BY DEF ViewInv, WholeSource, FallbackWhileUseful, Keeps, client, Working
<1> QED BY <1>1, <1>2, <1>4, <1>5 DEF ViewInv

-----------------------------------------------------------------------------
(* What the server sends. *)

\* Events that report cues, or the beginning.
Plain(doc, w) == \A k \in DOMAIN w : Truthful(doc, w[k]) /\ ~Breaks(w[k]) /\ w[k].type # "done"

\* The fields of an event.
LEMMA EventFields ==
    \A type, i, text : /\ Event(type, i, text).type = type
                      /\ Event(type, i, text).index = i
                      /\ Event(type, i, text).text = text
BY DEF Event

\* An event alone.
LEMMA One == \A e \in Events : <<e>> \in Seq(Events) /\ DOMAIN <<e>> = {1} /\ Len(<<e>>) = 1 /\ <<e>>[1] = e
OBVIOUS

\* Reports of cues go before whatever is said.
LEMMA SaysMore ==
    ASSUME NEW doc, NEW cached, NEW phase, NEW w \in Seq(Events), NEW more \in Seq(Events),
           Plain(doc, w), Says(doc, cached, phase, more),
           mode = "legacy" => \A k \in DOMAIN w :
               CueEvent(w[k]) /\ w[k].text # 0 => w[k].index \in cached \/ Doomed(more)
    PROVE  Says(doc, cached, phase, w \o more)
<1> DEFINE all == w \o more
<1>1. /\ all \in Seq(Events) /\ Len(all) = Len(w) + Len(more)
      /\ \A k \in DOMAIN w : k \in DOMAIN all /\ all[k] = w[k]
      /\ \A k \in DOMAIN more : Len(w) + k \in DOMAIN all /\ all[Len(w) + k] = more[k]
      /\ \A k \in DOMAIN all : k \in DOMAIN w \/ \E j \in DOMAIN more : k = Len(w) + j
    BY Joined
<1> HIDE DEF all
<1>2. \A k \in DOMAIN all : Truthful(doc, all[k]) /\ (Breaks(all[k]) => phase = "ended" /\ k = Len(all))
    BY <1>1, ZenonT(30) DEF Plain, Says
<1>3. mode = "document" /\ HasDone(all) =>
          doc.status = "succeeded" /\ \A i \in Cues : \E k \in DOMAIN all : FinalCue(all[k], i)
    <2> SUFFICES ASSUME mode = "document", HasDone(all)
                 PROVE  doc.status = "succeeded" /\ \A i \in Cues : \E k \in DOMAIN all : FinalCue(all[k], i)
        OBVIOUS
    <2>1. HasDone(more)
        BY <1>1 DEF HasDone, Plain
    <2> QED BY <1>1, <2>1 DEF Says
<1>4. Doomed(more) => Doomed(all)
    <2> SUFFICES ASSUME Doomed(more) PROVE Doomed(all)
        OBVIOUS
    <2>1. Len(more) \in DOMAIN more
        BY DEF Doomed
    <2>2. all[Len(all)] = more[Len(more)] /\ Len(all) \in DOMAIN all
        BY <1>1, <2>1
    <2>3. all # << >>
        BY <2>2
    <2> QED BY <2>2, <2>3 DEF Doomed
<1>5. mode = "legacy" => \A k \in DOMAIN all :
          CueEvent(all[k]) /\ all[k].text # 0 => all[k].index \in cached \/ Doomed(all)
    BY <1>1, <1>4 DEF Says
<1> QED BY <1>2, <1>3, <1>5 DEF Says, all

\* Nothing, a failure, or the end of a temporary translation can always be said.
LEMMA NothingSaid == ASSUME NEW doc, NEW cached, NEW phase PROVE Says(doc, cached, phase, << >>)
BY DEF Says, HasDone

\* A failure may be said of any document, once the stream is over.
LEMMA FailureSaid ==
    ASSUME NEW doc, NEW cached, NEW e \in {Failure, Unavailable}
    PROVE  /\ <<e>> \in Seq(Events) /\ Says(doc, cached, "ended", <<e>>)
           /\ \A k \in DOMAIN <<e>> : ~CueEvent(<<e>>[k])
<1>1. e \in Events /\ e.type \in {"error", "unavailable"}
    BY EventFields, StreamOK DEF Failure, Unavailable, Event, Events
<1>2. <<e>> \in Seq(Events) /\ DOMAIN <<e>> = {1} /\ Len(<<e>>) = 1 /\ <<e>>[1] = e
    BY <1>1, One
<1> QED BY <1>1, <1>2 DEF Says, HasDone, Truthful, Breaks, CueEvent

\* So may the end of a legacy stream.
LEMMA EndSaid ==
    ASSUME NEW doc, NEW cached, NEW failed \in 0 .. Length, mode = "legacy"
    PROVE  <<Done(failed)>> \in Seq(Events) /\ Says(doc, cached, "ended", <<Done(failed)>>)
<1>1. Done(failed) \in Events /\ Done(failed).type = "done"
    BY EventFields, StreamOK DEF Done, Event, Events
<1>2. LET w == <<Done(failed)>> IN w \in Seq(Events) /\ DOMAIN w = {1} /\ Len(w) = 1 /\ w[1] = Done(failed)
    BY <1>1, One
<1> QED BY <1>1, <1>2 DEF Says, HasDone, Truthful, Breaks, CueEvent

\* The header promises nothing.
LEMMA HeaderPlain ==
    ASSUME NEW doc
    PROVE  Plain(doc, Header) /\ \A k \in DOMAIN Header : CueEvent(Header[k]) => Header[k].text = 0
<1>1. /\ DOMAIN Header = 1 .. Length + 1 /\ Header[1] = Meta
      /\ \A i \in Cues : Header[i + 2] = Event("source_cue", i, 0)
    BY HeaderEvents
<1>2. ASSUME NEW k \in DOMAIN Header
      PROVE  \/ Header[k].type = "meta"
             \/ Header[k].type = "source_cue" /\ Header[k].index \in Cues /\ Header[k].text = 0
    <2>1. CASE k = 1
        BY <1>1, <2>1, EventFields DEF Meta
    <2>2. CASE k # 1
        <3>1. k - 2 \in Cues /\ (k - 2) + 2 = k
            BY <1>1, <2>2, StreamOK DEF Cues
        <3>2. Header[k] = Event("source_cue", k - 2, 0)
            BY <1>1, <3>1
        <3> QED BY <3>1, <3>2, EventFields
    <2> QED BY <2>1, <2>2
<1> QED BY <1>2 DEF Plain, Truthful, Breaks, CueEvent

PublishedIn(doc, S, texts) == doc.status = "succeeded" /\ \A i \in S : texts[i] = doc.final[i]

\* Previews may be sent at any time, cues when they are published or cached.
LEMMA CuesPlain ==
    ASSUME NEW doc, NEW type \in {"cue", "preview"}, NEW S \in SUBSET Cues,
           NEW T, S \subseteq T, NEW texts \in [T -> 0 .. Versions],
           mode = "document" /\ type = "cue" => PublishedIn(doc, S, texts)
    PROVE  /\ PerCue(type, S, texts) \in Seq(Events) /\ Plain(doc, PerCue(type, S, texts))
           /\ \A k \in DOMAIN PerCue(type, S, texts) : PerCue(type, S, texts)[k].index \in S
<1> DEFINE w == PerCue(type, S, texts)
<1>1. /\ w \in Seq(Events)
      /\ \A k \in DOMAIN w : w[k].type = type /\ w[k].index \in S /\ w[k].text = texts[w[k].index]
    <2>1. type \in {"source_cue", "cue", "preview"}
        OBVIOUS
    <2>2. Reports(type, S, texts, w)
        BY <2>1, EventsPerCue
    <2> QED BY <2>2 DEF Reports
<1> HIDE DEF w
<1>2. Plain(doc, w)
    BY <1>1 DEF Plain, Truthful, Breaks, PublishedIn
<1> QED BY <1>1, <1>2 DEF w

\* The last events of a stream.
LEMMA ClosedIs ==
    ASSUME NEW c \in Connection
    PROVE  /\ \A events \in Seq(Events) : LET d == Closed(c, events) IN
                 /\ d \in Connection /\ d.video = c.video /\ d.gone = c.gone /\ d.phase = "ended"
                 /\ d.wire = IF c.gone THEN c.wire ELSE c.wire \o events
           /\ LET d == Ended(c) IN
                 /\ d \in Connection /\ d.video = c.video /\ d.gone = c.gone /\ d.phase = "ended"
                 /\ d.wire = c.wire
<1>1. c.wire \in Seq(Events) /\ c.gone \in BOOLEAN
    BY DEF Connection
<1>2. NoText \in [Cues -> 0 .. Versions] /\ 0 \in 0 .. Length
    BY StreamOK DEF NoText
<1>3. ASSUME NEW events \in Seq(Events)
      PROVE  LET d == Closed(c, events) IN
             /\ d \in Connection /\ d.video = c.video /\ d.gone = c.gone /\ d.phase = "ended"
             /\ d.wire = IF c.gone THEN c.wire ELSE c.wire \o events
    <2>1. c.wire \o events \in Seq(Events)
        BY <1>1, ConcatProperties
    <2> QED BY <1>1, <1>2, <2>1 DEF Closed, Ended, Sent, Connection
<1>4. LET d == Ended(c) IN
      /\ d \in Connection /\ d.video = c.video /\ d.gone = c.gone /\ d.phase = "ended" /\ d.wire = c.wire
    BY <1>1, <1>2 DEF Ended, Connection
<1> QED BY <1>3, <1>4

\* A round of watching a document sends what is new, and ends with it.
LEMMA LookedSays ==
    ASSUME NEW c \in Connection, c.phase = "observing", NEW doc \in Document, NEW cached, mode = "document",
           Complete(doc)
    PROVE  LET d == Looked(c, doc) IN
           /\ d \in Connection /\ d.video = c.video /\ d.gone = c.gone /\ d.phase \in {"observing", "ended"}
           /\ \E more \in Seq(Events) :
                 /\ d.wire = IF c.gone THEN c.wire ELSE c.wire \o more
                 /\ Says(doc, cached, d.phase, more)
<1> DEFINE news == {i \in Cues : doc.preview[i] # 0 /\ doc.preview[i] # c.sent[i]}
           previews == PerCue("preview", news, doc.preview)
<1>1. doc.preview \in [Cues -> 0 .. Versions] /\ doc.final \in [Cues -> 0 .. Versions] /\ news \in SUBSET Cues
    BY DEF Document
<1>2. previews \in Seq(Events) /\ Plain(doc, previews)
    BY <1>1, CuesPlain
<1>3. c.wire \in Seq(Events) /\ c.sent \in [Cues -> 0 .. Versions] /\ c.gone \in BOOLEAN
    BY DEF Connection
<1> HIDE DEF news, previews
<1>5. ASSUME NEW events \in Seq(Events)
      PROVE  LET d == Closed(c, events) IN
             /\ d \in Connection /\ d.video = c.video /\ d.gone = c.gone /\ d.phase = "ended"
             /\ d.wire = IF c.gone THEN c.wire ELSE c.wire \o events
    BY ClosedIs
<1>6. CASE doc.status = "succeeded"
    <2> DEFINE published == PerCue("cue", Cues, doc.final)
               events == published \o <<Done(0)>>
    <2>1. published \in Seq(Events) /\ Plain(doc, published)
        <3>1. PublishedIn(doc, Cues, doc.final)
            BY <1>6 DEF PublishedIn
        <3> QED BY <1>1, <3>1, CuesPlain
    <2>2. \A i \in Cues : \E k \in DOMAIN published : published[k] = Event("cue", i, doc.final[i])
        <3>1. Reports("cue", Cues, doc.final, published)
            BY <1>1, EventsPerCue
        <3> QED BY <3>1 DEF Reports
    <2>3. Done(0) \in Events /\ Done(0).type = "done" /\ Done(0).index = 0
        BY EventFields, StreamOK DEF Done, Event, Events
    <2>4. LET w == <<Done(0)>> IN w \in Seq(Events) /\ DOMAIN w = {1} /\ Len(w) = 1 /\ w[1] = Done(0)
        BY <2>3, One
    <2> HIDE DEF published
    <2>5. /\ events \in Seq(Events)
          /\ \A k \in DOMAIN published : k \in DOMAIN events /\ events[k] = published[k]
          /\ \A k \in DOMAIN events : k \in DOMAIN published \/ events[k] = Done(0)
        BY <2>1, <2>4, Joined
    <2> HIDE DEF events
    <2>6. \A k \in DOMAIN events : Truthful(doc, events[k]) /\ ~Breaks(events[k])
        BY <2>1, <2>3, <2>5 DEF Plain, Truthful, Breaks, CueEvent
    <2>7. \A i \in Cues : \E k \in DOMAIN events : FinalCue(events[k], i)
        BY <1>6, <2>2, <2>5, EventFields DEF FinalCue, Complete
    <2>8. Says(doc, cached, "ended", events)
        BY <1>6, <2>6, <2>7 DEF Says
    <2>9. Looked(c, doc) = Closed(c, events)
        BY <1>6 DEF Looked, events, published
    <2> QED BY <1>5, <2>5, <2>8, <2>9
<1>7. CASE doc.status = "cancelled"
    <2>1. Looked(c, doc) = Closed(c, <<Failure>>)
        BY <1>7 DEF Looked
    <2>2. <<Failure>> \in Seq(Events) /\ Says(doc, cached, "ended", <<Failure>>)
        BY FailureSaid
    <2> QED BY <1>5, <2>1, <2>2
<1>8. CASE doc.status = "failed"
    <2>1. Looked(c, doc) = Closed(c, previews \o <<Failure>>)
        BY <1>8 DEF Looked, news, previews
    <2>2. <<Failure>> \in Seq(Events) /\ Says(doc, cached, "ended", <<Failure>>)
        BY FailureSaid
    <2>3. previews \o <<Failure>> \in Seq(Events) /\ Says(doc, cached, "ended", previews \o <<Failure>>)
        BY <1>2, <2>2, SaysMore, Joined
    <2> QED BY <1>5, <2>1, <2>3
<1>9. CASE doc.status \notin {"succeeded", "cancelled", "failed"}
    <2> DEFINE sent == [i \in Cues |-> IF i \in news THEN doc.preview[i] ELSE c.sent[i]]
    <2>1. Looked(c, doc) = [Sent(c, previews) EXCEPT !.sent = sent]
        BY <1>9 DEF Looked, news, previews
    <2>2. sent \in [Cues -> 0 .. Versions] /\ c.wire \o previews \in Seq(Events)
        BY <1>1, <1>2, <1>3, ConcatProperties
    <2> HIDE DEF sent
    <2>3. LET d == Looked(c, doc) IN
          /\ d \in Connection /\ d.video = c.video /\ d.gone = c.gone /\ d.phase = "observing"
          /\ d.wire = IF c.gone THEN c.wire ELSE c.wire \o previews
        BY <1>3, <2>1, <2>2 DEF Sent, Connection
    <2>4. Says(doc, cached, "observing", << >>)
        BY NothingSaid
    <2>5. Says(doc, cached, "observing", previews \o << >>)
        <3>1. << >> \in Seq(Events)
            OBVIOUS
        <3> QED BY <1>2, <2>4, <3>1, SaysMore
    <2>6. previews \o << >> = previews
        BY <1>2, ConcatProperties
    <2> QED BY <1>2, <2>3, <2>5, <2>6
<1> QED BY <1>6, <1>7, <1>8, <1>9

-----------------------------------------------------------------------------
(* The steps of the server. *)

\* Nothing is forgotten.
LEMMA KeepsAll == ViewInv /\ UNCHANGED <<mode, document, cache>> => Keeps
BY DEF ViewInv, TypeOK, Wires, Keeps

\* A submission attaches to a job or starts one, and touches no publication.
LEMMA DocumentSubmitted ==
    ASSUME NEW doc \in Document
    PROVE  /\ Submitted(doc) \in Document /\ Submitted(doc).status \in {"running", "succeeded"}
           /\ Submitted(doc).status = "succeeded" => doc.status = "succeeded"
           /\ doc.status = "succeeded" => Submitted(doc) = doc
<1>1. NoText \in [Cues -> 0 .. Versions]
    BY StreamOK DEF NoText
<1>2. CASE doc.status \in {"running", "succeeded"}
    BY <1>2 DEF Submitted, Document
<1>3. CASE doc.status = "failed"
    BY <1>3 DEF Submitted, Document
<1>4. CASE doc.status \notin {"running", "succeeded", "failed"}
    BY <1>1, <1>4 DEF Submitted, Document, NewDocument
<1> QED BY <1>2, <1>3, <1>4

\* Ingestion or submission fails.
LEMMA FailureServed ==
    ASSUME ViewInv, UNCHANGED client, NEW g \in Loads, IngestFails(g) \/ SubmitFails(g)
    PROVE  ViewInv'
<1>1. PICK reason \in {Failure, Unavailable} : connection' = [connection EXCEPT ![g] = Closed(connection[g], <<reason>>)]
    BY DEF IngestFails, SubmitFails, To
<1>2. connection[g].phase = "ingest" /\ UNCHANGED <<mode, document, cache, activeLegacyStreams>>
    BY DEF IngestFails, SubmitFails
<1> DEFINE c == Closed(connection[g], <<reason>>)
<1>3. connection[g] \in Connection /\ connection[g].video \in Videos
    BY ConnectionTyped DEF ViewInv
<1>4. /\ <<reason>> \in Seq(Events) /\ Says(document[connection[g].video], cache[connection[g].video], "ended", <<reason>>)
      /\ \A k \in DOMAIN <<reason>> : ~CueEvent(<<reason>>[k])
    BY FailureSaid
<1>5. /\ c \in Connection /\ c.video = connection[g].video /\ c.gone = connection[g].gone /\ c.phase = "ended"
      /\ c.wire = IF connection[g].gone THEN connection[g].wire ELSE connection[g].wire \o <<reason>>
    BY <1>3, <1>4, ClosedIs
<1> HIDE DEF c
<1>6. Keeps
    BY <1>2, KeepsAll
<1>7. Continues(connection[g], c, <<reason>>)
    BY <1>2, <1>4, <1>5 DEF Continues
<1>8. LegacyInv'
    <2>1. ~Legacy(connection[g]) /\ ~Legacy(c) /\ EngineOK(c)
        BY <1>2, <1>5 DEF Legacy, EngineOK
    <2> QED BY <1>1, <1>2, <1>5, <2>1, SameStreams DEF ViewInv, c
<1>9. activeLegacyStreams' \in [Videos -> 0 .. MaxLoads]
    BY <1>2 DEF ViewInv, TypeOK
<1>10. Says(document'[c.video], cache'[c.video], c.phase, <<reason>>)
    BY <1>2, <1>4, <1>5
<1> QED BY <1>1, <1>6, <1>7, <1>8, <1>9, <1>10, Served DEF c

\* The document is submitted.
LEMMA SubmissionServed ==
    ASSUME ViewInv, UNCHANGED client, NEW g \in Loads, SubmitDocument(g)
    PROVE  ViewInv'
<1> DEFINE old == connection[g]
           submitted == [old EXCEPT !.phase = "submitted", !.downloads = FALSE]
           c == IF old.gone THEN Left(submitted) ELSE submitted
           v == old.video
<1>1. /\ mode = "document" /\ old.phase = "ingest" /\ UNCHANGED <<mode, cache, activeLegacyStreams>>
      /\ connection' = [connection EXCEPT ![g] = c]
      /\ document' = [document EXCEPT ![v] = Submitted(document[v])]
    BY DEF SubmitDocument, To
<1>2. old \in Connection /\ v \in Videos /\ old.wire = << >>
    <2>1. WireOK(old)
        BY DEF ViewInv, Wires
    <2> QED BY <1>1, <2>1, ConnectionTyped DEF ViewInv, WireOK
<1>3. /\ submitted \in Connection /\ submitted.phase = "submitted"
      /\ submitted.video = v /\ submitted.gone = old.gone /\ submitted.wire = << >>
    BY <1>2 DEF Connection
<1> HIDE DEF submitted
<1>4. /\ c \in Connection /\ c.phase \in {"submitted", "ended"} /\ c.video = v /\ c.gone = old.gone /\ c.wire = << >>
    <2>1. CASE old.gone = TRUE
        BY <1>3, <2>1, ClosedIs DEF Left
    <2>2. CASE old.gone # TRUE
        BY <1>3, <2>2
    <2> QED BY <2>1, <2>2
<1>5. << >> \in Seq(Events) /\ << >> \o << >> = << >>
    OBVIOUS
<1>6. document[v] \in Document /\ Complete(document[v])
    BY <1>2 DEF ViewInv, TypeOK, Wires
<1>7. Submitted(document[v]) \in Document /\ (document[v].status = "succeeded" => Submitted(document[v]) = document[v])
      /\ Complete(Submitted(document[v]))
    BY <1>6, DocumentSubmitted DEF Complete
<1> HIDE DEF v
<1>8. \A u \in Videos : document'[u] = IF u = v THEN Submitted(document[v]) ELSE document[u]
    BY <1>1, <1>2 DEF ViewInv, TypeOK
<1>9. Keeps
    <2>1. document' \in [Videos -> Document]
        BY <1>1, <1>7 DEF ViewInv, TypeOK
    <2> QED BY <1>1, <1>7, <1>8, <2>1 DEF Keeps, ViewInv, TypeOK, Wires
<1> HIDE DEF c
<1>10. Continues(old, c, << >>)
    BY <1>1, <1>2, <1>4, <1>5 DEF Continues, v
<1>11. LegacyInv'
    <2>1. ~Legacy(old) /\ ~Legacy(c) /\ EngineOK(c) /\ c.phase # "ingest"
        BY <1>1, <1>4 DEF Legacy, EngineOK
    <2> QED BY <1>1, <2>1, SameStreams DEF ViewInv
<1>12. activeLegacyStreams' \in [Videos -> 0 .. MaxLoads]
    BY <1>1 DEF ViewInv, TypeOK
<1>13. Says(document'[c.video], cache'[c.video], c.phase, << >>)
    BY NothingSaid
<1> QED BY <1>1, <1>9, <1>10, <1>11, <1>12, <1>13, Served

\* The document is watched.
LEMMA ObservationServed ==
    ASSUME ViewInv, UNCHANGED client, NEW g \in Loads, ObserveFirst(g) \/ Observe(g)
    PROVE  ViewInv'
<1> DEFINE old == connection[g]
           v == old.video
<1>1. UNCHANGED <<mode, document, cache, activeLegacyStreams>> /\ old.phase \in {"submitted", "observing"}
    BY DEF ObserveFirst, Observe
<1>2. /\ old \in Connection /\ v \in Videos /\ old.wire \in Seq(Events) /\ WireOK(old)
      /\ document[v] \in Document /\ Complete(document[v]) /\ EngineOK(old)
    BY ConnectionTyped DEF ViewInv, TypeOK, Wires, LegacyInv
<1>3. mode = "document"
    BY <1>1, <1>2 DEF EngineOK, ViewInv, TypeOK
<1>4. Keeps /\ activeLegacyStreams' \in [Videos -> 0 .. MaxLoads]
    BY <1>1, KeepsAll DEF ViewInv, TypeOK
<1>5. ASSUME NEW c, NEW more, Continues(old, c, more), connection' = [connection EXCEPT ![g] = c],
             c.phase \in {"observing", "ended"}, Says(document[v], cache[v], c.phase, more)
      PROVE  ViewInv'
    <2>1. ~Legacy(old) /\ ~Legacy(c) /\ EngineOK(c) /\ c.phase # "ingest"
        BY <1>1, <1>3, <1>5 DEF Legacy, EngineOK
    <2>2. LegacyInv'
        BY <1>1, <1>5, <2>1, SameStreams DEF ViewInv
    <2>3. c.video = v
        BY <1>5 DEF Continues
    <2> QED BY <1>1, <1>4, <1>5, <2>2, <2>3, Served
<1>6. CASE ObserveFirst(g)
    <2> DEFINE opened == [Sent(old, Header) EXCEPT !.phase = "observing"]
               c == Looked(opened, document[v])
    <2>1. old.phase = "submitted" /\ connection' = [connection EXCEPT ![g] = c]
        BY <1>6 DEF ObserveFirst, To
    <2>2. old.wire = << >> /\ Header \in Seq(Events)
        BY <1>2, <2>1, HeaderEvents DEF WireOK
    <2>3. << >> \o Header = Header
        BY <2>2, ConcatProperties
    <2>4. /\ opened \in Connection /\ opened.phase = "observing" /\ opened.video = v /\ opened.gone = old.gone
          /\ opened.wire = IF old.gone THEN << >> ELSE Header
        <3>1. CASE old.gone = TRUE
            BY <1>2, <2>2, <3>1 DEF Sent, Connection
        <3>2. CASE old.gone # TRUE
            BY <1>2, <2>2, <2>3, <3>2 DEF Sent, Connection
        <3> QED BY <3>1, <3>2
    <2> HIDE DEF opened
    <2>5. PICK more \in Seq(Events) :
              /\ c.wire = IF opened.gone THEN opened.wire ELSE opened.wire \o more
              /\ Says(document[v], cache[v], c.phase, more)
        BY <1>2, <1>3, <2>4, LookedSays
    <2>6. c \in Connection /\ c.video = v /\ c.gone = old.gone /\ c.phase \in {"observing", "ended"}
        BY <1>2, <1>3, <2>4, LookedSays
    <2> HIDE DEF c
    <2>7. Header \o more \in Seq(Events) /\ << >> \o (Header \o more) = Header \o more
        BY <2>2, ConcatProperties
    <2>8. Says(document[v], cache[v], c.phase, Header \o more)
        BY <2>2, <2>5, HeaderPlain, SaysMore
    <2>9. c.wire = IF old.gone THEN old.wire ELSE old.wire \o (Header \o more)
        BY <2>2, <2>4, <2>5, <2>7
    <2>10. Continues(old, c, Header \o more)
        BY <2>1, <2>6, <2>7, <2>9 DEF Continues
    <2> QED BY <1>5, <2>1, <2>6, <2>8, <2>10
<1>7. CASE Observe(g)
    <2> DEFINE c == Looked(old, document[v])
    <2>1. old.phase = "observing" /\ connection' = [connection EXCEPT ![g] = c]
        BY <1>7 DEF Observe, To
    <2>2. PICK more \in Seq(Events) :
              /\ c.wire = IF old.gone THEN old.wire ELSE old.wire \o more
              /\ Says(document[v], cache[v], c.phase, more)
        BY <1>2, <1>3, <2>1, LookedSays
    <2>3. c \in Connection /\ c.video = v /\ c.gone = old.gone /\ c.phase \in {"observing", "ended"}
        BY <1>2, <1>3, <2>1, LookedSays
    <2> HIDE DEF c
    <2>4. Continues(old, c, more)
        BY <2>1, <2>2, <2>3 DEF Continues
    <2> QED BY <1>5, <2>1, <2>2, <2>3, <2>4
<1> QED BY <1>6, <1>7

\* Translations of some cues.
LEMMA TranslatedPlain ==
    ASSUME NEW doc, NEW S \in SUBSET Cues, mode = "legacy"
    PROVE  LET w == PerCue("cue", S, [i \in S |-> 1])
           IN  w \in Seq(Events) /\ Plain(doc, w) /\ \A k \in DOMAIN w : w[k].index \in S
<1>1. [i \in S |-> 1] \in [S -> 0 .. Versions]
    BY StreamOK
<1> QED BY <1>1, CuesPlain

\* A stream that is not let in, fails, ends or is noticed to be gone.
LEMMA ClosingServed ==
    ASSUME ViewInv, UNCHANGED client, NEW g \in Loads, NEW c, NEW more \in Seq(Events),
           connection[g].phase \notin {"none", "ended"},
           c = Closed(connection[g], more) \/ (c = Ended(connection[g]) /\ more = << >>),
           connection[g].phase = "translating" \/ \A k \in DOMAIN more : ~CueEvent(more[k]),
           Says(document[connection[g].video], cache[connection[g].video], "ended", more),
           connection' = [connection EXCEPT ![g] = c], UNCHANGED <<mode, document, cache>>,
           Release(g) \/ (UNCHANGED activeLegacyStreams /\ ~Legacy(connection[g]))
    PROVE  ViewInv'
<1>1. connection[g] \in Connection /\ connection[g].wire \in Seq(Events)
    BY ConnectionTyped DEF ViewInv
<1>2. /\ c \in Connection /\ c.video = connection[g].video /\ c.gone = connection[g].gone /\ c.phase = "ended"
      /\ c.wire = IF connection[g].gone THEN connection[g].wire ELSE connection[g].wire \o more
    <2>1. CASE c = Closed(connection[g], more)
        BY <1>1, <2>1, ClosedIs
    <2>2. CASE c = Ended(connection[g]) /\ more = << >>
        <3>1. connection[g].wire \o more = connection[g].wire
            BY <1>1, <2>2, ConcatProperties
        <3> QED BY <1>1, <2>2, <3>1, ClosedIs
    <2> QED BY <2>1, <2>2
<1>3. Keeps
    BY KeepsAll
<1>4. Continues(connection[g], c, more)
    BY <1>2 DEF Continues
<1>5. LegacyInv' /\ activeLegacyStreams' \in [Videos -> 0 .. MaxLoads]
    <2>1. CASE Release(g)
        BY <1>2, <2>1, StreamReleased DEF ViewInv
    <2>2. CASE UNCHANGED activeLegacyStreams /\ ~Legacy(connection[g])
        <3>1. ~Legacy(c) /\ EngineOK(c)
            BY <1>2 DEF Legacy, EngineOK
        <3> QED BY <1>2, <2>2, <3>1, SameStreams DEF ViewInv, TypeOK
    <2> QED BY <2>1, <2>2
<1>6. Says(document'[c.video], cache'[c.video], c.phase, more)
    BY <1>2
<1> QED BY <1>3, <1>4, <1>5, <1>6, Served

\* A stream is let in when no other one translates the video.
LEMMA StartServed ==
    ASSUME ViewInv, UNCHANGED client, NEW g \in Loads, LegacyStart(g)
    PROVE  ViewInv'
<1> DEFINE old == connection[g]
           v == old.video
<1>1. mode = "legacy" /\ old.phase = "ingest" /\ UNCHANGED <<mode, document, cache>>
    BY DEF LegacyStart
<1>2. old \in Connection /\ v \in Videos /\ old.wire = << >>
    <2>1. WireOK(old)
        BY DEF ViewInv, Wires
    <2> QED BY <1>1, <2>1, ConnectionTyped DEF ViewInv, WireOK
<1>3. ASSUME connection' = [connection EXCEPT ![g] = Closed(old, <<Failure>>)], UNCHANGED activeLegacyStreams
      PROVE  ViewInv'
    <2>1. /\ <<Failure>> \in Seq(Events) /\ Says(document[v], cache[v], "ended", <<Failure>>)
          /\ \A k \in DOMAIN <<Failure>> : ~CueEvent(<<Failure>>[k])
        BY FailureSaid
    <2>2. ~Legacy(old)
        BY <1>1 DEF Legacy
    <2> QED BY <1>1, <1>3, <2>1, <2>2, ClosingServed
<1>4. ASSUME activeLegacyStreams[v] = 0, activeLegacyStreams' = [activeLegacyStreams EXCEPT ![v] = g],
             connection' = [connection EXCEPT ![g] = [old EXCEPT !.phase = "reading", !.downloads = FALSE]]
      PROVE  ViewInv'
    <2> DEFINE c == [old EXCEPT !.phase = "reading", !.downloads = FALSE]
    <2>1. /\ c \in Connection /\ c.phase = "reading" /\ c.video = v /\ c.gone = old.gone
          /\ c.wire = << >> /\ c.failed = old.failed
        BY <1>2 DEF Connection
    <2>2. connection' = [connection EXCEPT ![g] = c]
        BY <1>4
    <2> HIDE DEF c
    <2>3. << >> \in Seq(Events) /\ << >> \o << >> = << >>
        OBVIOUS
    <2>4. Continues(old, c, << >>)
        BY <1>1, <1>2, <2>1, <2>3 DEF Continues
    <2>5. Keeps
        BY <1>1, KeepsAll
    <2>6. LegacyInv' /\ activeLegacyStreams' \in [Videos -> 0 .. MaxLoads]
        BY <1>1, <1>4, <2>1, <2>2, StreamRegistered DEF ViewInv
    <2>7. Says(document'[c.video], cache'[c.video], c.phase, << >>)
        BY NothingSaid
    <2> QED BY <2>2, <2>4, <2>5, <2>6, <2>7, Served
<1> QED BY <1>3, <1>4 DEF LegacyStart, To

\* What is cached is sent, and the rest is left to do.
LEMMA ReadServed ==
    ASSUME ViewInv, UNCHANGED client, NEW g \in Loads, LegacyRead(g)
    PROVE  ViewInv'
<1> DEFINE old == connection[g]
           v == old.video
           known == cache[v]
           cues == PerCue("cue", known, [i \in known |-> 1])
           c == [Sent(old, Header \o cues) EXCEPT !.phase = "translating", !.todo = Cues \ known]
<1>1. /\ old.phase = "reading" /\ UNCHANGED <<mode, document, cache, activeLegacyStreams>>
      /\ connection' = [connection EXCEPT ![g] = c]
    BY DEF LegacyRead, To
<1>2. old \in Connection /\ v \in Videos /\ old.wire \in Seq(Events) /\ EngineOK(old) /\ known \in SUBSET Cues
    BY ConnectionTyped DEF ViewInv, LegacyInv, TypeOK
<1>3. mode = "legacy"
    BY <1>1, <1>2 DEF EngineOK, Legacy, ViewInv, TypeOK
<1>4. cues \in Seq(Events) /\ Plain(document[v], cues) /\ \A k \in DOMAIN cues : cues[k].index \in known
    BY <1>2, <1>3, TranslatedPlain
<1> HIDE DEF cues
<1>5. Header \in Seq(Events) /\ Header \o cues \in Seq(Events) /\ old.wire \o (Header \o cues) \in Seq(Events)
    BY <1>2, <1>4, HeaderEvents, ConcatProperties
<1>6. /\ c \in Connection /\ c.phase = "translating" /\ c.video = v /\ c.gone = old.gone
      /\ c.wire = IF old.gone THEN old.wire ELSE old.wire \o (Header \o cues)
      /\ c.todo = Cues \ known /\ c.failed = old.failed
    <2>1. CASE old.gone = TRUE
        BY <1>2, <2>1 DEF Sent, Connection
    <2>2. CASE old.gone # TRUE
        BY <1>2, <1>5, <2>2 DEF Sent, Connection
    <2> QED BY <2>1, <2>2
<1> HIDE DEF c, known
<1>7. Says(document[v], known, "translating", Header \o cues)
    <2>1. << >> \in Seq(Events) /\ cues \o << >> = cues /\ Says(document[v], known, "translating", << >>)
        BY <1>4, ConcatProperties, NothingSaid
    <2>2. Says(document[v], known, "translating", cues \o << >>)
        BY <1>4, <2>1, SaysMore
    <2>3. Says(document[v], known, "translating", cues)
        BY <2>1, <2>2
    <2> QED BY <1>4, <1>5, <2>3, HeaderPlain, SaysMore
<1>8. Continues(old, c, Header \o cues)
    BY <1>1, <1>4, <1>5, <1>6 DEF Continues
<1>9. LegacyInv'
    <2>1. old.failed = 0 /\ Legacy(old)
        BY <1>1 DEF ViewInv, LegacyInv, Legacy
    <2>2. Cardinality(c.todo) \in 0 .. Length /\ c.todo \cap (cache[c.video] \cup {}) = {}
        BY <1>6, CuesCounted DEF known
    <2>3. cache' = [cache EXCEPT ![c.video] = @ \cup {}]
        BY <1>1, <1>2, <1>6 DEF ViewInv, TypeOK
    <2>4. c.failed + Cardinality(c.todo) <= Length
        BY <1>6, <2>1, <2>2, StreamOK
    <2>5. {} \in SUBSET Cues
        OBVIOUS
    <2> QED BY <1>1, <1>6, <2>1, <2>2, <2>3, <2>4, <2>5, StreamTranslates DEF ViewInv
<1>10. Keeps /\ activeLegacyStreams' \in [Videos -> 0 .. MaxLoads]
    BY <1>1, KeepsAll DEF ViewInv, TypeOK
<1>11. Says(document'[c.video], cache'[c.video], c.phase, Header \o cues)
    BY <1>1, <1>6, <1>7 DEF known
<1> QED BY <1>1, <1>8, <1>9, <1>10, <1>11, Served

\* A chunk is translated.
LEMMA ChunkServed ==
    ASSUME ViewInv, UNCHANGED client, NEW g \in Loads, NEW translated \in SUBSET Cues, NEW stored \in BOOLEAN,
           TranslateChunk(g, translated, stored)
    PROVE  ViewInv'
<1> DEFINE old == connection[g]
           v == old.video
           chunk == NextChunk(old.todo)
           sent == PerCue("cue", translated, [i \in translated |-> 1])
<1>1. old.phase = "translating" /\ UNCHANGED <<mode, document>> /\ translated \subseteq chunk
    BY DEF TranslateChunk
<1>2. /\ old \in Connection /\ v \in Videos /\ old.wire \in Seq(Events) /\ EngineOK(old)
      /\ old.todo \in SUBSET Cues /\ old.failed \in 0 .. Length
    BY ConnectionTyped DEF ViewInv, LegacyInv
<1>3. mode = "legacy" /\ Legacy(old)
    BY <1>1, <1>2 DEF EngineOK, Legacy, ViewInv, TypeOK
<1>4. sent \in Seq(Events) /\ Plain(document[v], sent) /\ \A k \in DOMAIN sent : sent[k].index \in translated
    BY <1>3, TranslatedPlain
<1>5. chunk \subseteq old.todo
    BY DEF NextChunk
<1> HIDE DEF sent, chunk
<1>6. CASE stored
    <2> DEFINE c == [Sent(old, sent) EXCEPT !.todo = @ \ chunk, !.failed = @ + Cardinality(chunk \ translated)]
    <2>1. /\ cache' = [cache EXCEPT ![v] = @ \cup translated] /\ UNCHANGED activeLegacyStreams
          /\ connection' = [connection EXCEPT ![g] = c]
        BY <1>6 DEF TranslateChunk, To, sent, chunk
    <2>2. old.failed + Cardinality(old.todo) <= Length /\ old.todo \cap cache[v] = {}
        BY <1>1 DEF ViewInv, LegacyInv
    <2>3. /\ Cardinality(chunk \ translated) \in Nat /\ Cardinality(old.todo \ chunk) \in Nat
          /\ Cardinality(chunk \ translated) + Cardinality(old.todo \ chunk) <= Cardinality(old.todo)
          /\ Cardinality(old.todo) \in Nat
        <3>1. IsFiniteSet(old.todo) /\ IsFiniteSet(chunk \ translated) /\ IsFiniteSet(old.todo \ chunk)
            BY <1>2, <1>5, CuesCounted
        <3>2. (chunk \ translated) \cap (old.todo \ chunk) = {}
            OBVIOUS
        <3>3. Cardinality((chunk \ translated) \cup (old.todo \ chunk))
                  = Cardinality(chunk \ translated) + Cardinality(old.todo \ chunk)
            <4>1. Cardinality({}) = 0
                BY FS_EmptySet
            <4>2. Cardinality(chunk \ translated) \in Nat /\ Cardinality(old.todo \ chunk) \in Nat
                BY <3>1, FS_CardinalityType
            <4>3. Cardinality((chunk \ translated) \cup (old.todo \ chunk))
                      = Cardinality(chunk \ translated) + Cardinality(old.todo \ chunk)
                        - Cardinality((chunk \ translated) \cap (old.todo \ chunk))
                BY <3>1, FS_Union
            <4>4. Cardinality((chunk \ translated) \cap (old.todo \ chunk)) = 0
                BY <3>2, <4>1, Zenon
            <4> QED BY <4>2, <4>3, <4>4
        <3>4. Cardinality((chunk \ translated) \cup (old.todo \ chunk)) <= Cardinality(old.todo)
            BY <1>5, <3>1, FS_Subset
        <3> QED BY <3>1, <3>3, <3>4, FS_CardinalityType
    <2>4. old.failed + Cardinality(chunk \ translated) \in 0 .. Length
        BY <1>2, <2>2, <2>3, StreamOK
    <2>5. old.wire \o sent \in Seq(Events)
        BY <1>2, <1>4, ConcatProperties
    <2>6. /\ c \in Connection /\ c.phase = "translating" /\ c.video = v /\ c.gone = old.gone
          /\ c.wire = IF old.gone THEN old.wire ELSE old.wire \o sent
          /\ c.todo = old.todo \ chunk /\ c.failed = old.failed + Cardinality(chunk \ translated)
        <3>1. old.todo \ chunk \in SUBSET Cues
            BY <1>2
        <3>2. CASE old.gone = TRUE
            BY <1>1, <1>2, <2>4, <3>1, <3>2 DEF Sent, Connection
        <3>3. CASE old.gone # TRUE
            BY <1>1, <1>2, <2>4, <2>5, <3>1, <3>3 DEF Sent, Connection
        <3> QED BY <3>2, <3>3
    <2> HIDE DEF c
    <2>7. LegacyInv'
        <3>1. c.failed + Cardinality(c.todo) <= Length
            BY <1>2, <2>2, <2>3, <2>6, StreamOK
        <3>2. c.todo \cap (cache[c.video] \cup translated) = {}
            BY <1>1, <2>2, <2>6
        <3> QED BY <1>1, <1>3, <2>1, <2>6, <3>1, <3>2, StreamTranslates DEF ViewInv
    <2>8. \A u \in Videos : cache'[u] = IF u = v THEN cache[v] \cup translated ELSE cache[u]
        BY <1>2, <2>1 DEF ViewInv, TypeOK
    <2>9. Keeps
        <3>1. cache' \in [Videos -> SUBSET Cues]
            BY <2>1 DEF ViewInv, TypeOK
        <3> QED BY <1>1, <2>8, <3>1 DEF Keeps, ViewInv, TypeOK, Wires
    <2>10. Says(document[v], cache'[v], "translating", sent)
        <3>1. << >> \in Seq(Events) /\ sent \o << >> = sent /\ Says(document[v], cache'[v], "translating", << >>)
            BY <1>4, ConcatProperties, NothingSaid
        <3>2. \A k \in DOMAIN sent : sent[k].index \in cache'[v]
            BY <1>2, <1>4, <2>8
        <3>3. Says(document[v], cache'[v], "translating", sent \o << >>)
            BY <1>4, <3>1, <3>2, SaysMore
        <3> QED BY <3>1, <3>3
    <2>11. Continues(old, c, sent)
        BY <1>1, <1>4, <2>6 DEF Continues
    <2>12. activeLegacyStreams' \in [Videos -> 0 .. MaxLoads]
        BY <2>1 DEF ViewInv, TypeOK
    <2>13. Says(document'[c.video], cache'[c.video], c.phase, sent)
        BY <1>1, <2>6, <2>10
    <2> QED BY <2>1, <2>7, <2>9, <2>11, <2>12, <2>13, Served
<1>7. CASE ~stored
    <2>1. /\ connection' = [connection EXCEPT ![g] = Closed(old, sent \o <<Failure>>)]
          /\ Release(g) /\ UNCHANGED cache
        BY <1>7 DEF TranslateChunk, To, sent
    <2>2. <<Failure>> \in Seq(Events) /\ Says(document[v], cache[v], "ended", <<Failure>>)
        BY FailureSaid
    <2>3. Doomed(<<Failure>>)
        BY One, EventFields DEF Doomed, Failure
    <2>4. sent \o <<Failure>> \in Seq(Events) /\ Says(document[v], cache[v], "ended", sent \o <<Failure>>)
        BY <1>4, <2>2, <2>3, SaysMore, Joined
    <2> QED BY <1>1, <2>1, <2>4, ClosingServed
<1> QED BY <1>6, <1>7

\* A stream is over.
LEMMA EndServed ==
    ASSUME ViewInv, UNCHANGED client, NEW g \in Loads, TranslationFails(g) \/ LegacyDone(g) \/ NoticeGone(g)
    PROVE  ViewInv'
<1> DEFINE old == connection[g]
<1>1. UNCHANGED <<mode, document, cache>> /\ Release(g) /\ old.phase \notin {"none", "ended"}
    BY DEF TranslationFails, LegacyDone, NoticeGone
<1>2. CASE TranslationFails(g)
    <2>1. connection' = [connection EXCEPT ![g] = Closed(old, <<Failure>>)]
        BY <1>2 DEF TranslationFails, To
    <2>2. /\ <<Failure>> \in Seq(Events) /\ Says(document[old.video], cache[old.video], "ended", <<Failure>>)
          /\ \A k \in DOMAIN <<Failure>> : ~CueEvent(<<Failure>>[k])
        BY FailureSaid
    <2> QED BY <1>1, <2>1, <2>2, ClosingServed
<1>3. CASE LegacyDone(g)
    <2>1. connection' = [connection EXCEPT ![g] = Closed(old, <<Done(old.failed)>>)] /\ old.phase = "translating"
        BY <1>3 DEF LegacyDone, To
    <2>2. mode = "legacy" /\ old.failed \in 0 .. Length
        BY <2>1, ConnectionTyped DEF ViewInv, LegacyInv, EngineOK, Legacy, TypeOK
    <2>3. <<Done(old.failed)>> \in Seq(Events) /\ Says(document[old.video], cache[old.video], "ended", <<Done(old.failed)>>)
        BY <2>2, EndSaid
    <2> QED BY <1>1, <2>1, <2>3, ClosingServed
<1>4. CASE NoticeGone(g)
    <2>1. connection' = [connection EXCEPT ![g] = Ended(old)]
        BY <1>4 DEF NoticeGone, To
    <2>2. << >> \in Seq(Events) /\ Says(document[old.video], cache[old.video], "ended", << >>) /\ DOMAIN << >> = {}
        BY NothingSaid
    <2>3. \A k \in DOMAIN << >> : ~CueEvent(<< >>[k])
        BY <2>2
    <2> QED BY <1>1, <2>1, <2>2, <2>3, ClosingServed
<1> QED BY <1>2, <1>3, <1>4

\* Whatever the server does for a connection.
LEMMA ServeKeeps == ASSUME ViewInv, UNCHANGED client, NEW g \in Loads, Serve(g) PROVE ViewInv'
BY FailureServed, SubmissionServed, ObservationServed, StartServed, ReadServed, ChunkServed, EndServed DEF Serve

\* The job's document changes until it is published.
LEMMA WorkerKeeps == ASSUME ViewInv, UNCHANGED client, WorkerStep PROVE ViewInv'
<1>1. PICK v \in Videos :
          \/ \E i \in Cues : Previewed(v, i)
          \/ \E final \in [Cues -> 1 .. Versions] : Published(v, final)
          \/ JobFailed(v) \/ JobCancelled(v)
    BY DEF WorkerStep
<1>2. /\ document[v].status = "running" /\ UNCHANGED <<mode, cache, activeLegacyStreams, connection>>
      /\ document[v] \in Document
    BY <1>1 DEF Previewed, Published, JobFailed, JobCancelled, Worker, ViewInv, TypeOK
<1>3. NoText \in [Cues -> 0 .. Versions]
    BY StreamOK DEF NoText
<1>4. \E doc \in Document : document' = [document EXCEPT ![v] = doc] /\ Complete(doc)
    <2>1. ASSUME NEW i \in Cues, Previewed(v, i)
          PROVE  \E doc \in Document : document' = [document EXCEPT ![v] = doc] /\ Complete(doc)
        <3> DEFINE doc == [document[v] EXCEPT !.preview[i] = @ + 1]
        <3>1. document' = [document EXCEPT ![v] = doc] /\ document[v].preview[i] < Previews
            BY <2>1 DEF Previewed, Worker
        <3>2. document[v].preview \in [Cues -> 0 .. Versions] /\ document[v].preview[i] + 1 \in 0 .. Versions
            BY <1>2, <3>1, StreamOK DEF Document
        <3>3. doc.preview = [document[v].preview EXCEPT ![i] = @ + 1] /\ doc.status = "running"
              /\ doc = [status |-> document[v].status, preview |-> doc.preview, final |-> document[v].final]
            BY <1>2 DEF Document
        <3>4. doc.preview \in [Cues -> 0 .. Versions]
            BY <3>2, <3>3
        <3> HIDE DEF doc
        <3>5. doc \in Document
            BY <1>2, <3>3, <3>4 DEF Document
        <3> QED BY <3>1, <3>3, <3>5 DEF Complete
    <2>2. ASSUME NEW final \in [Cues -> 1 .. Versions], Published(v, final)
          PROVE  \E doc \in Document : document' = [document EXCEPT ![v] = doc] /\ Complete(doc)
        <3> DEFINE doc == [status |-> "succeeded", preview |-> NoText, final |-> final]
        <3>1. document' = [document EXCEPT ![v] = doc]
            BY <2>2 DEF Published, Worker
        <3>2. final \in [Cues -> 0 .. Versions] /\ \A i \in Cues : final[i] # 0
            BY StreamOK
        <3>3. doc \in Document
            BY <1>3, <3>2 DEF Document
        <3> QED BY <3>1, <3>2, <3>3 DEF Complete
    <2>3. ASSUME JobFailed(v) PROVE \E doc \in Document : document' = [document EXCEPT ![v] = doc] /\ Complete(doc)
        <3> DEFINE doc == [document[v] EXCEPT !.status = "failed"]
        <3>1. document' = [document EXCEPT ![v] = doc]
            BY <2>3 DEF JobFailed, Worker
        <3>2. doc \in Document /\ doc.status = "failed"
            BY <1>2 DEF Document
        <3> QED BY <3>1, <3>2 DEF Complete
    <2>4. ASSUME JobCancelled(v) PROVE \E doc \in Document : document' = [document EXCEPT ![v] = doc] /\ Complete(doc)
        <3> DEFINE doc == [document[v] EXCEPT !.status = "cancelled", !.preview = NoText]
        <3>1. document' = [document EXCEPT ![v] = doc]
            BY <2>4 DEF JobCancelled, Worker
        <3>2. doc \in Document /\ doc.status = "cancelled"
            BY <1>2, <1>3 DEF Document
        <3> QED BY <3>1, <3>2 DEF Complete
    <2> QED BY <1>1, <2>1, <2>2, <2>3, <2>4
<1>5. PICK doc \in Document : document' = [document EXCEPT ![v] = doc] /\ Complete(doc)
    BY <1>4
<1>6. \A u \in Videos : document'[u] = IF u = v THEN doc ELSE document[u]
    BY <1>5 DEF ViewInv, TypeOK
<1>7. Keeps
    <2>1. document' \in [Videos -> Document]
        BY <1>5 DEF ViewInv, TypeOK
    <2> QED BY <1>2, <1>5, <1>6, <2>1 DEF Keeps, ViewInv, TypeOK, Wires
<1>8. UNCHANGED <<page, load, subtitles, position, fallback>> /\ load.video \in Videos
    BY DEF client, ViewInv, TypeOK, Load
<1>9. TypeOK'
    BY <1>2, <1>7, <1>8 DEF ViewInv, TypeOK, Keeps
<1>10. LegacyInv'
    BY <1>2 DEF ViewInv, LegacyInv, OneLegacyStream, EngineOK, Legacy
<1>11. Wires'
    <2>1. ASSUME NEW h \in Loads PROVE WireOK(connection[h])'
        <3>1. WireOK(connection[h]) /\ connection[h].video \in Videos
            BY ConnectionTyped DEF ViewInv, Wires
        <3>2. \A k \in DOMAIN connection[h].wire : Truthful(document'[connection[h].video], connection[h].wire[k])
            BY <1>7, <3>1, TruthStays DEF ViewInv, WireOK, Truthful, Keeps
        <3> QED BY <1>2, <3>1, <3>2 DEF WireOK, Truthful
    <2> QED BY <1>7, <2>1 DEF Wires, Keeps
<1>12. document[load.video].status = "succeeded" => document'[load.video] = document[load.video]
    BY <1>7, <1>8 DEF Keeps
<1>13. Attached' /\ Mine' = Mine
    BY <1>2, <1>8 DEF ViewInv, Attached, Mine
<1>14. Feed'
    <2>1. Publication => Publication'
        BY <1>8, <1>12, <1>13 DEF Publication, ShownFinal
    <2> QED BY <1>2, <1>8, <1>13, <2>1 DEF ViewInv, Feed, Cached
<1>15. Settled'
    BY <1>2, <1>8, <1>12 DEF ViewInv, Settled, Cached, ShownFinal
<1>16. WholeSource' /\ FallbackWhileUseful'
    BY <1>2, <1>8 DEF ViewInv, WholeSource, FallbackWhileUseful, Working
<1> QED BY <1>9, <1>10, <1>11, <1>13, <1>14, <1>15, <1>16 DEF ViewInv

-----------------------------------------------------------------------------
(* What the viewer does. *)

others == <<mode, document, cache, activeLegacyStreams>>

\* The invariant holds before anything is loaded.
LEMMA ViewInitially == Init => ViewInv
<1> SUFFICES ASSUME Init PROVE ViewInv
    OBVIOUS
<1>1. /\ mode \in {"document", "legacy"} /\ document = [v \in Videos |-> NewDocument]
      /\ cache = [v \in Videos |-> {}] /\ activeLegacyStreams = [v \in Videos |-> 0]
      /\ page \in [video: Videos, enabled: {FALSE}, optedIn: {None}]
      /\ load = [NewLoad(0, page.video) EXCEPT !.phase = "idle"]
      /\ subtitles = << >> /\ position \in Spoken /\ fallback = Stopped
    BY DEF Init, ServerInit, ClientInit, FallbackInit
<1>2. PICK v0 \in Videos : v0 = CHOOSE v \in Videos : TRUE
    BY StreamOK
<1>3. connection = [g \in Loads |-> [NewConnection(v0, TRUE) EXCEPT !.phase = "none"]]
    BY <1>2 DEF Init, ServerInit
<1>4. NoText \in [Cues -> 0 .. Versions] /\ 0 \in 0 .. Length /\ 0 \in 0 .. MaxLoads /\ 0 \in 0 .. Retries
    BY StreamOK, ScriptOK DEF NoText
<1>5. NewDocument \in Document /\ NewDocument.status = "none"
    BY <1>4 DEF NewDocument, Document
<1>6. << >> \in Seq(Events) /\ DOMAIN << >> = {} /\ Len(<< >>) = 0
    OBVIOUS
<1> DEFINE c0 == [NewConnection(v0, TRUE) EXCEPT !.phase = "none"]
<1>7. /\ c0 \in Connection /\ c0.phase = "none" /\ c0.wire = << >>
    BY <1>4, <1>6 DEF NewConnection, Connection
<1>8. \A g \in Loads : connection[g] = c0
    BY <1>3
<1> HIDE DEF c0
<1>9. load \in Load /\ load.phase = "idle" /\ load.number = 0 /\ load.failedCues = 0
    BY <1>1, <1>4 DEF NewLoad, Load
<1>10. TypeOK
    <2>1. connection \in [Loads -> Connection]
        BY <1>3, <1>7 DEF c0
    <2>2. document \in [Videos -> Document] /\ cache \in [Videos -> SUBSET Cues]
          /\ activeLegacyStreams \in [Videos -> 0 .. MaxLoads]
        BY <1>1, <1>4, <1>5
    <2>3. page \in Page
        BY <1>1 DEF Page
    <2>4. fallback \in Fallback(Cues)
        BY <1>1 DEF Stopped, Fallback
    <2>5. DOMAIN subtitles \subseteq Cues /\ \A i \in DOMAIN subtitles : subtitles[i] \in Subtitle(0 .. Versions)
        BY <1>1, <1>6
    <2> QED BY <1>1, <1>9, <2>1, <2>2, <2>3, <2>4, <2>5 DEF TypeOK
<1>11. LegacyInv
    <2>1. ASSUME NEW v \in Videos
          PROVE  {g \in Loads : connection[g].video = v /\ connection[g].phase \in {"reading", "translating"}}
                     = {activeLegacyStreams[v]} \ {0}
        BY <1>1, <1>7, <1>8
    <2>2. \A g \in Loads : EngineOK(connection[g])
        BY <1>7, <1>8 DEF EngineOK, Legacy
    <2> QED BY <1>7, <1>8, <2>1, <2>2 DEF LegacyInv, OneLegacyStream
<1>12. Wires
    BY <1>1, <1>5, <1>6, <1>7, <1>8 DEF Wires, WireOK, Complete
<1>13. Attached /\ Feed /\ Settled
    BY <1>7, <1>8, <1>9 DEF Attached, Feed, Settled
<1>14. WholeSource
    <2>1. 0 \in 0 .. Length /\ 0 .. 0 - 1 = {}
        BY <1>4
    <2> QED BY <1>1, <1>6, <2>1 DEF WholeSource
<1>15. FallbackWhileUseful
    BY <1>1 DEF FallbackWhileUseful, Stopped
<1> QED BY <1>10, <1>11, <1>12, <1>13, <1>14, <1>15 DEF ViewInv

\* The server's invariants are about the server's variables alone.
LEMMA ServerStill ==
    ASSUME LegacyInv, Wires, UNCHANGED <<mode, document, cache, activeLegacyStreams, connection>>
    PROVE  LegacyInv' /\ Wires'
<1>1. LegacyInv'
    <2>1. OneLegacyStream'
        BY DEF LegacyInv, OneLegacyStream
    <2>2. \A g \in Loads : EngineOK(connection[g])'
        BY DEF LegacyInv, EngineOK, Legacy
    <2> QED BY <2>1, <2>2 DEF LegacyInv
<1>2. Wires'
    <2>1. \A g \in Loads : WireOK(connection[g])'
        <3> SUFFICES ASSUME NEW g \in Loads PROVE WireOK(connection[g])'
            OBVIOUS
        <3>1. WireOK(connection[g])
            BY DEF Wires
        <3> QED BY <3>1 DEF WireOK, Truthful
    <2>2. \A v \in Videos : Complete(document[v])'
        BY DEF Wires
    <2> QED BY <2>1, <2>2 DEF Wires
<1> QED BY <1>1, <1>2

\* The client takes from a wire, or opens or leaves one.
LEMMA WireReplaced ==
    ASSUME TypeOK, Wires, NEW g \in Loads, NEW c, WireOK(c),
           connection' = [connection EXCEPT ![g] = c], UNCHANGED others
    PROVE  Wires'
<1>1. connection'[g] = c /\ \A h \in Loads : h # g => connection'[h] = connection[h]
    BY DEF TypeOK
<1>2. \A h \in Loads : WireOK(connection[h])'
    <2> SUFFICES ASSUME NEW h \in Loads PROVE WireOK(connection[h])'
        OBVIOUS
    <2>1. mode' = mode /\ document' = document
        BY DEF others
    <2>2. CASE h = g
        BY <1>1, <2>1, <2>2 DEF WireOK, Truthful
    <2>3. CASE h # g
        <3>1. connection'[h] = connection[h] /\ WireOK(connection[h])
            BY <1>1, <2>3 DEF Wires
        <3> DEFINE d == connection[h]
        <3>2. connection'[h] = d /\ mode' = mode
            BY <2>1, <3>1
        <3>3. /\ \A k \in DOMAIN d.wire : Breaks(d.wire[k]) => d.phase = "ended" /\ k = Len(d.wire)
              /\ d.phase \in {"none", "ingest", "submitted", "reading"} => d.wire = << >>
            BY <3>1 DEF WireOK
        <3>4. \A k \in DOMAIN d.wire : Truthful(document'[d.video], d.wire[k])
            BY <2>1, <3>1 DEF WireOK
        <3> HIDE DEF d
        <3>5. ASSUME NEW k \in DOMAIN d.wire
              PROVE  Truthful(document[connection[h].video], connection[h].wire[k])'
            BY <3>2, <3>4 DEF Truthful
        <3> QED BY <3>2, <3>3, <3>5 DEF WireOK
    <2> QED BY <2>2, <2>3
<1> QED BY <1>2 DEF Wires, others

\* The client leaves; what it had read already is at the start of the wire.
LEMMA StreamLeft ==
    ASSUME ViewInv, NEW g \in Loads, NEW n \in {0, 1} \cap 0 .. Len(connection[g].wire), NEW rest,
           rest = SubSeq(connection[g].wire, 1, n),
           connection' = [connection EXCEPT ![g] = [Left(connection[g]) EXCEPT !.gone = TRUE, !.wire = rest]],
           UNCHANGED others
    PROVE  /\ connection' \in [Loads -> Connection] /\ LegacyInv' /\ Wires'
           /\ \A h \in Loads : h # g => connection'[h] = connection[h]
           /\ connection'[g].gone = TRUE /\ connection'[g].wire = SubSeq(connection[g].wire, 1, n)
<1> DEFINE old == connection[g]
           c == [Left(old) EXCEPT !.gone = TRUE, !.wire = rest]
<1>1. old \in Connection /\ old.wire \in Seq(Events) /\ old.video \in Videos /\ WireOK(old)
    BY ConnectionTyped DEF ViewInv, Wires
<1>2. n \in 0 .. Len(old.wire) /\ n \in {0, 1} /\ Len(old.wire) \in Nat
    BY <1>1
<1>3. /\ rest \in Seq(Events) /\ Len(rest) = n /\ DOMAIN rest = 1 .. n
      /\ \A k \in 1 .. n : rest[k] = old.wire[k] /\ k \in DOMAIN old.wire
    <2>1. 1 .. n \subseteq 1 .. Len(old.wire)
        BY <1>2
    <2>2. rest = [k \in 1 .. n |-> old.wire[k]]
        BY <1>1, <1>2
    <2>3. \A k \in 1 .. n : old.wire[k] \in Events
        BY <1>1, <2>1
    <2>4. rest \in [1 .. n -> Events]
        BY <2>2, <2>3
    <2> QED BY <1>1, <1>2, <2>1, <2>2, <2>4
<1>4. NoText \in [Cues -> 0 .. Versions] /\ 0 \in 0 .. Length
    BY StreamOK DEF NoText
<1>5. /\ c \in Connection /\ c.gone = TRUE /\ c.wire = rest /\ c.video = old.video
      /\ c.phase = IF old.phase \in {"submitted", "observing"} THEN "ended" ELSE old.phase
      /\ old.phase \notin {"submitted", "observing"} => c.todo = old.todo /\ c.failed = old.failed
    <2> HIDE DEF old
    <2>1. CASE old.phase \in {"submitted", "observing"}
        <3>1. Ended(old) \in Connection /\ Ended(old).video = old.video /\ Ended(old).phase = "ended"
            BY <1>1, ClosedIs
        <3> QED BY <1>3, <2>1, <3>1 DEF Left, Connection
    <2>2. CASE old.phase \notin {"submitted", "observing"}
        BY <1>1, <1>3, <1>4, <2>2 DEF Left, Connection
    <2> QED BY <2>1, <2>2
<1>6. connection' = [connection EXCEPT ![g] = c]
    OBVIOUS
<1> HIDE DEF c
<1>7. connection'[g] = c /\ \A h \in Loads : h # g => connection'[h] = connection[h]
    BY <1>6 DEF ViewInv, TypeOK
<1>8. LegacyInv'
    <2>1. \/ /\ c.phase = old.phase /\ c.video = old.video
             /\ c.todo = old.todo /\ c.failed = old.failed
          \/ /\ ~Legacy(old) /\ ~Legacy(c) /\ EngineOK(c)
             /\ c.phase = "ingest" => c.failed = 0
        BY <1>5 DEF Legacy, EngineOK
    <2>2. UNCHANGED <<mode, cache, activeLegacyStreams>>
        BY DEF others
    <2> QED BY <1>6, <2>1, <2>2, SameStreams DEF ViewInv
<1>9. Wires'
    <2>1. \A k \in DOMAIN rest : Truthful(document[c.video], rest[k]) /\ (Breaks(rest[k]) => c.phase = "ended" /\ k = Len(rest))
        <3> SUFFICES ASSUME NEW k \in DOMAIN rest
                     PROVE  Truthful(document[c.video], rest[k]) /\ (Breaks(rest[k]) => c.phase = "ended" /\ k = Len(rest))
            OBVIOUS
        <3>1. rest[k] = old.wire[k] /\ k \in DOMAIN old.wire /\ k = 1 /\ n = 1
            BY <1>2, <1>3
        <3>2. Truthful(document[old.video], old.wire[k]) /\ (Breaks(old.wire[k]) => old.phase = "ended" /\ k = Len(old.wire))
            BY <1>1, <3>1 DEF WireOK
        <3> QED BY <1>3, <1>5, <3>1, <3>2
    <2>2. c.phase \in {"none", "ingest", "submitted", "reading"} => rest = << >>
        <3> SUFFICES ASSUME c.phase \in {"none", "ingest", "submitted", "reading"} PROVE rest = << >>
            OBVIOUS
        <3>1. old.wire = << >>
            BY <1>1, <1>5 DEF WireOK
        <3>2. n = 0
            BY <1>2, <3>1
        <3> QED BY <1>3, <3>2
    <2>3. WireOK(c)
        BY <1>5, <2>1, <2>2 DEF WireOK
    <2> QED BY <1>6, <2>3, WireReplaced DEF ViewInv
<1>10. connection' \in [Loads -> Connection]
    BY <1>5, <1>6 DEF ViewInv, TypeOK
<1> QED BY <1>5, <1>7, <1>8, <1>9, <1>10

\* Only the stream of the load is left.
LEMMA AbortedIs ==
    ASSUME ViewInv, Aborted, UNCHANGED others
    PROVE  /\ connection' \in [Loads -> Connection] /\ LegacyInv' /\ Wires'
           /\ \A h \in Loads : h # load.number => connection'[h] = connection[h]
<1>1. CASE load.phase = "stream"
    <2>1. load.number \in Loads
        BY <1>1 DEF ViewInv, Attached
    <2>2. PICK n \in {0, 1} \cap 0 .. Len(connection[load.number].wire) :
              connection' = [connection EXCEPT ![load.number] =
                  [Left(connection[load.number]) EXCEPT !.gone = TRUE, !.wire = SubSeq(@, 1, n)]]
        BY <1>1 DEF Aborted, To
    <2>3. Left(connection[load.number]).wire = connection[load.number].wire
        <3>1. connection[load.number] \in Connection
            BY <2>1, ConnectionTyped DEF ViewInv
        <3> QED BY <3>1, ClosedIs DEF Left, Connection
    <2>4. connection' = [connection EXCEPT ![load.number] =
              [Left(connection[load.number]) EXCEPT !.gone = TRUE, !.wire = SubSeq(connection[load.number].wire, 1, n)]]
        BY <2>2, <2>3
    <2> QED BY <2>1, <2>4, StreamLeft
<1>2. CASE load.phase # "stream"
    <2>1. UNCHANGED connection
        BY <1>2 DEF Aborted
    <2> QED BY <2>1, ZenonT(30) DEF ViewInv, TypeOK, LegacyInv, OneLegacyStream, EngineOK, Legacy, Wires, WireOK, Truthful, others
<1> QED BY <1>1, <1>2

\* Nothing is shown.
LEMMA NothingShown ==
    /\ Length \in Nat /\ 0 .. 0 - 1 = {} /\ DOMAIN << >> = {} /\ 0 \in 0 .. Length
    /\ Stopped \in Fallback(Cues) /\ Stopped.live = FALSE /\ Stopped.timer = FALSE /\ Stopped.active = {}
BY StreamOK DEF Stopped, Fallback

\* A load begins, and leaves the one before it.
LEMMA BeginKeeps ==
    ASSUME ViewInv, NEW video \in Videos, Begin(video), page' \in Page, page'.enabled
    PROVE  ViewInv'
<1>1. /\ load' = NewLoad(load.number + 1, video) /\ subtitles' = << >> /\ fallback' = Stopped /\ Aborted
      /\ UNCHANGED position /\ UNCHANGED others /\ load.number < MaxLoads
    BY DEF Begin, others
<1>2. load.number \in 0 .. MaxLoads /\ MaxLoads \in Nat
    BY StreamOK DEF ViewInv, TypeOK, Load
<1>3. load.number + 1 \in Loads
    BY <1>1, <1>2 DEF Loads
<1>4. /\ load' \in Load /\ load'.phase = "tracks" /\ load'.number = load.number + 1
      /\ load'.failedCues = 0 /\ load'.receivedMeta = FALSE
    BY <1>1, <1>2, StreamOK, ScriptOK DEF NewLoad, Load
<1>5. /\ connection' \in [Loads -> Connection] /\ LegacyInv' /\ Wires'
      /\ \A h \in Loads : h # load.number => connection'[h] = connection[h]
    BY <1>1, AbortedIs
<1>6. TypeOK'
    BY <1>1, <1>4, <1>5, NothingShown DEF ViewInv, TypeOK, others
<1>7. \A h \in Loads : h > load.number => connection'[h].phase = "none"
    BY <1>2, <1>5 DEF ViewInv, Attached, Loads
<1>8. Mine'.phase = "none" /\ Mine'.wire = << >>
    <2>1. Mine' = connection'[load.number + 1]
        BY <1>4 DEF Mine
    <2>2. \A h \in Loads : connection'[h].phase = "none" => connection'[h].wire = << >>
        BY <1>5 DEF Wires, WireOK
    <2>3. load.number + 1 > load.number
        BY <1>2
    <2> QED BY <1>3, <1>7, <2>1, <2>2, <2>3
<1>9. \A h \in Loads : h > load.number + 1 => connection'[h].phase = "none"
    BY <1>2, <1>7 DEF Loads
<1>10. Attached'
    BY <1>3, <1>4, <1>8, <1>9 DEF Attached
<1>11. Feed' /\ Settled'
    BY <1>4 DEF Feed, Settled
<1>12. WholeSource' /\ FallbackWhileUseful'
    BY <1>1, NothingShown DEF WholeSource, FallbackWhileUseful
<1> QED BY <1>5, <1>6, <1>10, <1>11, <1>12 DEF ViewInv

\* A load that is over has the fields of a new one.
LEMMA OverIs ==
    ASSUME load \in Load, NEW phase \in {"idle", "done", "exhausted", "failed"}
    PROVE  /\ Over(phase) \in Load /\ Over(phase).phase = phase /\ Over(phase).number = load.number
           /\ Over(phase).video = load.video /\ Over(phase).failedCues = 0
<1>1. 0 \in 0 .. Length /\ 0 \in 0 .. Retries /\ load.number \in 0 .. MaxLoads /\ load.video \in Videos
    BY StreamOK, ScriptOK DEF Load
<1>2. phase \in {"idle", "tracks", "captions", "stream", "switch", "delay", "done", "exhausted", "failed"}
    OBVIOUS
<1>3. NewLoad(load.number, load.video) \in Load
    BY <1>1 DEF NewLoad, Load
<1>4. Over(phase) \in Load
    BY <1>2, <1>3 DEF Over, Load
<1>5. /\ Over(phase).phase = phase /\ Over(phase).number = load.number
      /\ Over(phase).video = load.video /\ Over(phase).failedCues = 0
    BY DEF Over, NewLoad
<1> QED BY <1>4, <1>5

\* A load is cancelled.
LEMMA CancelKeeps ==
    ASSUME ViewInv, Cancel, page' \in Page
    PROVE  ViewInv'
<1>1. /\ load' = Over("idle") /\ subtitles' = << >> /\ fallback' = Stopped /\ Aborted
      /\ UNCHANGED position /\ UNCHANGED others
    BY DEF Cancel, others
<1>2. load' \in Load /\ load'.phase = "idle" /\ load'.number = load.number /\ load'.failedCues = 0
      /\ load.number \in 0 .. MaxLoads
    BY <1>1, OverIs DEF ViewInv, TypeOK, Load
<1>3. /\ connection' \in [Loads -> Connection] /\ LegacyInv' /\ Wires'
      /\ \A h \in Loads : h # load.number => connection'[h] = connection[h]
    BY <1>1, AbortedIs
<1>4. TypeOK'
    BY <1>1, <1>2, <1>3, NothingShown DEF ViewInv, TypeOK, others
<1>5. \A h \in Loads : h > load.number => connection'[h].phase = "none"
    BY <1>2, <1>3 DEF ViewInv, Attached, Loads
<1>6. Attached'
    BY <1>2, <1>5 DEF Attached
<1>7. Feed' /\ Settled'
    BY <1>2 DEF Feed, Settled
<1>8. WholeSource' /\ FallbackWhileUseful'
    BY <1>1, NothingShown DEF WholeSource, FallbackWhileUseful
<1> QED BY <1>3, <1>4, <1>6, <1>7, <1>8 DEF ViewInv

\* The viewer switches the toggle, and goes to another video.
LEMMA VisitKeeps == ASSUME ViewInv, Visit PROVE ViewInv'
<1>1. page \in Page
    BY DEF ViewInv, TypeOK
<1>2. CASE ToggleOn
    <2>1. page.video \in Videos /\ page' \in Page /\ page'.enabled /\ Begin(page.video)
        BY <1>1, <1>2 DEF ToggleOn, Page
    <2> QED BY <2>1, BeginKeeps
<1>3. CASE ToggleOff \/ NavigateFinish
    <2>1. page' \in Page /\ Cancel
        BY <1>1, <1>3 DEF ToggleOff, NavigateFinish, Page
    <2> QED BY <2>1, CancelKeeps
<1>4. CASE FindVideo
    <2>1. page.video \in Videos /\ page' \in Page /\ page'.enabled = TRUE /\ Begin(page.video)
        BY <1>1, <1>4 DEF FindVideo, Page
    <2> QED BY <2>1, BeginKeeps
<1>5. ASSUME NEW video \in Videos \cup {None}, Navigate(video) PROVE ViewInv'
    <2>1. page' \in Page /\ page'.enabled = page.enabled
        BY <1>1, <1>5 DEF Navigate, Page
    <2>2. UNCHANGED <<mode, document, cache, activeLegacyStreams, connection, load, subtitles, position, fallback>>
        BY <1>5 DEF Navigate, server
    <2>3. TypeOK' /\ LegacyInv' /\ Wires'
        BY <2>1, <2>2, ZenonT(30) DEF ViewInv, TypeOK, LegacyInv, OneLegacyStream, EngineOK, Legacy, Wires, WireOK, Truthful
    <2>4. Attached' /\ Mine' = Mine
        BY <2>1, <2>2 DEF ViewInv, Attached, Mine
    <2>5. Feed'
        BY <2>2, <2>4 DEF ViewInv, Feed, Publication, ShownFinal, Cached
    <2>6. Settled' /\ WholeSource' /\ FallbackWhileUseful'
        BY <2>1, <2>2 DEF ViewInv, Settled, ShownFinal, Cached, WholeSource, FallbackWhileUseful, Working
    <2> QED BY <2>3, <2>4, <2>5, <2>6 DEF ViewInv
<1> QED BY <1>2, <1>3, <1>4, <1>5 DEF Visit

-----------------------------------------------------------------------------
(* The steps of a load. *)

\* A load that waits or ends, when its stream is over.
LEMMA LoadChanges ==
    ASSUME ViewInv, UNCHANGED <<server, page, subtitles, position>>, fallback' \in {fallback, Stopped},
           load' \in Load, load'.number = load.number, load'.video = load.video, load.phase # "idle",
           load'.phase \in {"captions", "done", "failed", "exhausted", "delay"},
           Mine.wire = << >>, Mine.phase \in {"none", "ended"},
           load'.phase \in {"done", "delay", "exhausted"} => load.phase = "stream" /\ Mine.phase = "ended",
           load'.phase = "captions" => load.phase = "tracks" /\ load'.receivedMeta = load.receivedMeta,
           load'.phase = "delay" => mode = "legacy" /\ load'.attempt < Retries /\ load'.receivedMeta = load.receivedMeta,
           load'.phase = "exhausted" => mode = "legacy",
           load'.phase = "done" => fallback' = Stopped /\ (mode = "document" => load.streamDone),
           mode = "document" => load'.failedCues = 0
    PROVE  ViewInv'
<1>1. UNCHANGED <<mode, document, cache, activeLegacyStreams, connection>>
    BY DEF server
<1>2. TypeOK'
    BY <1>1, NothingShown DEF ViewInv, TypeOK
<1>3. LegacyInv' /\ Wires'
    BY <1>1, ServerStill DEF ViewInv
<1>4. Mine' = Mine
    BY <1>1 DEF Mine
<1>5. load.phase \in {"tracks", "captions"} => Mine.phase = "none"
    BY DEF ViewInv, Attached
<1>6. Attached'
    <2>1. Attached
        BY DEF ViewInv
    <2>2. load.number \in Loads /\ page.enabled /\ \A g \in Loads : g > load.number => connection[g].phase = "none"
        BY <2>1 DEF Attached
    <2>3. load'.phase \notin {"idle", "tracks", "captions", "failed"} => Mine.video = load.video
        BY <2>1 DEF Attached
    <2>4. load'.phase = "captions" => Mine.phase = "none" /\ ~load'.receivedMeta
        BY <2>1 DEF Attached
    <2> QED BY <1>1, <1>4, <2>2, <2>3, <2>4 DEF Attached
<1>7. Feed'
    BY DEF Feed
<1>8. Settled'
    <2>1. ASSUME load'.phase = "delay", NEW i \in DOMAIN subtitles, subtitles[i].source # "none" PROVE Cached(i)
        <3>1. Cached(i) \/ Doomed(Mine.wire)
            BY <2>1 DEF ViewInv, Feed
        <3> QED BY <3>1 DEF Doomed
    <2>2. ASSUME load'.phase = "done", mode = "document"
          PROVE  document[load.video].status = "succeeded" /\ \A i \in Cues : ShownFinal(i)
        <3>1. Publication
            BY <2>2 DEF ViewInv, Feed
        <3> QED BY <3>1 DEF Publication
    <2> QED BY <1>1, <2>1, <2>2 DEF Settled, Cached, ShownFinal
<1>9. WholeSource'
    <2>1. ASSUME Working', subtitles # << >> PROVE load'.receivedMeta
        <3>1. load'.phase \in {"captions", "delay"} /\ load'.receivedMeta = load.receivedMeta
            BY <2>1 DEF Working
        <3>2. load.phase \in {"tracks", "stream"}
            BY <3>1
        <3> QED BY <2>1, <3>1, <3>2 DEF ViewInv, WholeSource, Working
    <2> QED BY <2>1 DEF ViewInv, WholeSource
<1>10. FallbackWhileUseful'
    <2>1. CASE fallback' = Stopped
        BY <2>1, NothingShown DEF FallbackWhileUseful
    <2>2. CASE fallback' = fallback /\ load'.phase # "done"
        BY <1>1, <2>2 DEF ViewInv, FallbackWhileUseful
    <2> QED BY <2>1, <2>2
<1> QED BY <1>2, <1>3, <1>6, <1>7, <1>8, <1>9, <1>10 DEF ViewInv

\* A load that ends.
LEMMA EndsKeeps ==
    ASSUME ViewInv, NEW phase \in {"failed", "exhausted"}, Ends(phase), load.phase # "idle",
           Mine.wire = << >>, Mine.phase \in {"none", "ended"},
           phase = "exhausted" => mode = "legacy" /\ load.phase = "stream" /\ Mine.phase = "ended"
    PROVE  ViewInv'
<1>1. load' = Over(phase) /\ UNCHANGED <<server, page, subtitles, position, fallback>>
    BY DEF Ends
<1>2. /\ load' \in Load /\ load'.phase = phase /\ load'.number = load.number
      /\ load'.video = load.video /\ load'.failedCues = 0
    BY <1>1, OverIs DEF ViewInv, TypeOK
<1> QED BY <1>1, <1>2, LoadChanges

\* A load opens a stream when it has none.
LEMMA StreamOpens ==
    ASSUME ViewInv, NEW l \in Load, l.number = load.number, l.video = load.video,
           l.receivedMeta = load.receivedMeta, OpenStream(l),
           load.phase \in {"tracks", "captions", "switch", "delay"}
    PROVE  ViewInv'
<1> DEFINE g == load.number
           c == NewConnection(l.video, ~l.captions)
<1>1. /\ load' = [l EXCEPT !.phase = "stream", !.streamDone = FALSE, !.failedCues = 0]
      /\ connection' = [connection EXCEPT ![l.number] = c]
      /\ fallback' = IF mode = "document" /\ ~fallback.live THEN Started ELSE fallback
      /\ UNCHANGED <<page, subtitles, position>> /\ UNCHANGED others
    BY DEF OpenStream, To, others
<1>2. /\ load.number \in Loads /\ page.enabled /\ Mine.phase \in {"none", "ended"}
      /\ \A h \in Loads : h > load.number => connection[h].phase = "none"
      /\ load.phase # "delay" => ~load.receivedMeta
    BY DEF ViewInv, Attached
<1>3. /\ NoText \in [Cues -> 0 .. Versions] /\ 0 \in 0 .. Length /\ << >> \in Seq(Events)
      /\ l.video \in Videos /\ l.captions \in BOOLEAN
    BY StreamOK DEF NoText, Load
<1>4. /\ c \in Connection /\ c.phase = "ingest" /\ c.wire = << >> /\ c.video = load.video
      /\ c.gone = FALSE /\ c.failed = 0
    <2>1. (~l.captions) \in BOOLEAN
        BY <1>3
    <2> QED BY <1>3, <2>1 DEF NewConnection, Connection
<1>5. connection' = [connection EXCEPT ![load.number] = c]
    BY <1>1
<1> HIDE DEF c
<1>6. /\ load' \in Load /\ load'.phase = "stream" /\ load'.number = load.number /\ load'.video = load.video
      /\ load'.streamDone = FALSE /\ load'.failedCues = 0 /\ load'.receivedMeta = load.receivedMeta
    BY <1>1, <1>3 DEF Load
<1>7. fallback' \in Fallback(Cues)
    <2>1. fallback \in Fallback(Cues)
        BY DEF ViewInv, TypeOK
    <2>2. Started \in Fallback(Cues)
        BY DEF Started, Stopped, Fallback
    <2> QED BY <1>1, <2>1, <2>2
<1>8. TypeOK'
    <2>1. connection' \in [Loads -> Connection]
        BY <1>4, <1>5 DEF ViewInv, TypeOK
    <2> QED BY <1>1, <1>6, <1>7, <2>1 DEF ViewInv, TypeOK, others
<1>9. LegacyInv'
    <2>1. ~Legacy(connection[load.number]) /\ ~Legacy(c) /\ EngineOK(c)
        BY <1>2, <1>4 DEF Legacy, EngineOK, Mine
    <2>2. UNCHANGED <<mode, cache, activeLegacyStreams>>
        BY <1>1 DEF others
    <2> QED BY <1>2, <1>4, <1>5, <2>1, <2>2, SameStreams DEF ViewInv
<1>10. Wires'
    <2>1. WireOK(c)
        BY <1>4 DEF WireOK
    <2> QED BY <1>1, <1>2, <1>5, <2>1, WireReplaced DEF ViewInv
<1>11. Mine' = c /\ \A h \in Loads : h # load.number => connection'[h] = connection[h]
    BY <1>2, <1>5, <1>6 DEF Mine, ViewInv, TypeOK
<1>12. Attached'
    <2>1. \A h \in Loads : h > load.number => h # load.number
        BY <1>2 DEF Loads
    <2>2. \A h \in Loads : h > load.number => connection'[h].phase = "none"
        BY <1>2, <1>11, <2>1
    <2> QED BY <1>1, <1>2, <1>4, <1>6, <1>11, <2>2 DEF Attached
<1>13. load.phase # "delay" => subtitles = << >> /\ DOMAIN subtitles = {}
    BY <1>2, NothingShown DEF ViewInv, WholeSource, Working
<1>14. Feed'
    <2>1. InSourceOrder(<< >>, DOMAIN subtitles, load.receivedMeta) /\ ~HasDone(<< >>)
        BY DEF InSourceOrder, HasDone
    <2>2. ASSUME NEW i \in DOMAIN subtitles, subtitles[i].source # "none" PROVE i \in cache[load.video]
        BY <1>13, <2>2 DEF ViewInv, Settled, Cached
    <2> QED BY <1>1, <1>4, <1>6, <1>11, <2>1, <2>2 DEF Feed, Cached, others
<1>15. Settled'
    BY <1>6 DEF Settled
<1>16. WholeSource'
    BY <1>1, <1>6 DEF ViewInv, WholeSource, Working
<1>17. FallbackWhileUseful'
    BY <1>1, <1>2, <1>6 DEF ViewInv, FallbackWhileUseful, Started, Stopped, others
<1> QED BY <1>8, <1>9, <1>10, <1>12, <1>14, <1>15, <1>16, <1>17 DEF ViewInv

\* Every step of a load.
LEMMA LoadKeeps == ASSUME ViewInv, LoadStep PROVE ViewInv'
<1>1. load \in Load /\ Attached /\ Wires
    BY DEF ViewInv, TypeOK
<1>2. load.phase \in {"tracks", "captions"} => Mine.wire = << >> /\ Mine.phase = "none"
    BY <1>1 DEF Attached
<1>3. CASE TracksFound
    <2>1. load.phase = "tracks" /\ OpenStream([load EXCEPT !.track = TRUE])
        BY <1>3 DEF TracksFound
    <2>2. LET l == [load EXCEPT !.track = TRUE] IN
          l \in Load /\ l.number = load.number /\ l.video = load.video /\ l.receivedMeta = load.receivedMeta
        BY <1>1 DEF Load
    <2> QED BY <2>1, <2>2, StreamOpens
<1>4. CASE NoTracks
    <2>1. /\ load.phase = "tracks" /\ load' = [load EXCEPT !.phase = "captions"]
          /\ UNCHANGED <<server, page, subtitles, position, fallback>>
        BY <1>4 DEF NoTracks
    <2>2. /\ load' \in Load /\ load'.number = load.number /\ load'.video = load.video /\ load'.phase = "captions"
          /\ load'.receivedMeta = load.receivedMeta /\ load'.failedCues = load.failedCues
        BY <1>1, <2>1 DEF Load
    <2>3. mode = "document" => load'.failedCues = 0
        BY <1>1, <2>2 DEF Attached
    <2> QED BY <1>2, <2>1, <2>2, <2>3, LoadChanges
<1>5. CASE BackendUnreachable
    BY <1>2, <1>5, EndsKeeps DEF BackendUnreachable
<1>6. CASE CaptionsWaited
    <2>1. LET l == [load EXCEPT !.captions = TRUE] IN
          l \in Load /\ l.number = load.number /\ l.video = load.video /\ l.receivedMeta = load.receivedMeta
        BY <1>1 DEF Load
    <2>2. load.phase = "captions" /\ (OpenStream([load EXCEPT !.captions = TRUE]) \/ OpenStream(load) \/ Ends("failed"))
        BY <1>6 DEF CaptionsWaited
    <2> QED BY <1>1, <1>2, <2>1, <2>2, StreamOpens, EndsKeeps
<1>7. CASE SwitchWaited
    <2>1. LET l == [load EXCEPT !.captions = TRUE] IN
          l \in Load /\ l.number = load.number /\ l.video = load.video /\ l.receivedMeta = load.receivedMeta
        BY <1>1 DEF Load
    <2>2. load.phase = "switch" /\ (OpenStream([load EXCEPT !.captions = TRUE]) \/ Ends("failed"))
        BY <1>7 DEF SwitchWaited
    <2>3. Mine.wire = << >> /\ Mine.phase = "ended"
        BY <1>1, <2>2 DEF Attached
    <2> QED BY <2>1, <2>2, <2>3, StreamOpens, EndsKeeps
<1>8. CASE StreamEnds
    <2>1. load.phase = "stream" /\ Mine.phase = "ended" /\ Mine.wire = << >>
        BY <1>8 DEF StreamEnds, StreamOver, Mine
    <2>2. CASE ~load.streamDone
        <3>1. Ends("failed")
            BY <1>8, <2>2 DEF StreamEnds
        <3> QED BY <2>1, <3>1, EndsKeeps
    <2>3. CASE load.streamDone /\ load.failedCues = 0
        <3>1. Succeeds
            BY <1>8, <2>3 DEF StreamEnds
        <3>2. load' = Over("done") /\ fallback' = Stopped /\ UNCHANGED <<server, page, subtitles, position>>
            BY <3>1 DEF Succeeds
        <3>3. /\ load' \in Load /\ load'.phase = "done" /\ load'.number = load.number
              /\ load'.video = load.video /\ load'.failedCues = 0
            BY <1>1, <3>2, OverIs
        <3> QED BY <2>1, <2>3, <3>2, <3>3, LoadChanges
    <2>4. CASE load.streamDone /\ load.failedCues # 0
        <3>1. mode = "legacy"
            BY <1>1, <2>4 DEF Attached, ViewInv, TypeOK
        <3>2. CASE load.attempt = Retries
            <4>1. Ends("exhausted")
                BY <1>8, <2>4, <3>2 DEF StreamEnds
            <4> QED BY <2>1, <3>1, <4>1, EndsKeeps
        <3>3. CASE load.attempt # Retries
            <4>1. load' = [load EXCEPT !.phase = "delay"] /\ UNCHANGED <<server, page, subtitles, position, fallback>>
                BY <1>8, <2>4, <3>3 DEF StreamEnds, Delays
            <4>2. /\ load' \in Load /\ load'.number = load.number /\ load'.video = load.video /\ load'.phase = "delay"
                  /\ load'.receivedMeta = load.receivedMeta /\ load'.attempt = load.attempt
                BY <1>1, <4>1 DEF Load
            <4>3. load.attempt < Retries
                BY <1>1, <3>3, ScriptOK DEF Load
            <4> QED BY <2>1, <3>1, <4>1, <4>2, <4>3, LoadChanges
        <3> QED BY <3>2, <3>3
    <2> QED BY <2>2, <2>3, <2>4
<1>9. CASE Retry
    <2>1. load.phase = "delay" /\ OpenStream([load EXCEPT !.attempt = @ + 1])
        BY <1>9 DEF Retry
    <2>2. load.attempt + 1 \in 0 .. Retries
        BY <1>1, <2>1, ScriptOK DEF Attached, Load
    <2>3. LET l == [load EXCEPT !.attempt = @ + 1] IN
          l \in Load /\ l.number = load.number /\ l.video = load.video /\ l.receivedMeta = load.receivedMeta
        BY <1>1, <2>2 DEF Load
    <2> QED BY <2>1, <2>3, StreamOpens
<1> QED BY <1>3, <1>4, <1>5, <1>6, <1>7, <1>8, <1>9 DEF LoadStep

\* The connection of a load breaks.
LEMMA LostKeeps == ASSUME ViewInv, ConnectionLost PROVE ViewInv'
<1> DEFINE w == connection[load.number].wire
<1>1. /\ load.phase = "stream" /\ load' = Over("failed") /\ UNCHANGED <<page, subtitles, position, fallback>>
      /\ connection' = [connection EXCEPT ![load.number] =
             [Left(connection[load.number]) EXCEPT !.gone = TRUE, !.wire = << >>]]
      /\ UNCHANGED others
    BY DEF ConnectionLost, To, others
<1>2. /\ load.number \in Loads /\ page.enabled
      /\ \A h \in Loads : h > load.number => connection[h].phase = "none"
    BY <1>1 DEF ViewInv, Attached
<1>3. w \in Seq(Events)
    BY <1>2, ConnectionTyped DEF ViewInv
<1>4. SubSeq(w, 1, 0) = << >> /\ 0 \in {0, 1} \cap 0 .. Len(w)
    <2> HIDE DEF w
    <2> QED BY <1>3
<1>5. SubSeq(connection[load.number].wire, 1, 0) = << >>
    BY <1>4
<1>6. connection' = [connection EXCEPT ![load.number] =
          [Left(connection[load.number]) EXCEPT !.gone = TRUE, !.wire = SubSeq(connection[load.number].wire, 1, 0)]]
    BY <1>1, <1>5
<1> HIDE DEF w
<1>7. /\ connection' \in [Loads -> Connection] /\ LegacyInv' /\ Wires'
      /\ \A h \in Loads : h # load.number => connection'[h] = connection[h]
      /\ connection'[load.number].gone = TRUE /\ connection'[load.number].wire = << >>
    <2>1. 0 \in {0, 1} \cap 0 .. Len(connection[load.number].wire)
        BY <1>4 DEF w
    <2>2. UNCHANGED others
        BY <1>1
    <2>3. /\ connection' \in [Loads -> Connection] /\ LegacyInv' /\ Wires'
          /\ \A h \in Loads : h # load.number => connection'[h] = connection[h]
        BY <1>2, <1>6, <2>1, <2>2, StreamLeft
    <2>4. connection'[load.number].gone = TRUE
        BY <1>2, <1>6, <2>1, <2>2, StreamLeft
    <2>5. connection'[load.number].wire = SubSeq(connection[load.number].wire, 1, 0)
        BY <1>2, <1>6, <2>1, <2>2, StreamLeft
    <2> QED BY <1>5, <2>3, <2>4, <2>5
<1>8. /\ load' \in Load /\ load'.phase = "failed" /\ load'.number = load.number
      /\ load'.video = load.video /\ load'.failedCues = 0
    BY <1>1, OverIs DEF ViewInv, TypeOK
<1>9. TypeOK'
    BY <1>1, <1>7, <1>8 DEF ViewInv, TypeOK, others
<1>10. Attached'
    <2>1. Mine'.wire = << >> /\ Mine'.gone = TRUE
        BY <1>7, <1>8 DEF Mine
    <2>2. \A h \in Loads : h > load.number => connection'[h].phase = "none"
        <3>1. \A h \in Loads : h > load.number => h # load.number
            BY <1>2 DEF Loads
        <3> QED BY <1>2, <1>7, <3>1
    <2> QED BY <1>1, <1>2, <1>8, <2>1, <2>2 DEF Attached
<1>11. Feed' /\ Settled'
    BY <1>8 DEF Feed, Settled
<1>12. WholeSource' /\ FallbackWhileUseful'
    BY <1>1, <1>8 DEF ViewInv, WholeSource, FallbackWhileUseful, Working, others
<1> QED BY <1>7, <1>9, <1>10, <1>11, <1>12 DEF ViewInv

-----------------------------------------------------------------------------
(* The events a load takes. *)

\* The rest of a sequence.
LEMMA TailIs ==
    ASSUME NEW w \in Seq(Events), w # << >>
    PROVE  /\ Head(w) \in Events /\ Head(w) = w[1] /\ 1 \in DOMAIN w
           /\ Tail(w) \in Seq(Events) /\ Len(w) = Len(Tail(w)) + 1
           /\ \A k \in DOMAIN Tail(w) : k + 1 \in DOMAIN w /\ Tail(w)[k] = w[k + 1]
           /\ \A k \in DOMAIN w : k = 1 \/ \E j \in DOMAIN Tail(w) : w[k] = Tail(w)[j]
<1> DEFINE t == Tail(w)
           n == Len(w)
<1>1. /\ n \in Nat \ {0} /\ t \in Seq(Events) /\ Len(t) = n - 1 /\ DOMAIN t = 1 .. n - 1 /\ DOMAIN w = 1 .. n
      /\ Head(w) = w[1] /\ w[1] \in Events
      /\ \A k \in 1 .. n - 1 : t[k] = w[k + 1]
    BY HeadTailProperties
<1> HIDE DEF t, n
<1>2. \A k \in 1 .. n - 1 : k + 1 \in 1 .. n
    BY <1>1
<1>3. \A k \in 1 .. n : k = 1 \/ (k - 1 \in 1 .. n - 1 /\ (k - 1) + 1 = k)
    BY <1>1
<1>4. \A k \in DOMAIN w : k = 1 \/ \E j \in DOMAIN t : w[k] = t[j]
    <2> SUFFICES ASSUME NEW k \in DOMAIN w, k # 1 PROVE \E j \in DOMAIN t : w[k] = t[j]
        OBVIOUS
    <2>1. k - 1 \in DOMAIN t /\ (k - 1) + 1 = k
        BY <1>1, <1>3
    <2>2. t[k - 1] = w[k]
        BY <1>1, <2>1
    <2> QED BY <2>1, <2>2
<1>5. 1 \in 1 .. n /\ n = Len(t) + 1
    BY <1>1
<1> QED BY <1>1, <1>2, <1>4, <1>5 DEF t, n

\* A failure at the end stays there.
LEMMA DoomedTaken ==
    ASSUME NEW w \in Seq(Events), w # << >>, ~Breaks(Head(w)), Doomed(w)
    PROVE  Doomed(Tail(w))
<1>1. Len(w) \in DOMAIN w /\ w[Len(w)].type = "error" /\ Len(w) \in Nat
    BY DEF Doomed
<1>2. Len(w) # 1
    BY <1>1, TailIs DEF Breaks
<1>3. /\ Len(Tail(w)) = Len(w) - 1 /\ Tail(w) \in Seq(Events)
      /\ \A k \in DOMAIN Tail(w) : Tail(w)[k] = w[k + 1]
    BY <1>1, TailIs
<1>4. Len(Tail(w)) \in DOMAIN Tail(w) /\ Len(Tail(w)) + 1 = Len(w)
    <2>1. Len(w) - 1 \in 1 .. Len(w) - 1 /\ DOMAIN Tail(w) = 1 .. Len(w) - 1
        BY <1>1, <1>2, <1>3
    <2> QED BY <1>1, <1>3, <2>1
<1>5. Tail(w) # << >>
    BY <1>4
<1> QED BY <1>1, <1>3, <1>4, <1>5 DEF Doomed

\* The promise of a stream holds for the rest of its events.
LEMMA FeedTaken ==
    ASSUME ViewInv, load.phase = "stream", Mine.wire # << >>, NEW e, e = Head(Mine.wire), ~Breaks(e),
           Mine'.wire = Tail(Mine.wire), Mine'.phase = Mine.phase, UNCHANGED <<mode, document, cache>>,
           load'.video = load.video,
           DOMAIN subtitles \subseteq DOMAIN subtitles', CueEvent(e) => e.index \in DOMAIN subtitles',
           load.receivedMeta = TRUE => load'.receivedMeta = TRUE,
           e.type = "meta" => load'.receivedMeta = TRUE,
           load'.streamDone => load.streamDone \/ e.type = "done",
           mode = "document" /\ document[load.video].status = "succeeded" =>
               \A i \in Cues : ShownFinal(i) \/ FinalCue(e, i) => ShownFinal(i)',
           mode = "legacy" => \A i \in DOMAIN subtitles' :
               subtitles'[i].source # "none" => Cached(i) \/ Doomed(Mine.wire)
    PROVE  Feed'
<1> DEFINE w == Mine.wire
           t == Tail(w)
<1>1. w \in Seq(Events) /\ w # << >>
    <2>1. load.number \in Loads
        BY DEF ViewInv, Attached
    <2> QED BY <2>1, ConnectionTyped DEF ViewInv, Mine
<1>2. /\ e = w[1] /\ 1 \in DOMAIN w
      /\ \A k \in DOMAIN t : k + 1 \in DOMAIN w /\ t[k] = w[k + 1]
      /\ \A k \in DOMAIN w : k = 1 \/ \E j \in DOMAIN t : w[k] = t[j]
    BY <1>1, TailIs
<1>3. /\ InSourceOrder(w, DOMAIN subtitles, load.receivedMeta)
      /\ Mine.phase \in {"observing", "translating"} => AllDue(w, DOMAIN subtitles, load.receivedMeta)
      /\ mode = "document" /\ (load.streamDone \/ HasDone(w)) => Publication
      /\ mode = "legacy" => \A k \in DOMAIN w : CueEvent(w[k]) /\ w[k].text # 0 => Cached(w[k].index) \/ Doomed(w)
    BY DEF ViewInv, Feed
<1>4. /\ InSourceOrder(t, DOMAIN subtitles', load'.receivedMeta)
      /\ AllDue(w, DOMAIN subtitles, load.receivedMeta) => AllDue(t, DOMAIN subtitles', load'.receivedMeta)
    BY <1>1, <1>3, OrderTaken
<1>5. Doomed(w) => Doomed(t)
    BY <1>1, DoomedTaken
<1>6. \A i : Cached(i) => i \in cache[load.video]
    BY DEF Cached
<1> HIDE DEF t
<1>7. ASSUME mode = "document", load'.streamDone \/ HasDone(t) PROVE Publication'
    <2>1. load.streamDone \/ HasDone(w)
        BY <1>2, <1>7 DEF HasDone
    <2>2. /\ document[load.video].status = "succeeded"
          /\ \A i \in Cues : ShownFinal(i) \/ \E k \in DOMAIN w : FinalCue(w[k], i)
        BY <1>3, <1>7, <2>1 DEF Publication
    <2>3. \A i \in Cues : ShownFinal(i) \/ FinalCue(e, i) \/ \E k \in DOMAIN t : FinalCue(t[k], i)
        BY <1>2, <2>2
    <2>4. \A i \in Cues : ShownFinal(i)' \/ \E k \in DOMAIN t : FinalCue(t[k], i)
        BY <1>7, <2>2, <2>3
    <2>5. document'[load'.video].status = "succeeded" /\ Mine'.wire = t
        BY <2>2 DEF t
    <2> QED BY <2>4, <2>5 DEF Publication
<1>8. ASSUME mode = "legacy"
      PROVE  /\ \A k \in DOMAIN t : CueEvent(t[k]) /\ t[k].text # 0 => t[k].index \in cache[load.video] \/ Doomed(t)
             /\ \A i \in DOMAIN subtitles' : subtitles'[i].source # "none" => i \in cache[load.video] \/ Doomed(t)
    <2>1. \A k \in DOMAIN t : CueEvent(t[k]) /\ t[k].text # 0 => Cached(t[k].index) \/ Doomed(w)
        BY <1>2, <1>3, <1>8
    <2> QED BY <1>5, <1>6, <1>8, <2>1
<1>9. Mine'.wire = t
    BY DEF t
<1> QED BY <1>3, <1>4, <1>7, <1>8, <1>9 DEF Feed, Cached

\* What update() leaves of the fallback.
LEMMA UpdatedIs ==
    ASSUME NEW f \in Fallback(Cues), NEW subs, NEW at
    PROVE  /\ Updated(f, subs, at) \in Fallback(Cues) /\ Updated(f, subs, at).live = f.live
           /\ f.live \/ Updated(f, subs, at) = f
<1> DEFINE active == IF \E i \in f.active : InWindow(i, at) /\ i \in Missing(subs) THEN f.active ELSE {}
<1>1. f.active \in SUBSET Cues /\ f.waiting \in SUBSET Cues /\ f.live \in BOOLEAN /\ f.timer \in BOOLEAN
    BY DEF Fallback
<1>2. active \in SUBSET Cues
    BY <1>1
<1>3. Updated(f, subs, at) = IF f.live THEN [f EXCEPT !.active = active, !.timer = f.timer \/ active = {}] ELSE f
    BY DEF Updated
<1> HIDE DEF active
<1>4. (f.timer \/ active = {}) \in BOOLEAN
    BY Zenon
<1>5. CASE f.live
    BY <1>1, <1>2, <1>3, <1>4, <1>5 DEF Fallback
<1>6. CASE ~f.live
    BY <1>3, <1>6
<1> QED BY <1>5, <1>6

\* What a cue of the stream leaves of the subtitles.
ShownWith(subs, index, text, source, later) ==
    /\ DOMAIN later = DOMAIN subs \cup {index}
    /\ \A i \in DOMAIN later : later[i] \in Subtitle(0 .. Versions)
    /\ \A i \in DOMAIN subs : i # index => later[i] = subs[i]
    /\ \/ later[index] = [text |-> text, source |-> source] /\ text # 0
       \/ index \in DOMAIN subs /\ later[index] = subs[index]
       \/ index \notin DOMAIN subs /\ later[index].source = "none"
    /\ text = 0 \/ source # "document" \/ later[index] = [text |-> text, source |-> source]
    /\ index \in DOMAIN subs /\ subs[index].source = "document" /\ (text = 0 \/ source = "document-preview") =>
          later[index] = subs[index]

\* An event of the stream touches its own cue only, and no published text
\* unless it brings a published one.
LEMMA ShownIs ==
    ASSUME NEW subs, DOMAIN subs \subseteq Cues, \A i \in DOMAIN subs : subs[i] \in Subtitle(0 .. Versions),
           NEW index \in Cues, NEW text \in 0 .. Versions,
           NEW source \in {"none", "legacy", "document-preview", "document"}
    PROVE  ShownWith(subs, index, text, source, Shown(subs, index, text, source))
<1> DEFINE previous == IF index \in DOMAIN subs THEN subs[index] ELSE Untranslated
           later == Shown(subs, index, text, source)
<1>1. /\ later = [j \in DOMAIN subs \cup {index} |-> IF j # index THEN subs[j] ELSE Merged(previous, text, source)]
    BY DEF Shown
<1>2. Untranslated \in Subtitle(0 .. Versions) /\ Untranslated.source = "none"
    BY StreamOK DEF Untranslated, Subtitle
<1>3. previous \in Subtitle(0 .. Versions)
    BY <1>2
<1> HIDE DEF previous, later
<1>4. DOMAIN later = DOMAIN subs \cup {index} /\ later[index] = Merged(previous, text, source)
    BY <1>1
<1>5. \A i \in DOMAIN subs : i # index => later[i] = subs[i]
    BY <1>1
<1>6. [text |-> text, source |-> source] \in Subtitle(0 .. Versions)
    BY DEF Subtitle
<1>7. Merged(previous, text, source) = previous \/ (Merged(previous, text, source) = [text |-> text, source |-> source] /\ text # 0)
    BY DEF Merged
<1>8. \A i \in DOMAIN later : later[i] \in Subtitle(0 .. Versions)
    BY <1>3, <1>4, <1>5, <1>6, <1>7
<1>9. index \in DOMAIN subs => previous = subs[index]
    BY DEF previous
<1>10. index \notin DOMAIN subs => previous.source = "none"
    BY <1>2 DEF previous
<1>11. text = 0 \/ source # "document" \/ later[index] = [text |-> text, source |-> source]
    BY <1>4 DEF Merged
<1>12. previous.source = "document" /\ (text = 0 \/ source = "document-preview") => Merged(previous, text, source) = previous
    BY DEF Merged
<1>13. \/ later[index] = [text |-> text, source |-> source] /\ text # 0
       \/ index \in DOMAIN subs /\ later[index] = subs[index]
       \/ index \notin DOMAIN subs /\ later[index].source = "none"
    BY <1>4, <1>7, <1>9, <1>10
<1>14. index \in DOMAIN subs /\ subs[index].source = "document" /\ (text = 0 \/ source = "document-preview") =>
           later[index] = subs[index]
    BY <1>4, <1>9, <1>12
<1> QED BY <1>4, <1>5, <1>8, <1>11, <1>13, <1>14 DEF ShownWith, later

\* A step that only takes an event from a wire.
LEMMA EventPopped ==
    ASSUME ViewInv, NEW g \in Loads, connection[g].wire # << >>,
           connection' = [connection EXCEPT ![g] = [connection[g] EXCEPT !.wire = Tail(@)]],
           UNCHANGED others
    PROVE  /\ connection' \in [Loads -> Connection] /\ LegacyInv' /\ Wires'
           /\ \A h \in Loads : h # g => connection'[h] = connection[h]
           /\ \A h \in Loads : connection'[h].phase = connection[h].phase
                               /\ connection'[h].video = connection[h].video /\ connection'[h].gone = connection[h].gone
           /\ connection'[g].wire = Tail(connection[g].wire)
<1> DEFINE old == connection[g]
           c == [old EXCEPT !.wire = Tail(old.wire)]
           t == Tail(old.wire)
<1>1. old \in Connection /\ old.wire \in Seq(Events) /\ old.wire # << >> /\ WireOK(old)
    BY ConnectionTyped DEF ViewInv, Wires
<1>2. /\ t \in Seq(Events) /\ Len(old.wire) = Len(t) + 1 /\ Len(t) \in Nat
      /\ \A k \in DOMAIN t : k + 1 \in DOMAIN old.wire /\ t[k] = old.wire[k + 1] /\ k \in Nat
    BY <1>1, TailIs
<1> HIDE DEF old
<1>3. /\ c \in Connection /\ c.phase = old.phase /\ c.video = old.video /\ c.gone = old.gone
      /\ c.todo = old.todo /\ c.failed = old.failed /\ c.wire = t
    BY <1>1, <1>2 DEF Connection
<1>4. connection' = [connection EXCEPT ![g] = c]
    BY DEF old
<1> HIDE DEF c, t
<1>5. WireOK(c)
    <2>1. \A k \in DOMAIN t : Truthful(document[c.video], t[k]) /\ (Breaks(t[k]) => c.phase = "ended" /\ k = Len(t))
        <3> SUFFICES ASSUME NEW k \in DOMAIN t
                     PROVE  Truthful(document[c.video], t[k]) /\ (Breaks(t[k]) => c.phase = "ended" /\ k = Len(t))
            OBVIOUS
        <3>1. k + 1 \in DOMAIN old.wire /\ t[k] = old.wire[k + 1] /\ k \in Nat
            BY <1>2
        <3>2. /\ Truthful(document[old.video], old.wire[k + 1])
              /\ Breaks(old.wire[k + 1]) => old.phase = "ended" /\ k + 1 = Len(old.wire)
            BY <1>1, <3>1 DEF WireOK
        <3>3. k + 1 = Len(old.wire) => k = Len(t)
            BY <1>2, <3>1
        <3> QED BY <1>3, <3>1, <3>2, <3>3
    <2>2. c.phase \notin {"none", "ingest", "submitted", "reading"}
        BY <1>1, <1>3 DEF WireOK
    <2> QED BY <1>3, <2>1, <2>2 DEF WireOK
<1>6. Wires'
    BY <1>4, <1>5, WireReplaced DEF ViewInv
<1>7. LegacyInv'
    <2>1. UNCHANGED <<mode, cache, activeLegacyStreams>>
        BY DEF others
    <2> QED BY <1>3, <1>4, <2>1, SameStreams DEF ViewInv, old
<1>8. connection' \in [Loads -> Connection] /\ connection'[g] = c /\ \A h \in Loads : h # g => connection'[h] = connection[h]
    BY <1>3, <1>4 DEF ViewInv, TypeOK
<1> QED BY <1>3, <1>6, <1>7, <1>8 DEF old, t

\* An event of a load that is over changes nothing.
LEMMA StaleEventKeeps ==
    ASSUME ViewInv, NEW g \in Loads, OnEvent(g), ~Current(g)
    PROVE  ViewInv'
<1>1. /\ connection[g].wire # << >> /\ UNCHANGED <<load, subtitles, fallback, page, position>> /\ UNCHANGED others
      /\ connection' = [connection EXCEPT ![g] = [connection[g] EXCEPT !.wire = Tail(@)]]
    BY DEF OnEvent, To, others
<1>2. /\ connection' \in [Loads -> Connection] /\ LegacyInv' /\ Wires'
      /\ \A h \in Loads : h # g => connection'[h] = connection[h]
      /\ \A h \in Loads : connection'[h].phase = connection[h].phase
    BY <1>1, EventPopped
<1>3. TypeOK'
    BY <1>1, <1>2 DEF ViewInv, TypeOK, others
<1>4. Attached' /\ Feed'
    <2>1. CASE load.phase = "idle"
        BY <1>1, <1>2, <2>1 DEF ViewInv, Attached, Feed, others
    <2>2. CASE load.phase # "idle"
        <3>1. load.number \in Loads /\ g # load.number
            BY <2>2 DEF ViewInv, Attached, Current
        <3>2. Mine' = Mine
            BY <1>1, <1>2, <3>1 DEF Mine
        <3>3. Attached'
            BY <1>1, <1>2, <3>2 DEF ViewInv, Attached, others
        <3>4. Feed'
            BY <1>1, <3>2 DEF ViewInv, Feed, Publication, ShownFinal, Cached, others
        <3> QED BY <3>3, <3>4
    <2> QED BY <2>1, <2>2
<1>5. Settled' /\ WholeSource' /\ FallbackWhileUseful'
    BY <1>1 DEF ViewInv, Settled, ShownFinal, Cached, WholeSource, FallbackWhileUseful, Working, others
<1> QED BY <1>2, <1>3, <1>4, <1>5 DEF ViewInv

\* An event of the load.
LEMMA EventKeeps ==
    ASSUME ViewInv, NEW g \in Loads, OnEvent(g), Current(g)
    PROVE  ViewInv'
<1>1. PICK e : e = Head(connection[g].wire)
    OBVIOUS
<1>2. /\ connection[g].wire # << >> /\ UNCHANGED <<page, position>> /\ UNCHANGED others /\ g = load.number
      /\ connection' = [connection EXCEPT ![g] = [connection[g] EXCEPT !.wire = Tail(@)]]
    BY DEF OnEvent, To, others, Current
<1>3. TakeMeta(e) \/ TakeCue(e) \/ TakeDone(e) \/ TakeError(e)
    BY <1>1 DEF OnEvent
<1>4. /\ connection' \in [Loads -> Connection] /\ LegacyInv' /\ Wires'
      /\ \A h \in Loads : connection'[h].phase = connection[h].phase
                          /\ connection'[h].video = connection[h].video /\ connection'[h].gone = connection[h].gone
      /\ connection'[g].wire = Tail(connection[g].wire)
    BY <1>2, EventPopped
<1>5. /\ load.phase = "stream" /\ page.enabled /\ Mine.video = load.video /\ ~Mine.gone /\ Attached
      /\ mode = "document" => load.failedCues = 0
    BY <1>2 DEF ViewInv, Attached, Mine, Current
<1>6. load \in Load /\ load.video \in Videos /\ fallback \in Fallback(Cues)
    BY DEF ViewInv, TypeOK, Load
<1> DEFINE w == Mine.wire
<1>7. w = connection[g].wire /\ w # << >> /\ w \in Seq(Events) /\ WireOK(Mine)
    BY <1>2, ConnectionTyped DEF Mine, ViewInv, Wires
<1>8. e = w[1] /\ e = Head(w) /\ e \in Events /\ 1 \in DOMAIN w /\ Len(w) = Len(Tail(w)) + 1 /\ Tail(w) \in Seq(Events)
    BY <1>1, <1>7, TailIs
<1>9. Truthful(document[load.video], e) /\ (Breaks(e) => Mine.phase = "ended" /\ 1 = Len(w))
    BY <1>5, <1>7, <1>8 DEF WireOK
<1>10. e.index \in 0 .. Length /\ e.text \in 0 .. Versions
    BY <1>8 DEF Events
<1>11. ASSUME load'.number = load.number
       PROVE  /\ Mine'.phase = Mine.phase /\ Mine'.video = load.video /\ Mine'.gone = Mine.gone /\ Mine'.wire = Tail(w)
              /\ \A h \in Loads : h > load'.number => connection'[h].phase = "none"
    BY <1>2, <1>4, <1>5, <1>7, <1>11 DEF Mine, Attached
<1> HIDE DEF w
<1>12. UNCHANGED <<mode, document, cache, activeLegacyStreams>>
    BY <1>2 DEF others
<1>13. ASSUME load' \in Load, load'.phase = "stream", load'.number = load.number, load'.video = load.video,
              mode = "document" => load'.failedCues = 0
       PROVE  Attached'
    BY <1>2, <1>5, <1>11, <1>12, <1>13 DEF Attached
<1>14. CASE TakeMeta(e)
    <2>1. e.type = "meta" /\ load' = [load EXCEPT !.receivedMeta = TRUE] /\ UNCHANGED <<subtitles, fallback>>
        BY <1>14 DEF TakeMeta
    <2>2. /\ load' \in Load /\ load'.phase = "stream" /\ load'.number = load.number /\ load'.video = load.video
          /\ load'.failedCues = load.failedCues /\ load'.receivedMeta = TRUE /\ load'.streamDone = load.streamDone
        BY <1>5, <1>6, <2>1 DEF Load
    <2>3. TypeOK'
        BY <1>2, <1>4, <1>12, <2>1, <2>2 DEF ViewInv, TypeOK
    <2>4. Feed'
        <3>1. ~Breaks(e) /\ ~CueEvent(e) /\ \A i : ~FinalCue(e, i)
            BY <2>1 DEF Breaks, CueEvent, FinalCue
        <3>2. \A i \in Cues : ShownFinal(i) => ShownFinal(i)'
            BY <1>12, <2>1, <2>2 DEF ShownFinal
        <3>3. mode = "legacy" => \A i \in DOMAIN subtitles' :
                  subtitles'[i].source # "none" => Cached(i) \/ Doomed(Mine.wire)
            BY <1>5, <2>1 DEF ViewInv, Feed
        <3> QED BY <1>5, <1>7, <1>8, <1>11, <1>12, <2>1, <2>2, <3>1, <3>2, <3>3, FeedTaken DEF w
    <2>5. Settled' /\ WholeSource' /\ FallbackWhileUseful'
        BY <1>2, <1>5, <1>12, <2>1, <2>2 DEF ViewInv, Settled, WholeSource, FallbackWhileUseful
    <2> QED BY <1>4, <1>5, <1>13, <2>2, <2>3, <2>4, <2>5 DEF ViewInv
<1>15. CASE TakeDone(e)
    <2>1. e.type = "done" /\ load' = [load EXCEPT !.streamDone = TRUE, !.failedCues = e.index] /\ UNCHANGED <<subtitles, fallback>>
        BY <1>15 DEF TakeDone
    <2>2. /\ load' \in Load /\ load'.phase = "stream" /\ load'.number = load.number /\ load'.video = load.video
          /\ load'.failedCues = e.index /\ load'.receivedMeta = load.receivedMeta
        BY <1>5, <1>6, <1>10, <2>1 DEF Load
    <2>3. mode = "document" => e.index = 0
        BY <1>9, <2>1 DEF Truthful
    <2>4. TypeOK'
        BY <1>2, <1>4, <1>12, <2>1, <2>2 DEF ViewInv, TypeOK
    <2>5. Feed'
        <3>1. ~Breaks(e) /\ ~CueEvent(e) /\ e.type # "meta" /\ \A i : ~FinalCue(e, i)
            BY <2>1 DEF Breaks, CueEvent, FinalCue
        <3>2. \A i \in Cues : ShownFinal(i) => ShownFinal(i)'
            BY <1>12, <2>1, <2>2 DEF ShownFinal
        <3>3. mode = "legacy" => \A i \in DOMAIN subtitles' :
                  subtitles'[i].source # "none" => Cached(i) \/ Doomed(Mine.wire)
            BY <1>5, <2>1 DEF ViewInv, Feed
        <3> QED BY <1>5, <1>7, <1>8, <1>11, <1>12, <2>1, <2>2, <3>1, <3>2, <3>3, FeedTaken DEF w
    <2>6. Settled' /\ WholeSource' /\ FallbackWhileUseful'
        BY <1>2, <1>5, <1>12, <2>1, <2>2 DEF ViewInv, Settled, WholeSource, FallbackWhileUseful, Working
    <2> QED BY <1>4, <1>13, <2>2, <2>3, <2>4, <2>5, <2>6 DEF ViewInv
<1>16. CASE TakeError(e)
    <2>1. Breaks(e) /\ UNCHANGED <<subtitles, fallback>>
        BY <1>16 DEF TakeError, Breaks
    <2>2. Mine.phase = "ended" /\ Tail(w) = << >>
        <3> DEFINE t == Tail(w)
        <3>1. t \in Seq(Events) /\ Len(t) \in Nat /\ Len(w) = Len(t) + 1
            BY <1>8
        <3> HIDE DEF t
        <3>2. Mine.phase = "ended" /\ Len(w) = 1
            BY <1>9, <2>1
        <3>3. Len(t) = 0
            <4>1. \A n \in Nat : n + 1 = 1 => n = 0
                OBVIOUS
            <4> QED BY <3>1, <3>2, <4>1
        <3>4. t = << >>
            BY <3>1, <3>3
        <3> QED BY <3>2, <3>4 DEF t
    <2>3. /\ load' \in Load /\ load'.phase \in {"switch", "failed"} /\ load'.number = load.number
          /\ load'.video = load.video /\ (mode = "document" => load'.failedCues = 0)
          /\ load'.phase = "switch" => load'.receivedMeta = load.receivedMeta /\ ~load.receivedMeta
        <3>1. CASE Switches(e)
            <4>1. load' = [load EXCEPT !.phase = "switch"] /\ ~load.receivedMeta
                BY <1>16, <3>1 DEF TakeError, Switches
            <4> QED BY <1>5, <1>6, <4>1 DEF Load
        <3>2. CASE ~Switches(e)
            <4>1. load' = Over("failed")
                BY <1>16, <3>2 DEF TakeError
            <4>2. "failed" \in {"idle", "done", "exhausted", "failed"}
                OBVIOUS
            <4> QED BY <1>6, <4>1, <4>2, OverIs
        <3> QED BY <3>1, <3>2
    <2>4. TypeOK'
        BY <1>2, <1>4, <1>12, <2>1, <2>3 DEF ViewInv, TypeOK
    <2>5. Attached'
        BY <1>2, <1>5, <1>11, <1>12, <2>2, <2>3 DEF Attached, Current
    <2>6. Feed' /\ Settled'
        BY <2>3 DEF Feed, Settled
    <2>7. WholeSource' /\ FallbackWhileUseful'
        BY <1>2, <1>5, <1>12, <2>1, <2>3 DEF ViewInv, WholeSource, FallbackWhileUseful, Working
    <2> QED BY <1>4, <2>4, <2>5, <2>6, <2>7 DEF ViewInv
<1>17. CASE TakeCue(e)
    <2> DEFINE source == Source(e.type)
    <2>1. /\ CueEvent(e) /\ UNCHANGED load /\ subtitles' = Shown(subtitles, e.index, e.text, source)
          /\ fallback' = Updated(fallback, subtitles', position)
        BY <1>17 DEF TakeCue, CueEvent
    <2>2. e.index \in Cues
        BY <1>9, <2>1 DEF Truthful
    <2>3. source \in {"none", "legacy", "document-preview", "document"}
          /\ (mode = "document" => source = IF e.type = "preview" THEN "document-preview" ELSE "document")
        BY DEF Source, ViewInv, TypeOK
    <2> HIDE DEF source
    <2>4. DOMAIN subtitles \subseteq Cues /\ \A i \in DOMAIN subtitles : subtitles[i] \in Subtitle(0 .. Versions)
        BY DEF ViewInv, TypeOK
    <2>5. /\ DOMAIN subtitles' = DOMAIN subtitles \cup {e.index}
          /\ \A i \in DOMAIN subtitles' : subtitles'[i] \in Subtitle(0 .. Versions)
          /\ \A i \in DOMAIN subtitles : i # e.index => subtitles'[i] = subtitles[i]
          /\ \/ subtitles'[e.index] = [text |-> e.text, source |-> source] /\ e.text # 0
             \/ e.index \in DOMAIN subtitles /\ subtitles'[e.index] = subtitles[e.index]
             \/ e.index \notin DOMAIN subtitles /\ subtitles'[e.index].source = "none"
          /\ e.text = 0 \/ source # "document" \/ subtitles'[e.index] = [text |-> e.text, source |-> source]
          /\ e.index \in DOMAIN subtitles /\ subtitles[e.index].source = "document"
                 /\ (e.text = 0 \/ source = "document-preview") =>
                 subtitles'[e.index] = subtitles[e.index]
        <3>1. ShownWith(subtitles, e.index, e.text, source, Shown(subtitles, e.index, e.text, source))
            BY <1>10, <2>2, <2>3, <2>4, ShownIs
        <3>2. ShownWith(subtitles, e.index, e.text, source, subtitles')
            BY <2>1, <3>1
        <3> QED BY <3>2 DEF ShownWith
    <2>6. /\ fallback' \in Fallback(Cues) /\ fallback'.live = fallback.live
          /\ fallback.live \/ fallback' = fallback
        BY <1>6, <2>1, UpdatedIs
    <2>7. TypeOK'
        <3>1. DOMAIN subtitles' \subseteq Cues
            BY <2>2, <2>4, <2>5
        <3> QED BY <1>2, <1>4, <1>12, <2>1, <2>5, <2>6, <3>1 DEF ViewInv, TypeOK
    <2>8. (\A m \in 0 .. e.index - 1 : m \in DOMAIN subtitles) /\ load.receivedMeta = TRUE
        <3>1. InSourceOrder(w, DOMAIN subtitles, load.receivedMeta)
            BY <1>5 DEF ViewInv, Feed, w
        <3>2. (\A m \in 0 .. e.index - 1 : Due(w, DOMAIN subtitles, m, 1 - 1)) /\ Introduced(w, load.receivedMeta, 1 - 1)
            BY <1>8, <2>1, <3>1 DEF InSourceOrder
        <3>3. 1 .. 1 - 1 = {}
            OBVIOUS
        <3> QED BY <3>2, <3>3 DEF Due, Introduced
    <2>9. WholeSource'
        <3>1. PICK n \in 0 .. Length : DOMAIN subtitles = 0 .. n - 1
            BY DEF ViewInv, WholeSource
        <3>2. e.index <= n
            <4>1. e.index \in Int /\ e.index >= 0 /\ n \in Int /\ n >= 0
                BY <2>2, <3>1, StreamOK DEF Cues
            <4>2. ~(e.index > n)
                <5> SUFFICES ASSUME e.index > n PROVE FALSE
                    OBVIOUS
                <5>1. n \in 0 .. e.index - 1 /\ n \notin 0 .. n - 1
                    BY <4>1
                <5> QED BY <2>8, <3>1, <5>1
            <4> QED BY <4>1, <4>2
        <3>3. \E k \in 0 .. Length : DOMAIN subtitles' = 0 .. k - 1
            <4>1. CASE e.index < n
                <5>1. e.index \in DOMAIN subtitles
                    BY <2>2, <3>1, <4>1, StreamOK DEF Cues
                <5>2. DOMAIN subtitles' = 0 .. n - 1
                    BY <2>5, <3>1, <5>1
                <5> QED BY <5>2
            <4>2. CASE e.index = n
                <5>1. n + 1 \in 0 .. Length /\ 0 .. (n + 1) - 1 = (0 .. n - 1) \cup {n}
                    BY <2>2, <3>1, <4>2, StreamOK DEF Cues
                <5>2. DOMAIN subtitles' = 0 .. (n + 1) - 1
                    BY <2>5, <3>1, <4>2, <5>1
                <5> QED BY <5>1, <5>2
            <4> QED BY <2>2, <3>1, <3>2, <4>1, <4>2, StreamOK DEF Cues
        <3> QED BY <2>1, <2>8, <3>3 DEF WholeSource
    <2>10. FallbackWhileUseful'
        BY <1>2, <1>12, <2>1, <2>6 DEF ViewInv, FallbackWhileUseful
    <2>11. Attached'
        BY <1>5, <1>6, <1>13, <2>1
    <2>12. ASSUME mode = "document", document[load.video].status = "succeeded", NEW i \in Cues,
                  ShownFinal(i) \/ FinalCue(e, i)
           PROVE  ShownFinal(i)'
        <3>1. \/ i \in DOMAIN subtitles' /\ subtitles'[i] = [text |-> document[load.video].final[i], source |-> "document"]
            <4>1. CASE i # e.index
                BY <2>5, <2>12, <4>1 DEF ShownFinal, FinalCue
            <4>2. CASE i = e.index /\ e.type \in {"source_cue", "cue"} /\ e.text # 0
                <5>1. e.text = document[load.video].final[i] /\ source = "document"
                    BY <1>9, <2>3, <2>12, <4>2 DEF Truthful
                <5> QED BY <2>5, <4>2, <5>1
            <4>3. CASE i = e.index /\ (e.type = "preview" \/ e.text = 0)
                <5>1. ShownFinal(i) /\ (e.text = 0 \/ source = "document-preview")
                    BY <2>3, <2>12, <4>3 DEF FinalCue
                <5>2. i \in DOMAIN subtitles /\ subtitles[i] = [text |-> document[load.video].final[i], source |-> "document"]
                    BY <5>1 DEF ShownFinal
                <5>3. subtitles'[e.index] = subtitles[e.index]
                    BY <2>5, <4>3, <5>1, <5>2
                <5> QED BY <2>5, <4>3, <5>2, <5>3
            <4> QED BY <2>1, <4>1, <4>2, <4>3 DEF CueEvent
        <3> QED BY <1>12, <2>1, <3>1 DEF ShownFinal
    <2>13. ASSUME mode = "legacy", NEW i \in DOMAIN subtitles', subtitles'[i].source # "none"
           PROVE  Cached(i) \/ Doomed(w)
        <3>1. \A j \in DOMAIN subtitles : subtitles[j].source # "none" => Cached(j) \/ Doomed(w)
            BY <1>5, <2>13 DEF ViewInv, Feed, w
        <3>2. CASE i # e.index
            BY <2>5, <2>13, <3>1, <3>2
        <3>3. CASE i = e.index
            <4>1. CASE e.text # 0
                <5>1. \A k \in DOMAIN w : CueEvent(w[k]) /\ w[k].text # 0 => Cached(w[k].index) \/ Doomed(w)
                    BY <1>5, <2>13 DEF ViewInv, Feed, w
                <5> QED BY <1>8, <2>1, <3>3, <4>1, <5>1
            <4>2. CASE e.text = 0
                <5>1. i \in DOMAIN subtitles /\ subtitles'[i] = subtitles[i]
                    BY <2>5, <2>13, <3>3, <4>2
                <5> QED BY <2>13, <3>1, <5>1
            <4> QED BY <4>1, <4>2
        <3> QED BY <3>2, <3>3
    <2>14. Feed'
        <3>1. ~Breaks(e) /\ e.type # "meta"
            BY <2>1 DEF Breaks, CueEvent
        <3>2. DOMAIN subtitles \subseteq DOMAIN subtitles' /\ e.index \in DOMAIN subtitles'
            BY <2>5
        <3>3. mode = "legacy" => \A i \in DOMAIN subtitles' :
                  subtitles'[i].source # "none" => Cached(i) \/ Doomed(Mine.wire)
            BY <2>13 DEF w
        <3>4. mode = "document" /\ document[load.video].status = "succeeded" =>
                  \A i \in Cues : ShownFinal(i) \/ FinalCue(e, i) => ShownFinal(i)'
            BY <2>12
        <3>5. load'.number = load.number /\ load'.video = load.video /\ load'.receivedMeta = load.receivedMeta
              /\ load'.streamDone = load.streamDone
            BY <2>1
        <3>6. Mine.wire # << >> /\ e = Head(Mine.wire) /\ Mine'.wire = Tail(Mine.wire) /\ Mine'.phase = Mine.phase
            BY <1>7, <1>8, <1>11, <3>5 DEF w
        <3> QED BY <1>5, <1>12, <3>1, <3>2, <3>3, <3>4, <3>5, <3>6, FeedTaken
    <2>15. Settled'
        BY <1>5, <2>1 DEF Settled
    <2> QED BY <1>4, <2>7, <2>9, <2>10, <2>11, <2>14, <2>15 DEF ViewInv
<1> QED BY <1>3, <1>14, <1>15, <1>16, <1>17

-----------------------------------------------------------------------------
(* The temporary translations. *)

\* They are merged where no translation is, and into document loads only.
LEMMA FallShows ==
    ASSUME ViewInv, Fall
    PROVE  /\ DOMAIN subtitles' = DOMAIN subtitles
           /\ \A i \in DOMAIN subtitles : subtitles[i].source # "none" => subtitles'[i] = subtitles[i]
           /\ \A i \in DOMAIN subtitles : subtitles'[i] \in Subtitle(0 .. Versions)
           /\ mode = "legacy" => subtitles' = subtitles
<1>1. \A i \in DOMAIN subtitles : subtitles[i] \in Subtitle(0 .. Versions)
    BY DEF ViewInv, TypeOK
<1>2. CASE UNCHANGED subtitles
    BY <1>1, <1>2
<1>3. ASSUME NEW rows \in SUBSET Cues, WindowAnswered(rows)
      PROVE  /\ DOMAIN subtitles' = DOMAIN subtitles
             /\ \A i \in DOMAIN subtitles : subtitles[i].source # "none" => subtitles'[i] = subtitles[i]
             /\ \A i \in DOMAIN subtitles : subtitles'[i] \in Subtitle(0 .. Versions)
             /\ mode # "legacy"
    <2> DEFINE news == rows \cap Missing(subtitles)
    <2>1. /\ fallback.active # {}
          /\ subtitles' = [i \in DOMAIN subtitles |->
                IF i \in news THEN [text |-> 1, source |-> "legacy"] ELSE subtitles[i]]
        BY <1>3 DEF WindowAnswered
    <2>2. \A i \in DOMAIN subtitles : subtitles[i].source # "none" => i \notin news
        BY DEF Missing
    <2>3. [text |-> 1, source |-> "legacy"] \in Subtitle(0 .. Versions)
        BY StreamOK DEF Subtitle
    <2>4. mode = "document"
        BY <2>1 DEF ViewInv, FallbackWhileUseful
    <2> HIDE DEF news
    <2> QED BY <1>1, <2>1, <2>2, <2>3, <2>4
<1>4. UNCHANGED subtitles \/ \E rows \in SUBSET Cues : WindowAnswered(rows)
    BY DEF Fall, Run, WindowFailed, RetryAfter, Tick
<1> QED BY <1>2, <1>3, <1>4

\* They are requested as long as the fallback is live, for cues of the load.
LEMMA FallAsks ==
    ASSUME ViewInv, Fall
    PROVE  /\ fallback' \in Fallback(Cues) /\ fallback'.live = fallback.live
           /\ fallback'.timer \/ fallback'.active # {} => fallback'.live
           /\ position' \in Spoken
<1>1. /\ fallback \in Fallback(Cues) /\ position \in Spoken /\ DOMAIN subtitles \subseteq Cues
      /\ fallback.timer \/ fallback.active # {} => fallback.live
    BY DEF ViewInv, TypeOK, FallbackWhileUseful
<1>2. /\ fallback.active \in SUBSET Cues /\ fallback.waiting \in SUBSET Cues
      /\ fallback.live \in BOOLEAN /\ fallback.timer \in BOOLEAN
    BY <1>1 DEF Fallback
<1>3. CASE Run
    <2>1. Wanted \in SUBSET Cues
        BY <1>1 DEF Wanted, Missing
    <2>2. /\ fallback.live /\ position' = position
          /\ \/ fallback' = [fallback EXCEPT !.timer = FALSE]
             \/ fallback' = [fallback EXCEPT !.timer = FALSE, !.active = Wanted,
                                             !.waiting = fallback.waiting \cup Wanted]
        BY <1>1, <1>3 DEF Run
    <2> QED BY <1>1, <1>2, <2>1, <2>2 DEF Fallback
<1>4. CASE WindowFailed
    <2>1. fallback.live /\ position' = position /\ fallback' = [fallback EXCEPT !.active = {}, !.timer = TRUE]
        BY <1>1, <1>4 DEF WindowFailed
    <2> QED BY <1>1, <1>2, <2>1 DEF Fallback
<1>5. ASSUME NEW rows \in SUBSET Cues, WindowAnswered(rows)
      PROVE  /\ fallback' \in Fallback(Cues) /\ fallback'.live = fallback.live
             /\ fallback'.timer \/ fallback'.active # {} => fallback'.live
             /\ position' \in Spoken
    <2>1. PICK waiting \in SUBSET Cues :
              /\ fallback.live /\ position' = position
              /\ fallback' = [fallback EXCEPT !.active = {}, !.timer = TRUE, !.waiting = waiting]
        <3>1. fallback.waiting \ (rows \cap Missing(subtitles)) \in SUBSET Cues
            BY <1>2
        <3> QED BY <1>1, <1>5, <3>1 DEF WindowAnswered
    <2> QED BY <1>1, <1>2, <2>1 DEF Fallback
<1>6. ASSUME NEW i \in Cues, RetryAfter(i)
      PROVE  /\ fallback' \in Fallback(Cues) /\ fallback'.live = fallback.live
             /\ fallback'.timer \/ fallback'.active # {} => fallback'.live
             /\ position' \in Spoken
    <2>1. position' = position /\ fallback' = [fallback EXCEPT !.waiting = fallback.waiting \ {i}]
        BY <1>6 DEF RetryAfter
    <2> QED BY <1>1, <1>2, <2>1 DEF Fallback
<1>7. ASSUME NEW at \in Spoken, Tick(at)
      PROVE  /\ fallback' \in Fallback(Cues) /\ fallback'.live = fallback.live
             /\ fallback'.timer \/ fallback'.active # {} => fallback'.live
             /\ position' \in Spoken
    <2>1. position' = at /\ fallback' = Updated(fallback, subtitles, at)
        BY <1>7 DEF Tick
    <2>2. /\ fallback' \in Fallback(Cues) /\ fallback'.live = fallback.live
          /\ fallback.live \/ fallback' = fallback
        BY <1>1, <2>1, UpdatedIs
    <2> QED BY <1>1, <2>1, <2>2
<1> QED BY <1>3, <1>4, <1>5, <1>6, <1>7 DEF Fall

\* A temporary translation leaves what the document has said.
LEMMA FallKeeps == ASSUME ViewInv, Fall PROVE ViewInv'
<1>1. UNCHANGED <<mode, document, cache, activeLegacyStreams, connection, page, load>>
    BY DEF Fall, server
<1>2. /\ DOMAIN subtitles' = DOMAIN subtitles
      /\ \A i \in DOMAIN subtitles : subtitles[i].source # "none" => subtitles'[i] = subtitles[i]
      /\ \A i \in DOMAIN subtitles : subtitles'[i] \in Subtitle(0 .. Versions)
      /\ mode = "legacy" => subtitles' = subtitles
    BY FallShows
<1>3. /\ fallback' \in Fallback(Cues) /\ fallback'.live = fallback.live
      /\ fallback'.timer \/ fallback'.active # {} => fallback'.live
      /\ position' \in Spoken
    BY FallAsks
<1>4. TypeOK'
    BY <1>1, <1>2, <1>3 DEF ViewInv, TypeOK
<1>5. LegacyInv' /\ Wires'
    BY <1>1, ServerStill DEF ViewInv
<1>6. Mine' = Mine
    BY <1>1 DEF Mine
<1>7. Attached'
    BY <1>1, <1>6 DEF ViewInv, Attached
<1>8. \A i : ShownFinal(i) => ShownFinal(i)'
    <2> SUFFICES ASSUME NEW i, ShownFinal(i) PROVE ShownFinal(i)'
        OBVIOUS
    <2>1. i \in DOMAIN subtitles /\ subtitles[i] = [text |-> document[load.video].final[i], source |-> "document"]
        BY DEF ShownFinal
    <2>2. subtitles[i].source # "none"
        BY <2>1
    <2>3. i \in DOMAIN subtitles' /\ subtitles'[i] = subtitles[i]
        BY <1>2, <2>1, <2>2
    <2> QED BY <1>1, <2>1, <2>3 DEF ShownFinal
<1>9. Publication => Publication'
    BY <1>1, <1>6, <1>8 DEF Publication
<1>10. Feed'
    BY <1>1, <1>2, <1>6, <1>9 DEF ViewInv, Feed, Cached
<1>11. Settled'
    <2>1. load.phase = "delay" => mode = "legacy"
        BY DEF ViewInv, Attached, TypeOK
    <2> QED BY <1>1, <1>2, <1>8, <2>1 DEF ViewInv, Settled, Cached
<1>12. WholeSource'
    <2>1. subtitles = << >> => subtitles' = << >>
        BY <1>2
    <2> QED BY <1>1, <1>2, <2>1 DEF ViewInv, WholeSource, Working
<1>13. FallbackWhileUseful'
    BY <1>1, <1>3 DEF ViewInv, FallbackWhileUseful
<1> QED BY <1>4, <1>5, <1>7, <1>10, <1>11, <1>12, <1>13 DEF ViewInv

-----------------------------------------------------------------------------
(* What the viewer sees. *)

\* The invariant is inductive.
LEMMA ViewStepKeeps == ASSUME ViewInv, [Next]_vars PROVE ViewInv'
<1>1. CASE WorkerStep /\ UNCHANGED client
    BY <1>1, WorkerKeeps
<1>2. ASSUME NEW g \in Loads, Serve(g), UNCHANGED client PROVE ViewInv'
    BY <1>2, ServeKeeps
<1>3. CASE Visit
    BY <1>3, VisitKeeps
<1>4. CASE LoadStep
    BY <1>4, LoadKeeps
<1>5. CASE ConnectionLost
    BY <1>5, LostKeeps
<1>6. ASSUME NEW g \in Loads, OnEvent(g) PROVE ViewInv'
    <2>1. CASE Current(g)
        BY <1>6, <2>1, EventKeeps
    <2>2. CASE ~Current(g)
        BY <1>6, <2>2, StaleEventKeeps
    <2> QED BY <2>1, <2>2
<1>7. CASE Fall
    BY <1>7, FallKeeps
<1>8. CASE UNCHANGED vars
    <2>1. /\ UNCHANGED <<mode, document, cache, activeLegacyStreams, connection>>
          /\ UNCHANGED <<page, load, subtitles, position, fallback>>
        BY <1>8 DEF vars, server, client
    <2>2. TypeOK' /\ WholeSource' /\ FallbackWhileUseful'
        BY <2>1 DEF ViewInv, TypeOK, WholeSource, Working, FallbackWhileUseful
    <2>3. LegacyInv' /\ Wires'
        BY <2>1, ServerStill DEF ViewInv
    <2>4. Mine' = Mine /\ \A i : ShownFinal(i)' <=> ShownFinal(i)
        BY <2>1 DEF Mine, ShownFinal
    <2>5. Attached' /\ Feed' /\ Settled'
        BY <2>1, <2>4 DEF ViewInv, Attached, Feed, Publication, Settled, Cached
    <2> QED BY <2>2, <2>3, <2>5 DEF ViewInv
<1> QED BY <1>1, <1>2, <1>3, <1>4, <1>5, <1>6, <1>7, <1>8 DEF Next

\* It holds always.
LEMMA ViewHolds == Spec => []ViewInv
<1>1. Init => ViewInv
    BY ViewInitially
<1>2. ViewInv /\ [Next]_vars => ViewInv'
    BY ViewStepKeeps
<1> QED BY <1>1, <1>2, PTL DEF Spec

\* What the viewer sees is always well formed, without holes and of the current
\* load's source; and when the extension says that the document is translated,
\* it shows every cue with its published text (document-stream.ts, content.ts).
THEOREM ShownIsAlwaysWhole == Spec => []ShownIsWhole
<1>1. ViewInv => ShownIsWhole
    <2> SUFFICES ASSUME ViewInv PROVE ShownIsWhole
        OBVIOUS
    <2>1. TypeOK /\ WholeSource
        BY DEF ViewInv
    <2>2. FinalIsPublication
        <3> SUFFICES ASSUME mode = "document", load.phase = "done"
                     PROVE  /\ DOMAIN subtitles = Cues
                            /\ \A i \in Cues : subtitles[i] =
                                   [text |-> document[load.video].final[i], source |-> "document"]
            BY DEF FinalIsPublication
        <3>1. \A i \in Cues : ShownFinal(i)
            BY DEF ViewInv, Settled
        <3>2. DOMAIN subtitles \subseteq Cues
            BY <2>1 DEF TypeOK
        <3> QED BY <3>1, <3>2 DEF ShownFinal
    <2> QED BY <2>1, <2>2 DEF ShownIsWhole
<1> QED BY <1>1, ViewHolds, PTL

\* A video is translated by one legacy stream at a time, and that one is
\* registered: a stream that is over, however it ended, lets the next one in
\* (activeLegacyStreams, app.ts).
THEOREM OneStreamAtATime == Spec => []OneLegacyStream
<1>1. ViewInv => OneLegacyStream
    BY DEF ViewInv, LegacyInv
<1> QED BY <1>1, ViewHolds, PTL

\* Temporary translations are requested for an enabled and unpublished document
\* only, and a retry of a legacy stream submits no cue the viewer has already
\* (playback-fallback.ts, content.ts:40).
THEOREM RequestsAreUseful == Spec => []RequestsUseful
<1>1. ViewInv => RequestsUseful
    <2> SUFFICES ASSUME ViewInv PROVE RequestsUseful
        OBVIOUS
    <2>1. FallbackWhileUseful
        BY DEF ViewInv
    <2>2. RetrySubmitsOnlyRemaining
        <3> SUFFICES ASSUME mode = "legacy", load.phase = "stream", Mine.phase = "translating",
                            NEW i \in Mine.todo \cap DOMAIN subtitles
                     PROVE  subtitles[i].source = "none"
            BY DEF RetrySubmitsOnlyRemaining, Mine
        <3>1. load.number \in Loads /\ Mine.video = load.video
            BY DEF ViewInv, Attached
        <3>2. Mine.todo \cap cache[load.video] = {}
            BY <3>1 DEF ViewInv, LegacyInv, Mine
        <3>3. ~Doomed(Mine.wire)
            <4>1. WireOK(Mine) /\ Mine.wire \in Seq(Events)
                BY <3>1, ConnectionTyped DEF ViewInv, Wires, Mine
            <4>2. \A k \in DOMAIN Mine.wire : Mine.wire[k].type # "error"
                BY <4>1 DEF WireOK, Breaks
            <4>3. Mine.wire # << >> => Len(Mine.wire) \in DOMAIN Mine.wire
                BY <4>1
            <4> QED BY <4>2, <4>3 DEF Doomed
        <3>4. subtitles[i].source # "none" => i \in cache[load.video]
            BY <3>3 DEF ViewInv, Feed, Cached
        <3> QED BY <3>2, <3>4
    <2> QED BY <2>1, <2>2 DEF RequestsUseful
<1> QED BY <1>1, ViewHolds, PTL

-----------------------------------------------------------------------------
(* Better and worse translations. *)

\* In legacy mode there are no others.
LegacyOnly == mode = "legacy" => \A i \in DOMAIN subtitles : subtitles[i].source \in {"none", "legacy"}

\* No cue's translation got worse.
NoWorse(old, new) ==
    \A i \in DOMAIN old : i \in DOMAIN new /\ Rank(new[i].source) >= Rank(old[i].source)

\* The four ranks.
LEMMA Ranks ==
    /\ Rank("none") = 0 /\ Rank("legacy") = 1 /\ Rank("document-preview") = 2 /\ Rank("document") = 3
    /\ \A s \in {"none", "legacy", "document-preview", "document"} : Rank(s) \in 0 .. 3
BY DEF Rank

\* Nothing changed is nothing worse.
LEMMA SameIsNoWorse == ViewInv => NoWorse(subtitles, subtitles)
<1> SUFFICES ASSUME ViewInv PROVE NoWorse(subtitles, subtitles)
    OBVIOUS
<1>1. \A i \in DOMAIN subtitles : subtitles[i].source \in {"none", "legacy", "document-preview", "document"}
    BY DEF ViewInv, TypeOK, Subtitle
<1> QED BY <1>1, Ranks DEF NoWorse

\* A cue of the stream does not replace a better translation: only the document
\* itself comes after a preview, and a legacy stream competes with none.
LEMMA CueIsNoWorse ==
    ASSUME ViewInv, LegacyOnly, NEW e, TakeCue(e), UNCHANGED mode
    PROVE  NoWorse(subtitles, subtitles') /\ LegacyOnly'
<1> DEFINE source == Source(e.type)
           old(i) == IF i \in DOMAIN subtitles THEN subtitles[i] ELSE Untranslated
<1>1. subtitles' = [j \in DOMAIN subtitles \cup {e.index} |->
                       IF j # e.index THEN subtitles[j] ELSE Merged(old(j), e.text, source)]
    BY DEF TakeCue, Shown
<1>2. /\ mode \in {"document", "legacy"} /\ source \in {"legacy", "document-preview", "document"}
      /\ mode = "legacy" => source = "legacy"
      /\ mode = "document" => source # "legacy"
    <2>1. mode \in {"document", "legacy"}
        BY DEF ViewInv, TypeOK
    <2>2. CASE mode = "legacy"
        BY <2>2 DEF Source
    <2>3. CASE mode = "document" /\ e.type = "preview"
        BY <2>3 DEF Source
    <2>4. CASE mode = "document" /\ e.type # "preview"
        BY <2>4 DEF Source
    <2> QED BY <2>1, <2>2, <2>3, <2>4
<1>3. \A i \in DOMAIN subtitles : subtitles[i].source \in {"none", "legacy", "document-preview", "document"}
    BY DEF ViewInv, TypeOK, Subtitle
<1>4. \A i : old(i).source \in {"none", "legacy", "document-preview", "document"}
    BY <1>3 DEF Untranslated
<1>5. mode = "legacy" => \A i : old(i).source \in {"none", "legacy"}
    BY DEF LegacyOnly, Untranslated
<1>6. \A i \in DOMAIN subtitles : old(i) = subtitles[i]
    OBVIOUS
<1> HIDE DEF source, old
<1>7. ASSUME NEW i
      PROVE  LET new == Merged(old(i), e.text, source).source IN
             /\ Rank(new) >= Rank(old(i).source)
             /\ mode = "legacy" => new \in {"none", "legacy"}
    <2>1. CASE Merged(old(i), e.text, source) = old(i)
        BY <1>4, <1>5, <2>1, Ranks
    <2>2. CASE /\ Merged(old(i), e.text, source) = [text |-> e.text, source |-> source]
               /\ ~(old(i).source = "document" /\ source = "document-preview")
        <3>1. Merged(old(i), e.text, source).source = source
            BY <2>2
        <3>2. Rank(source) >= Rank(old(i).source)
            BY <1>2, <1>4, <1>5, <2>2, Ranks
        <3> QED BY <1>2, <3>1, <3>2
    <2> QED BY <2>1, <2>2 DEF Merged
<1>8. \A i \in DOMAIN subtitles' :
          subtitles'[i] = (IF i # e.index THEN subtitles[i] ELSE Merged(old(i), e.text, source))
    BY <1>1
<1>9. NoWorse(subtitles, subtitles')
    <2> SUFFICES ASSUME NEW i \in DOMAIN subtitles
                 PROVE  i \in DOMAIN subtitles' /\ Rank(subtitles'[i].source) >= Rank(subtitles[i].source)
        BY DEF NoWorse
    <2>1. i \in DOMAIN subtitles'
        BY <1>1
    <2>2. CASE i # e.index
        BY <1>3, <1>8, <2>1, <2>2, Ranks
    <2>3. CASE i = e.index
        BY <1>6, <1>7, <1>8, <2>1, <2>3
    <2> QED BY <2>1, <2>2, <2>3
<1>10. LegacyOnly'
    <2> SUFFICES ASSUME mode = "legacy", NEW i \in DOMAIN subtitles' PROVE subtitles'[i].source \in {"none", "legacy"}
        BY DEF LegacyOnly
    <2>1. CASE i # e.index
        BY <1>1, <1>8, <2>1 DEF LegacyOnly
    <2>2. CASE i = e.index
        BY <1>7, <1>8, <2>2
    <2> QED BY <2>1, <2>2
<1> QED BY <1>9, <1>10

\* A step of the same load makes nothing worse.
LEMMA StepIsNoWorse ==
    ASSUME ViewInv, LegacyOnly, [Next]_vars
    PROVE  /\ LegacyOnly'
           /\ load'.number = load.number /\ load'.phase # "idle" => NoWorse(subtitles, subtitles')
<1>1. load.number \in Nat
    BY DEF ViewInv, TypeOK, Load
<1>2. mode' = mode
    BY ZenonT(30) DEF Next, WorkerStep, Previewed, Published, JobFailed, JobCancelled, Worker, Serve, IngestFails,
        SubmitDocument, SubmitFails, ObserveFirst, Observe, LegacyStart, LegacyRead, TranslationFails,
        LegacyDone, TranslateChunk, NoticeGone, Visit, ToggleOn, ToggleOff, FindVideo, NavigateFinish,
        Navigate, Begin, Cancel, LoadStep, TracksFound, NoTracks, BackendUnreachable, CaptionsWaited,
        SwitchWaited, StreamEnds, Retry, Ends, Succeeds, Delays, OpenStream, ConnectionLost, OnEvent, Fall,
        server, vars
<1>3. CASE UNCHANGED subtitles
    BY <1>2, <1>3, SameIsNoWorse DEF LegacyOnly
<1>4. CASE Visit
    <2>1. CASE \E v \in Videos : Begin(v)
        <3>1. subtitles' = << >> /\ load'.number = load.number + 1
            BY <2>1 DEF Begin, NewLoad
        <3> QED BY <1>1, <3>1 DEF LegacyOnly
    <2>2. CASE Cancel
        <3>1. subtitles' = << >> /\ load'.phase = "idle"
            BY <2>2, OverIs DEF Cancel, ViewInv, TypeOK
        <3> QED BY <3>1 DEF LegacyOnly
    <2>3. CASE UNCHANGED subtitles
        BY <1>3, <2>3
    <2>4. page.video # None => page.video \in Videos
        BY DEF ViewInv, TypeOK, Page
    <2> QED BY <1>4, <2>1, <2>2, <2>3, <2>4 DEF Visit, ToggleOn, ToggleOff, FindVideo, NavigateFinish, Navigate
<1>5. ASSUME NEW g \in Loads, OnEvent(g)
      PROVE  NoWorse(subtitles, subtitles') /\ LegacyOnly'
    <2>1. UNCHANGED subtitles \/ \E e : TakeCue(e)
        BY <1>5 DEF OnEvent, TakeMeta, TakeDone, TakeError
    <2>2. CASE UNCHANGED subtitles
        BY <1>2, <2>2, SameIsNoWorse DEF LegacyOnly
    <2> QED BY <1>2, <2>1, <2>2, CueIsNoWorse
<1>6. CASE Fall
    <2>1. /\ DOMAIN subtitles' = DOMAIN subtitles
          /\ \A i \in DOMAIN subtitles : subtitles[i].source # "none" => subtitles'[i] = subtitles[i]
          /\ \A i \in DOMAIN subtitles : subtitles'[i] \in Subtitle(0 .. Versions)
          /\ mode = "legacy" => subtitles' = subtitles
        BY <1>6, FallShows
    <2>2. NoWorse(subtitles, subtitles')
        <3>1. \A i \in DOMAIN subtitles :
                  /\ subtitles[i].source \in {"none", "legacy", "document-preview", "document"}
                  /\ subtitles'[i].source \in {"none", "legacy", "document-preview", "document"}
            BY <2>1 DEF ViewInv, TypeOK, Subtitle
        <3> QED BY <2>1, <3>1, Ranks DEF NoWorse
    <2>3. LegacyOnly'
        BY <1>2, <2>1 DEF LegacyOnly
    <2> QED BY <2>2, <2>3
<1>7. CASE LoadStep \/ ConnectionLost
    <2>1. UNCHANGED subtitles
        BY <1>7 DEF LoadStep, TracksFound, NoTracks, BackendUnreachable, CaptionsWaited, SwitchWaited,
            StreamEnds, Retry, Ends, Succeeds, Delays, OpenStream, ConnectionLost
    <2> QED BY <1>3, <2>1
<1>8. (WorkerStep /\ UNCHANGED client) \/ (\E g \in Loads : Serve(g) /\ UNCHANGED client) \/ UNCHANGED vars =>
          UNCHANGED subtitles
    BY DEF client, vars
<1> QED BY <1>3, <1>4, <1>5, <1>6, <1>7, <1>8 DEF Next

\* While a load lasts a better translation is never replaced by a worse one:
\* the document outranks its previews, and those the temporary translations,
\* whatever order their answers come in (subtitles.ts:11).
THEOREM NothingGetsWorse == Spec => NoDowngrade
<1> DEFINE Kept == load'.number = load.number /\ load'.phase # "idle" =>
                       \A i \in DOMAIN subtitles :
                           /\ i \in DOMAIN subtitles'
                           /\ Rank(subtitles'[i].source) >= Rank(subtitles[i].source)
<1>1. Init => LegacyOnly
    BY DEF Init, ClientInit, FallbackInit, LegacyOnly
<1>2. ViewInv /\ LegacyOnly /\ [Next]_vars => LegacyOnly' /\ Kept
    BY StepIsNoWorse DEF NoWorse
<1>3. ViewInv /\ LegacyOnly /\ [Next]_vars => [Kept]_vars
    BY <1>2
<1>4. ViewInv /\ LegacyOnly /\ [Next]_vars => LegacyOnly'
    BY <1>2
<1> HIDE DEF Kept
<1>5. Spec => [][Kept]_vars
    BY <1>1, <1>3, <1>4, ViewHolds, PTL DEF Spec
<1> QED BY <1>5 DEF NoDowngrade, Kept
=============================================================================
