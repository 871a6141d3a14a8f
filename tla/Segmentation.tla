----------------------------- MODULE Segmentation -----------------------------
(***************************************************************************)
(* How the timed text of a track becomes cues: prepareTimedTextEvents      *)
(* flattens it, formatSubtitles groups it by rules or, in languages        *)
(* without spaces, into lines, and intelligentSentenceBreak builds         *)
(* sentences.  The text of a segment is its kind and its place in the      *)
(* track.  Which gaps the statistics score high is left open: every choice *)
(* is explored.  Commas, opening brackets and words that often follow a    *)
(* pause break groups like stops and lengths do, and are left out.         *)
(***************************************************************************)
EXTENDS Integers, Sequences, SequencesExt

CONSTANTS
    MaxSegments,
    Leads, Lasts,         \* from one start to the next, and how long a segment lasts
    Pause,                \* a pause that ends a group
    MaxGroup, MaxWords,   \* duration and words of a group
    LongText,             \* words of a group that is grouped again
    MaxLine,              \* segments of a line
    MergeGap, MaxSentence, MinWords, MinSentence, ForcedWords, MostWords   \* of a sentence

\* Starts do not go back, and a segment lasts.
ASSUME SegmentsOK == Leads \subseteq Nat /\ Lasts \subseteq Nat \ {0} /\ MaxSentence \in Nat \ {0}

VARIABLES style, transcript

segmentVars == <<style, transcript>>

SegmentInit == style = "none" /\ transcript = << >>

(* Segments of a track may overlap in time, or start together.  So may the words
   of the statistical style, which are taken from the raw track: the last word of
   a rolling caption lasts as long as the caption is shown. *)
Kinds == [rule |-> {"word", "stop", "noise"}, lines |-> {"word", "stop"},
          statistical |-> {"word", "stop", "arrow"}]
NextStart(lead) == IF transcript = << >> THEN 0 ELSE Last(transcript).start + lead
AddSegment(s, lead, last, kind, high) ==
    /\ style \in {"none", s} /\ Len(transcript) < MaxSegments
    /\ high => s = "statistical" /\ transcript # << >>
    /\ style' = s
    /\ transcript' = Append(transcript,
          [place |-> Len(transcript) + 1, start |-> NextStart(lead), end |-> NextStart(lead) + last,
           kind |-> kind, high |-> high])
SegmentStep ==
    \E s \in DOMAIN Kinds, lead \in Leads, last \in Lasts, high \in BOOLEAN : \E kind \in Kinds[s] :
        AddSegment(s, lead, last, kind, high)

SegmentSpec == SegmentInit /\ [][SegmentStep]_segmentVars

Lesser(m, n) == IF m < n THEN m ELSE n
Greater(m, n) == IF m > n THEN m ELSE n

---------------------------------------------------------------------------
\* prepareTimedTextEvents.  A segment is held until the next one starts, which
\* cuts it short; one that is left without a duration is dropped.
FlushBuffer(st, at) ==
    IF st.buffer = << >> THEN st
    ELSE LET held == [st.buffer[1] EXCEPT !.end = Lesser(@, at)] IN
         [flat |-> IF held.end > held.start THEN Append(st.flat, held) ELSE st.flat, buffer |-> << >>]
PrepareSegment(st, segment) ==
    LET flushed == FlushBuffer(st, segment.start) IN
    IF segment.kind = "noise" THEN flushed ELSE [flushed EXCEPT !.buffer = <<segment>>]
Flattened(segments) ==
    LET st == FoldLeft(PrepareSegment, [flat |-> << >>, buffer |-> << >>], segments) IN
    FlushBuffer(st, IF st.buffer = << >> THEN 0 ELSE st.buffer[1].end).flat

---------------------------------------------------------------------------
\* formatSubtitles: processSubtitles groups what follows in time, and the
\* segments that start within a long group are grouped again, also by length.
BreaksBefore(group, segment, usePause) ==
    \/ Last(group).kind = "stop"
    \/ segment.start > Last(group).end + Pause
    \/ segment.start >= group[1].start + MaxGroup
    \/ usePause /\ Len(group) >= MaxWords
PlaceNext(groups, segment, usePause) ==
    IF groups = << >> \/ BreaksBefore(Last(groups), segment, usePause)
    THEN Append(groups, <<segment>>)
    ELSE [groups EXCEPT ![Len(groups)] = Append(@, segment)]
Grouped(segments, usePause) ==
    FoldLeft(LAMBDA groups, segment : PlaceNext(groups, segment, usePause), << >>, segments)

\* The segments that are in a set, in their order.
Chosen(segments, set) ==
    FoldLeft(LAMBDA chosen, e : IF e \in set THEN Append(chosen, e) ELSE chosen, << >>, segments)

(* Mutant: the end is included. *)
StartsWithinLate(segments, group) ==
    Chosen(segments, {e \in ToSet(segments) : e.start >= group[1].start /\ e.start <= Last(group).end})

StartsWithin(segments, group) ==
    Chosen(segments, {e \in ToSet(segments) : e.start >= group[1].start /\ e.start < Last(group).end})

FormatSubtitles(segments) ==
    LET Again(group) ==
            LET within == StartsWithin(segments, group) IN
            IF Len(group) > LongText /\ Len(within) > 1 THEN Grouped(within, TRUE) ELSE <<group>>
        groups == Grouped(segments, FALSE)
    IN FlattenSeq([g \in DOMAIN groups |-> Again(groups[g])])

(* A pause ends the line before the segment is added, a stop or the length after. *)
LineNext(st, segment) ==
    LET paused == st.open # << >> /\ segment.start > Last(st.open).end + Pause
        whole == IF paused THEN Append(st.whole, st.open) ELSE st.whole
        open == Append(IF paused THEN << >> ELSE st.open, segment)
    IN IF segment.kind = "stop" \/ Len(open) >= MaxLine
       THEN [whole |-> Append(whole, open), open |-> << >>]
       ELSE [whole |-> whole, open |-> open]
Lines(segments) ==
    LET st == FoldLeft(LineNext, [whole |-> << >>, open |-> << >>], segments)
    IN IF st.open = << >> THEN st.whole ELSE Append(st.whole, st.open)

---------------------------------------------------------------------------
\* intelligentSentenceBreak.  A boundary i lies between the words i and i + 1.
\* A sentence that gets too long is broken at the best gap since its start.
BoundaryNext(words, st, i) ==
    LET score == IF words[i + 1].high THEN 1 ELSE 0
        duration == words[i + 1].end - words[st.from].start
        count == i - st.from + 2
        arrow == words[i + 1].kind = "arrow" /\ duration >= MinSentence /\ count >= MinWords
        stop == /\ words[i].kind = "stop" /\ count >= ForcedWords /\ duration >= MinSentence
                /\ Len(words) - i >= MinWords
        better == score > st.score /\ words[i].end - words[st.from].start >= MinSentence
        best == IF better THEN i ELSE st.best
        good == /\ words[i + 1].high /\ count >= MinWords
                /\ words[i].kind = "stop" => count >= ForcedWords
        at == IF arrow \/ stop THEN i
              ELSE IF duration >= MaxSentence \/ count >= MostWords THEN (IF best > 0 THEN best ELSE i)
              ELSE IF good THEN i ELSE 0
    IN IF at > 0 THEN [from |-> at + 1, best |-> 0, score |-> -1, found |-> Append(st.found, at)]
       ELSE [st EXCEPT !.best = best, !.score = IF better THEN score ELSE @]
FindBoundaries(words) ==
    FoldLeft(LAMBDA st, i : BoundaryNext(words, st, i), [from |-> 1, best |-> 0, score |-> -1, found |-> << >>],
             [i \in 1 .. Len(words) - 1 |-> i]).found

(* The sentence before the last boundary may take in what follows, up to b. *)
MayMerge(words, merged, gap, b, until) ==
    /\ merged # << >> /\ words[b + 1].kind # "arrow" /\ gap <= MergeGap
    /\ LET from == IF Len(merged) >= 2 THEN merged[Len(merged) - 1] ELSE 0 IN
       words[until].end - words[from + 1].start <= MaxSentence
LastOf(merged) == IF merged = << >> THEN 0 ELSE Last(merged)
MergeBoundary(words, merged, b) ==
    LET before == LastOf(merged)
        gap == IF before > 0 THEN words[b + 1].start - words[before].end ELSE 0
    IN IF b - before < MinWords /\ MayMerge(words, merged, gap, b, b) THEN Front(merged) ELSE Append(merged, b)
MergeShortSentences(words, boundaries) ==
    LET merged == FoldLeft(LAMBDA merged, b : MergeBoundary(words, merged, b), << >>, boundaries)
        b == LastOf(merged)
    IN IF /\ Len(words) - b < MinWords /\ b > 0
          /\ MayMerge(words, merged, words[b + 1].start - words[b].end, b, Len(words))
       THEN Front(merged) ELSE merged

(* A sentence that lasts too long is cut into parts, of the words within its
   time: a word of the sentence that ends after it is left out, and words of its
   neighbours that are within its time are taken in. *)
Sentences(words, boundaries) ==
    LET points == <<0>> \o boundaries \o <<Len(words)>> IN
    [k \in 1 .. Len(points) - 1 |-> SubSeq(words, points[k] + 1, points[k + 1])]
SplitLong(words, sentence) ==
    LET from == sentence[1].start
        to == Last(sentence).end
        within == Chosen(words, {w \in ToSet(words) : w.start >= from /\ w.end <= to})
        n == Len(within)
        parts == Greater(1, (2 * (to - from) + MaxSentence) \div (2 * MaxSentence))
        perPart == Greater(1, n \div parts)
    IN IF to - from <= MaxSentence \/ n <= 1 THEN <<sentence>>
       ELSE [j \in 1 .. (n + perPart - 1) \div perPart |-> SubSeq(within, (j - 1) * perPart + 1, Lesser(n, j * perPart))]
BuildSentences(words, boundaries) ==
    LET sentences == Sentences(words, boundaries) IN
    FlattenSeq([k \in DOMAIN sentences |-> SplitLong(words, sentences[k])])

CueWords ==
    CASE style = "none" -> << >>
      [] style = "rule" -> FormatSubtitles(Flattened(transcript))
      [] style = "lines" -> Lines(Flattened(transcript))
      [] style = "statistical" -> BuildSentences(transcript, MergeShortSentences(transcript, FindBoundaries(transcript)))

(* A cue lasts from the start of its first word to the end of its last one.  One
   that would overlap the next cue ends with the start of that one. *)
TimedCue(words) == [start |-> words[1].start, end |-> Last(words).end]
FixOverlaps(cues) ==
    [k \in DOMAIN cues |->
        IF k < Len(cues) THEN [cues[k] EXCEPT !.end = Lesser(@, cues[k + 1].start)] ELSE cues[k]]
TimedCues ==
    LET texts == CueWords
        cues == [k \in DOMAIN texts |-> TimedCue(texts[k])]
    IN IF style = "statistical" THEN FixOverlaps(cues) ELSE cues

---------------------------------------------------------------------------
(* By rules and in lines, what the track says is in the cues: every spoken
   segment that starts before the one after it is in one cue, in the order of the
   track, whatever is grouped and grouped again, and none starts before the one in
   front of it is over. *)
Heard == {k \in DOMAIN transcript :
             /\ transcript[k].kind # "noise"
             /\ k < Len(transcript) => transcript[k + 1].start > transcript[k].start}
AllHeard ==
    LET all == FlattenSeq(CueWords) IN
    /\ {all[k].place : k \in DOMAIN all} = Heard
    /\ \A k \in 1 .. Len(all) - 1 : all[k].place < all[k + 1].place /\ all[k].end <= all[k + 1].start

(* By statistics, a word is left out only when a later one ends before it, and
   said again or out of order only when one in front of it lasts as long, or a
   later one starts with it: words that follow each other in time are each in one
   cue, in their order.  Whatever is left out or repeated, no cue starts before
   the one in front of it is over. *)
Outlasting(k) == \E j \in DOMAIN transcript : k < j /\ transcript[j].end < transcript[k].end
Shadowed(k) ==
    \E j \in DOMAIN transcript :
        \/ j < k /\ transcript[j].end >= transcript[k].end
        \/ k < j /\ transcript[j].start = transcript[k].start
AllSaid ==
    LET all == FlattenSeq(CueWords)
        cues == TimedCues
    IN
    /\ \A k \in DOMAIN transcript : Outlasting(k) \/ \E i \in DOMAIN all : all[i].place = k
    /\ \A i, j \in DOMAIN all :
           i < j /\ ~Shadowed(all[i].place) /\ ~Shadowed(all[j].place) => all[i].place < all[j].place
    /\ \A k \in 1 .. Len(cues) - 1 : cues[k].end <= cues[k + 1].start

\* What the track says is in the cues, whichever way it is segmented.
TextKept == IF style = "statistical" THEN AllSaid ELSE AllHeard
=============================================================================
