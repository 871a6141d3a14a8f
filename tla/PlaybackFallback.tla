-------------------------- MODULE PlaybackFallback --------------------------
(***************************************************************************)
(* Temporary translations around the playback position, while a document   *)
(* is being translated (extension/src/playback-fallback.ts), and how       *)
(* subtitles of different sources replace each other                       *)
(* (extension/src/subtitles.ts).  Positions are counted in cues: the code  *)
(* takes cues from 10 s before to 45 s after the playback position.  Long  *)
(* texts, which also limit a request, are left out.                        *)
(***************************************************************************)
EXTENDS Integers, FiniteSets

CONSTANTS
    Spoken,         \* positions of the player
    Before, After,  \* the window, in cues
    MaxWindow       \* cues of a request (12 in the code)

ASSUME WindowOK == Spoken \subseteq Nat /\ Before \in Nat /\ After \in Nat /\ MaxWindow \in Nat

VARIABLES
    subtitles,      \* the cues of the current load known so far
    position,
    fallback

-----------------------------------------------------------------------------
(* Subtitles. *)

Untranslated == [text |-> 0, source |-> "none"]
Subtitle(texts) == [text: texts, source: {"none", "legacy", "document-preview", "document"}]

Rank(source) ==
    CASE source = "none" -> 0
      [] source = "legacy" -> 1
      [] source = "document-preview" -> 2
      [] source = "document" -> 3

\* mergeSubtitleEvent: an event without a usable translation changes none,
\* a preview does not replace final text.
Merged(previous, text, source) ==
    IF text = 0 \/ (previous.source = "document" /\ source = "document-preview")
    THEN previous
    ELSE [text |-> text, source |-> source]

Shown(subs, i, text, source) ==
    [j \in DOMAIN subs \cup {i} |->
        IF j # i THEN subs[j]
        ELSE Merged(IF i \in DOMAIN subs THEN subs[i] ELSE Untranslated, text, source)]

Missing(subs) == {i \in DOMAIN subs : subs[i].source = "none"}

-----------------------------------------------------------------------------
(* The fallback. *)

InWindow(i, at) == at - Before <= i /\ i <= at + After

\* `active`: cues of the request in flight; `waiting`: cues that may not be
\* requested again before 30 seconds are over (retryAfter).
Fallback(cues) ==
    [live: BOOLEAN, timer: BOOLEAN, active: SUBSET cues, waiting: SUBSET cues]
Stopped == [live |-> FALSE, timer |-> FALSE, active |-> {}, waiting |-> {}]
Started == [Stopped EXCEPT !.live = TRUE]

\* update(): a request nothing of which is needed any more is dropped, and
\* without a request the next one is prepared.
Updated(f, subs, at) ==
    LET active == IF \E i \in f.active : InWindow(i, at) /\ i \in Missing(subs) THEN f.active ELSE {}
    IN  IF f.live THEN [f EXCEPT !.active = active, !.timer = @ \/ active = {}] ELSE f

\* Current speech first, then what comes, then what has passed.
Sooner(i, j, at) ==
    LET priority(k) == IF k < at THEN 2 ELSE IF k = at THEN 0 ELSE 1
        distance(k) == IF k < at THEN at - k ELSE k - at
    IN  \/ priority(i) < priority(j)
        \/ priority(i) = priority(j) /\ distance(i) < distance(j)

Wanted ==
    LET candidates == {i \in Missing(subtitles) \ fallback.waiting : InWindow(i, position)}
    IN  {i \in candidates :
            Cardinality({j \in candidates : Sooner(j, i, position)}) < MaxWindow}

-----------------------------------------------------------------------------
FallbackInit ==
    /\ subtitles = << >>
    /\ position \in Spoken
    /\ fallback = Stopped

\* The timer fires.
Run ==
    /\ fallback.timer
    /\ IF fallback.active # {}
       THEN fallback' = [fallback EXCEPT !.timer = FALSE]
       ELSE fallback' = [fallback EXCEPT !.timer = FALSE, !.active = Wanted,
                                         !.waiting = @ \cup Wanted]
    /\ UNCHANGED <<subtitles, position>>

\* Mutant: a temporary translation replaces what has arrived in the meantime.
WindowAnsweredLate(rows) ==
    /\ fallback.active # {} /\ rows \subseteq fallback.active
    /\ subtitles' = [i \in DOMAIN subtitles |->
          IF i \in rows THEN [text |-> 1, source |-> "legacy"] ELSE subtitles[i]]
    /\ fallback' = [fallback EXCEPT !.active = {}, !.timer = TRUE, !.waiting = @ \ rows]
    /\ UNCHANGED position

\* The answer translates some of the cues; those that were translated by the
\* document in the meantime keep that.
WindowAnswered(rows) ==
    LET news == rows \cap Missing(subtitles) IN
    /\ fallback.active # {} /\ rows \subseteq fallback.active
    /\ subtitles' = [i \in DOMAIN subtitles |->
          IF i \in news THEN [text |-> 1, source |-> "legacy"] ELSE subtitles[i]]
    /\ fallback' = [fallback EXCEPT !.active = {}, !.timer = TRUE, !.waiting = @ \ news]
    /\ UNCHANGED position

\* A failed request is forgotten: the document goes on without it.
WindowFailed ==
    /\ fallback.active # {}
    /\ fallback' = [fallback EXCEPT !.active = {}, !.timer = TRUE]
    /\ UNCHANGED <<subtitles, position>>

RetryAfter(i) ==
    /\ i \in fallback.waiting
    /\ fallback' = [fallback EXCEPT !.waiting = @ \ {i}]
    /\ UNCHANGED <<subtitles, position>>

\* timeupdate, while playing or after a seek.
Tick(at) ==
    /\ position' = at
    /\ fallback' = Updated(fallback, subtitles, at)
    /\ <<position, fallback>>' # <<position, fallback>>
    /\ UNCHANGED subtitles
=============================================================================
