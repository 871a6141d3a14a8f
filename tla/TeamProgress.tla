---------------------------- MODULE TeamProgress ----------------------------
(***************************************************************************)
(* The evidence the main agent's reviews leave (worker/team-progress.ts):  *)
(* half-open intervals of cue positions, extended by every page that is    *)
(* read or confirmed and cut by every correction.  `marked` says which     *)
(* positions the intervals ought to stand for; module TranslationTeam      *)
(* works with that set.                                                    *)
(***************************************************************************)
EXTENDS Integers, FiniteSets, SequencesExt

CONSTANT Length      \* cues of the document

ASSUME LengthOK == Length \in Nat \ {0}

Cues == 0 .. Length - 1
Ranges == Seq((0 .. Length) \X (0 .. Length))

VARIABLES ranges, marked
evidence == <<ranges, marked>>

-----------------------------------------------------------------------------
(* The algorithms. *)

Starts(range) == range[1]
Ends(range) == range[2]

Overlap(last, range) == Starts(range) <= Ends(last)

\* Sort by start, then fold each interval into the last one it meets.
MergeNext(merged, range) ==
    IF merged # << >> /\ Overlap(Last(merged), range)
    THEN Front(merged) \o << <<Starts(Last(merged)), Max({Ends(Last(merged)), Ends(range)})>> >>
    ELSE Append(merged, range)

\* Ordered by start; the sort is stable: what starts together keeps its order.
Precedes(rs, j, i) ==
    Starts(rs[j]) < Starts(rs[i]) \/ (Starts(rs[j]) = Starts(rs[i]) /\ j <= i)
Place(rs, i) == Cardinality({j \in DOMAIN rs : Precedes(rs, j, i)})
ByStart(rs) == [k \in DOMAIN rs |-> rs[CHOOSE i \in DOMAIN rs : Place(rs, i) = k]]

AddRange(rs, start, end) ==
    IF end <= start THEN rs
    ELSE FoldLeft(MergeNext, << >>, ByStart(Append(rs, <<start, end>>)))

RangeCount(rs) == FoldLeft(LAMBDA n, range : n + Ends(range) - Starts(range), 0, rs)

\* The position to go on from; Length stands for the code's null.
NextUnread(rs) ==
    LET offset == IF rs # << >> /\ Starts(Head(rs)) = 0 THEN Ends(Head(rs)) ELSE 0
    IN  IF offset < Length THEN offset ELSE Length

\* Mutant: a changed position ends its interval instead of splitting it.
PiecesFront(range, changed) ==
    LET hit == {i \in Starts(range) .. Ends(range) - 1 : i \in changed}
        end == IF hit = {} THEN Ends(range) ELSE Min(hit)
    IN  IF Starts(range) < end THEN << <<Starts(range), end>> >> ELSE << >>

\* What is left of an interval around the changed positions: `from` moves
\* behind each of them, and a piece is kept when there is something before it.
Pieces(range, changed) ==
    LET Cut(acc, i) ==
            IF i \notin changed THEN acc
            ELSE [from |-> i + 1,
                  kept |-> IF acc.from < i THEN Append(acc.kept, <<acc.from, i>>) ELSE acc.kept]
        cut == FoldLeft(Cut, [from |-> Starts(range), kept |-> << >>],
                        [k \in 1 .. Ends(range) - Starts(range) |-> Starts(range) + k - 1])
    IN  IF cut.from < Ends(range) THEN Append(cut.kept, <<cut.from, Ends(range)>>) ELSE cut.kept

Without(rs, changed) == FoldLeft(LAMBDA acc, range : acc \o Pieces(range, changed), << >>, rs)

-----------------------------------------------------------------------------
NoEvidence ==
    /\ ranges = << >>
    /\ marked = {}

\* A page was read or confirmed.
Mark(start, end) ==
    /\ ranges' = AddRange(ranges, start, end)
    /\ marked' = marked \cup {i \in Cues : start <= i /\ i < end}

\* A correction changed the text of some cues.
Invalidate(changed) ==
    /\ ranges' = Without(ranges, changed)
    /\ marked' = marked \ changed

EvidenceStep ==
    \/ \E start, end \in 0 .. Length : Mark(start, end)
    \/ \E changed \in SUBSET Cues : Invalidate(changed)

EvidenceSpec == NoEvidence /\ [][EvidenceStep]_evidence

-----------------------------------------------------------------------------
(* Properties. *)

\* The intervals stand for exactly the positions they were told about, for
\* every order of pages and corrections (team-progress.ts:34, :49).
Denotes ==
    /\ ranges \in Ranges
    /\ marked = UNION {Starts(ranges[k]) .. Ends(ranges[k]) - 1 : k \in DOMAIN ranges}
    /\ RangeCount(ranges) = Cardinality(marked)

\* Neighbours are merged, so that a page which was read in pieces lies in one
\* interval: record_review looks for one (team-progress.ts:81).
PagesInOneRange ==
    \A start \in marked, end \in 1 .. Length :
        /\ start < end
        /\ start .. end - 1 \subseteq marked
        => \E k \in DOMAIN ranges : Starts(ranges[k]) <= start /\ end <= Ends(ranges[k])

\* The resumed review goes on at the first position that is not confirmed
\* (team-progress.ts:45, "resume from next_review_offset").
ResumesAtFirstGap ==
    NextUnread(ranges) = Min((Cues \ marked) \cup {Length})

\* The evidence of a review says what was reviewed, in the form its readers
\* rely on, whatever was read, confirmed and corrected in whatever order.
EvidenceKept == Denotes /\ PagesInOneRange /\ ResumesAtFirstGap
=============================================================================
