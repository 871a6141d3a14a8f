------------------------------ MODULE Dispatch ------------------------------
(***************************************************************************)
(* The pure part of a dispatch (worker/translation-team.ts:24-61,142-157): *)
(* the opening that is proportional to the length of the video, the        *)
(* dispatch the host suggests, and the check every dispatch has to pass.   *)
(* A document grows cue by cue and a plan section by section, so that TLC  *)
(* visits every small document and every small plan.  A cue is its end     *)
(* time and whether a sentence or a pause ends there.                      *)
(***************************************************************************)
EXTENDS Integers, FiniteSets, SequencesExt, Coverage

CONSTANTS
    MaxSubagents,   \* children besides the opening (9 in the code)
    PerAgent,       \* cues that justify one more child (160)
    Window,         \* how far a boundary may move to a sentence end (6)
    SmallOpening,   \* an opening of so many cues is always allowed (30)
    EndTimes,       \* bound: end times of cues
    MaxCues,        \* bound: cues of a document
    MaxPlanned,     \* bound: cues of a document plans are made for
    MaxPlan         \* bound: sections of a plan

\* Neighbouring boundaries are further apart than they may move.
ASSUME DispatchOK ==
    /\ MaxSubagents \in Nat \ {0} /\ PerAgent \in Nat /\ Window \in Nat
    /\ PerAgent >= 2 * (Window + 1)
    /\ SmallOpening \in Nat \ {0}
    /\ EndTimes \subseteq Nat \ {0}
    /\ MaxCues \in Nat \ {0} /\ MaxPlanned \in Nat /\ MaxPlan \in Nat

VARIABLES doc, stream, plan
dispatch == <<doc, stream, plan>>

Total == Len(doc)
Positions == 0 .. Total - 1
Cue(i) == doc[i + 1]

\* Math.round(a / b) for naturals.
Rounded(a, b) == (2 * a + b) \div (2 * b)
CeilDiv(a, b) == (a + b - 1) \div b
Least(a, b) == IF a < b THEN a ELSE b
Most(a, b) == IF a < b THEN b ELSE a

-----------------------------------------------------------------------------
(* The opening. *)

Duration == Max({Cue(i).end : i \in Positions})
Target == Rounded(Duration, 6)

\* The first cue that ends at num/den of the target or later.
At(num, den) ==
    LET late == {i \in Positions : den * Cue(i).end >= num * Target}
    IN  IF late = {} THEN Total - 1 ELSE Min(late)

Small == Least(Total, SmallOpening) - 1
OpeningMin == LET lower == At(3, 4) IN IF lower < SmallOpening THEN 0 ELSE lower
OpeningMax == Most(At(3, 2), Small)

\* Mutant: the small opening ignores how far an opening may reach.
SuggestedFar == Most(At(1, 1), Least(Total, SmallOpening))

SuggestedOpening == Least(OpeningMax, Most(At(1, 1), Small))

-----------------------------------------------------------------------------
(* The suggested dispatch. *)

OpeningEnd == IF stream THEN SuggestedOpening ELSE -1
Start == OpeningEnd + 1
Remaining == Total - Start
Count == Least(MaxSubagents, CeilDiv(Remaining, PerAgent))

\* Where the i-th of Count sections should end, i from 1.
Even(i) == Start + Rounded(Remaining * i, Count) - 1

\* Positions near the even boundary, at a sentence end or a pause, that leave
\* a cue for every later section.
Candidates(i, cursor) ==
    {n \in Even(i) - Window .. Even(i) + Window : cursor <= n /\ n < Total - (Count - i)}

Distance(n, i) == IF n < Even(i) THEN Even(i) - n ELSE n - Even(i)

\* The nearest of them; of two at the same distance, the earlier.
Boundary(i, cursor) ==
    LET breaks == {n \in Candidates(i, cursor) : Cue(n).break}
        nearest == {n \in breaks : \A m \in breaks : Distance(n, i) <= Distance(m, i)}
    IN  IF i = Count \/ breaks = {} THEN Even(i) ELSE Min(nearest)

Suggestion ==
    LET Extend(acc, i) ==
            LET end == Boundary(i, acc.cursor)
            IN  [cursor |-> end + 1, sections |-> Append(acc.sections, <<acc.cursor, end>>)]
    IN  FoldLeft(Extend, [cursor |-> Start, sections |-> << >>],
                 [i \in 1 .. Count |-> i]).sections

-----------------------------------------------------------------------------
(* The check of a dispatch. *)

Refused == -1

\* The cursor after a section, if it may follow.
Walk(cursor, section) ==
    IF section[1] # cursor \/ section[2] < cursor THEN Refused ELSE section[2] + 1

Accepted(sections) ==
    sections # << >> /\ FoldLeft(Walk, 0, sections) = Total

-----------------------------------------------------------------------------
NoDocument ==
    /\ doc = << >>
    /\ stream \in BOOLEAN
    /\ plan = << >>

AddCue ==
    /\ Total < MaxCues /\ plan = << >>
    /\ \E end \in EndTimes, break \in BOOLEAN : doc' = Append(doc, [end |-> end, break |-> break])
    /\ UNCHANGED <<stream, plan>>

\* What is checked of a plan is where its sections lie, not what cues are like:
\* one document of every length will do.
AddSection ==
    /\ doc # << >> /\ Total <= MaxPlanned /\ Len(plan) < MaxPlan
    /\ \A i \in Positions : Cue(i) = Cue(0) /\ Cue(i).break
    /\ \E first, last \in Positions : plan' = Append(plan, <<first, last>>)
    /\ UNCHANGED <<doc, stream>>

DispatchStep == AddCue \/ AddSection

DispatchSpec == NoDocument /\ [][DispatchStep]_dispatch

-----------------------------------------------------------------------------
(* Properties. *)

\* "dispatch_suggestion with complete valid coverage" (translation-team.ts:94):
\* for every document the suggested dispatch passes the host's own check, the
\* range of the opening included.
SuggestionIsAccepted ==
    doc # << >> =>
        LET sections == (IF stream THEN << <<0, OpeningEnd>> >> ELSE << >>) \o Suggestion IN
        /\ stream => OpeningEnd \in OpeningMin .. OpeningMax
        /\ Len(Suggestion) <= MaxSubagents
        /\ Accepted(sections)

\* The cursor accepts a plan exactly if its sections cover the source.
CursorIsCoverage == doc # << >> => (Accepted(plan) <=> Covers(plan, Total))

\* The suggestion and the check agree with each other and with coverage.
DispatchSound == SuggestionIsAccepted /\ CursorIsCoverage
=============================================================================
