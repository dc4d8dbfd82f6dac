------------------------------- MODULE PoleSearch -------------------------------
(* extract_pole_for_detection (pipeline.py) with find_pole_bases (pole.py): the search
   for the pole of one detection.  A profile of search bounds is tried in a narrow
   image corridor and, if no good direct pole is there, in an expanded one; when the
   strict profile gives no automatic result, a profile with wider bounds is tried. *)
EXTENDS Naturals, FiniteSets

CONSTANTS
    Axis,               \* the vertical axes that may be fitted near the sign
    Shapes,             \* what the points may tell of an axis
    Nothing,            \* no pole
    Policies,           \* the settings under which it searches
    DirectReach, StrictReach, WideReach, LongReach

ASSUME NothingIsNoAxis == Nothing \notin Axis

\* far: distance from the sign, in metres.  seen: the corridors in which the axis is
\* fitted.  arm: the points between sign and axis are one arm ("weak": only for the
\* wide profile; "gap": none; "tilted": the axis is not upright).  long: it meets the
\* demands on far axes.  shaft: "full" at the preferred completeness, "broken" below
\* the limit for any.  ground: what is seen at the foot of the axis.
ASSUME ShapesAreShapes ==
    Shapes \subseteq [far : Nat, seen : SUBSET {"narrow", "expanded"},
                      arm : {"arm", "weak", "gap", "tilted"}, long : BOOLEAN,
                      dense : BOOLEAN, side : {"left", "right"}, noisy : BOOLEAN,
                      shaft : {"full", "part", "broken"},
                      ground : {"none", "clear", "poor", "hidden", "conflict"}]
\* classified: the points have usable classes.  wider: a wide profile is configured.
ASSUME PoliciesArePolicies ==
    Policies \subseteq [classified : BOOLEAN, requireGround : BOOLEAN, wider : BOOLEAN]
ASSUME ReachesAreOrdered ==
    /\ {DirectReach, StrictReach, WideReach, LongReach} \subseteq Nat
    /\ DirectReach <= StrictReach /\ StrictReach < WideReach

VARIABLES
    policy,
    shape,      \* shape[a]: what is to be seen of axis a
    empty,      \* the profiles without points around the sign
    more,       \* the expanded corridor holds more points
    profile,    \* "strict" or "wide"
    step,       \* next: "narrow", "expanded", "decide", or "done"
    found,      \* the pole found with the profile
    kept,       \* the pole found with the strict profile
    hyps,       \* upright axes without an arm, kept for the other frames
    outcome     \* what is reported

poleVars == <<policy, shape, empty, more, profile, step, found, kept, hyps, outcome>>

Reach(p) == IF p = "strict" THEN StrictReach ELSE WideReach

Direct(a) == shape[a].far <= DirectReach

Armed(p, a) == shape[a].arm = "arm" \/ (p = "wide" /\ shape[a].arm = "weak")

\* The axes fitted in a corridor that are close enough to have their arm examined.
Examined(p, corridor) ==
    {a \in Axis : /\ corridor \in shape[a].seen
                  /\ shape[a].far <= Reach(p)
                  /\ ~Direct(a) /\ ~policy.classified => ~shape[a].noisy}

RejectedHere(p, corridor) ==
    {a \in Examined(p, corridor) :
        ~Direct(a) /\ ~Armed(p, a) /\ shape[a].arm # "tilted"}

\* The completeness of an axis without ground is unknown and counts as none.
Complete(a) == shape[a].ground # "none" /\ shape[a].shaft = "full"

Grounded(a) ==
    IF shape[a].ground = "none" THEN ~policy.requireGround ELSE shape[a].shaft # "broken"

Candidates(p, corridor) ==
    {a \in Examined(p, corridor) :
        /\ Direct(a) \/ Armed(p, a)
        /\ Grounded(a)
        /\ ~Direct(a) /\ ~policy.classified => Complete(a)
        /\ shape[a].far > LongReach => shape[a].long}

StatusOf(a) ==
    IF /\ shape[a].ground = "clear" /\ Complete(a)
       /\ Direct(a) /\ ~policy.classified => ~shape[a].noisy
    THEN "AUTO" ELSE "REVIEW"

(* pole_candidate_rank_key, pole_cross_profile_candidate_key, select_pole_candidate. *)

Worse(b) == IF b THEN 1 ELSE 0

\* Complete axes first, direct ones before remote ones.
Rank(a) == 2 * Worse(~Complete(a)) + Worse(~Direct(a))

\* Across profiles the ground and the status come before the distance.
CrossRank(a) ==
    8 * Worse(~Complete(a)) + 4 * Worse(shape[a].ground = "none")
      + 2 * Worse(StatusOf(a) = "REVIEW") + Worse(~Direct(a))

\* The best of a tier: a score decides between direct axes; among remote ones the
\* quality outweighs at most a metre of distance.
Best(tier) ==
    {a \in tier : \A b \in tier : Direct(a) \/ shape[a].far <= shape[b].far + 1}

\* A remote axis as near as the nearest, on the other side and with far more points
\* on its arm, may go before the best one.
Flip(tier, a) ==
    {b \in tier : /\ ~Direct(a)
                  /\ \A c \in tier : shape[b].far <= shape[c].far
                  /\ shape[b].side # shape[a].side
                  /\ shape[b].dense /\ ~shape[a].dense}

Chosen(tier) == UNION {{a} \cup Flip(tier, a) : a \in Best(tier)}

\* select_pole_candidate and select_cross_profile_pole_candidate.
Select(S) == Chosen({a \in S : \A b \in S : Rank(a) <= Rank(b)})
SelectAcross(S) == Chosen({a \in S : \A b \in S : CrossRank(a) <= CrossRank(b)})

\* The pole that a search of a corridor finds.
Finds(p, corridor) ==
    IF Candidates(p, corridor) = {} THEN {Nothing} ELSE Select(Candidates(p, corridor))

-------------------------------------------------------------------------------
NotYet == [found |-> FALSE, axis |-> Nothing, status |-> "NONE", wide |-> FALSE]

PoleInit ==
    /\ policy \in Policies
    /\ shape \in [Axis -> Shapes]
    /\ empty \in {{}, {"strict"}, {"strict", "wide"}}
    /\ more \in BOOLEAN
    /\ \A a \in Axis : "expanded" \in shape[a].seen => more \/ "narrow" \in shape[a].seen
    /\ profile = "strict" /\ step = "narrow"
    /\ found = Nothing /\ kept = Nothing /\ hyps = {} /\ outcome = NotYet

\* load_and_search: without points there is no search.
SearchNothing ==
    /\ step = "narrow" /\ profile \in empty
    /\ step' = "decide"
    /\ UNCHANGED <<policy, shape, empty, more, profile, found, kept, hyps, outcome>>

GoodEnough(a) ==
    a # Nothing /\ Direct(a) /\ Complete(a) /\ shape[a].ground # "conflict"

\* find_pole_bases_with_corridor_fallback, the corridor of the sign.
SearchNarrow ==
    /\ step = "narrow" /\ profile \notin empty
    /\ found' \in Finds(profile, "narrow")
    /\ hyps' = hyps \cup RejectedHere(profile, "narrow")
    /\ step' = IF ~GoodEnough(found') /\ more THEN "expanded" ELSE "decide"
    /\ UNCHANGED <<policy, shape, empty, more, profile, kept, outcome>>

\* The corridor of remote supports; its pole competes with the one found before.
SearchExpanded ==
    /\ step = "expanded"
    /\ \E a \in Finds(profile, "expanded") :
          found' \in IF {a, found} \subseteq Axis THEN Select({a, found})
                     ELSE IF a = Nothing THEN {found} ELSE {a}
    /\ hyps' = hyps \cup RejectedHere(profile, "expanded")
    /\ step' = "decide"
    /\ UNCHANGED <<policy, shape, empty, more, profile, kept, outcome>>

Automatic(a) == a # Nothing /\ StatusOf(a) = "AUTO"

\* The strict profile did not find an automatic pole: widen the bounds once.
Widen ==
    /\ step = "decide" /\ profile = "strict"
    /\ policy.wider /\ ~Automatic(found)
    /\ profile' = "wide" /\ step' = "narrow"
    /\ kept' = found /\ found' = Nothing
    /\ UNCHANGED <<policy, shape, empty, more, hyps, outcome>>

\* Mutant of Report: the status of a pole found with wide bounds is its own.
ReportUnreviewed(a, wide) ==
    [found |-> TRUE, axis |-> a, status |-> StatusOf(a), wide |-> wide]

Report(a, wide) ==
    [found |-> TRUE, axis |-> a, wide |-> wide,
     status |-> IF wide THEN "REVIEW" ELSE StatusOf(a)]

\* A pole found with the wide profile is for review, and it is reported when there
\* was none or when it ranks before the one found with the strict profile.
Conclude ==
    /\ step = "decide"
    /\ profile = "strict" => Automatic(found) \/ ~policy.wider
    /\ step' = "done"
    /\ \/ /\ profile = "strict"
          /\ outcome' = IF found = Nothing THEN outcome ELSE Report(found, FALSE)
       \/ /\ profile = "wide" /\ kept = Nothing
          /\ outcome' = IF found = Nothing THEN outcome ELSE Report(found, TRUE)
       \/ /\ profile = "wide" /\ kept # Nothing
          /\ \E a \in IF found = Nothing THEN {kept} ELSE SelectAcross({kept, found}),
                wide \in BOOLEAN :
                /\ a = IF wide THEN found ELSE kept
                /\ outcome' = Report(a, wide)
    /\ UNCHANGED <<policy, shape, empty, more, profile, found, kept, hyps>>

PoleNext == SearchNothing \/ SearchNarrow \/ SearchExpanded \/ Widen \/ Conclude

PoleSpec == PoleInit /\ [][PoleNext]_poleVars

-------------------------------------------------------------------------------
SearchEnded == step = "done"

\* The axes that a profile could have accepted.
Acceptable(p) ==
    IF p \in empty THEN {}
    ELSE Candidates(p, "narrow") \cup IF more THEN Candidates(p, "expanded") ELSE {}

StrictCandidates == Acceptable("strict")

\* An automatic pole stands whole on ground that is seen, and it touches the sign or
\* is tied to it by an arm, within the strict bounds.
AutoIsProven ==
    outcome.status = "AUTO" =>
        LET s == shape[outcome.axis] IN
        /\ s.shaft = "full" /\ s.ground = "clear" /\ (~policy.classified => ~s.noisy)
        /\ s.far <= StrictReach
        /\ s.far <= DirectReach \/ s.arm = "arm"

\* The wide profile never replaces an automatic pole or a whole one by a partial one.
WidenedWithCare ==
    outcome.wide =>
        /\ outcome.status = "REVIEW" /\ ~Automatic(kept)
        /\ kept # Nothing /\ Complete(kept) => Complete(outcome.axis)

\* The strict result is of the best kind that either corridor offers, and a remote
\* pole is not taken from behind a much nearer one of the same kind.
NoBetterStrict ==
    SearchEnded /\ outcome.found /\ ~outcome.wide =>
        \A b \in StrictCandidates :
            /\ Rank(outcome.axis) <= Rank(b)
            /\ ~Direct(outcome.axis) /\ Rank(outcome.axis) = Rank(b) =>
                  shape[outcome.axis].far <= shape[b].far + 2

\* No pole is reported only if no search could accept one.
NothingMissed ==
    SearchEnded /\ ~outcome.found =>
        /\ StrictCandidates = {}
        /\ policy.wider /\ "wide" \notin empty =>
              /\ Candidates("wide", "narrow") = {}
              /\ more => Candidates("wide", "expanded") = {}

\* What is kept for other frames was not accepted here with the same bounds.
HypothesesRejected ==
    /\ \A h \in hyps : ~Direct(h) /\ shape[h].arm \in {"weak", "gap"}
    /\ SearchEnded /\ outcome.axis \in hyps => outcome.wide

\* The search reports a pole when there is one, the best one, and as no better than
\* it is (extract_pole_for_detection).
SearchSound ==
    AutoIsProven /\ WidenedWithCare /\ NoBetterStrict /\ NothingMissed /\ HypothesesRejected

-------------------------------------------------------------------------------
(* The inductive invariant behind SearchSound. *)

PoleType ==
    /\ policy \in Policies /\ shape \in [Axis -> Shapes]
    /\ empty \subseteq {"strict", "wide"} /\ more \in BOOLEAN
    /\ profile \in {"strict", "wide"} /\ step \in {"narrow", "expanded", "decide", "done"}
    /\ found \in Axis \cup {Nothing} /\ kept \in Axis \cup {Nothing}

\* a is what was to be had of S: nothing only of nothing, and nothing in S is of a
\* better kind or, when a is remote, of its kind and nearer by more than the slack.
BestOf(a, S, slack) ==
    IF a = Nothing THEN S = {}
    ELSE /\ a \in S
         /\ \A b \in S :
                /\ Rank(a) <= Rank(b)
                /\ ~Direct(a) /\ Rank(a) = Rank(b) => shape[a].far <= shape[b].far + slack

\* What the profile in use has found, by the corridors it has searched.
ProgressInv ==
    /\ step = "narrow" => found = Nothing
    /\ step = "expanded" =>
          profile \notin empty /\ more /\ BestOf(found, Candidates(profile, "narrow"), 1)
    /\ step \in {"decide", "done"} => BestOf(found, Acceptable(profile), 2)

\* The wide profile is tried after the strict one, which found no automatic pole.
ProfileInv ==
    /\ profile = "strict" => kept = Nothing
    /\ profile = "wide" =>
          policy.wider /\ ~Automatic(kept) /\ BestOf(kept, Acceptable("strict"), 2)

\* What is reported is the pole of one of the profiles.
OutcomeInv ==
    /\ step # "done" => outcome = NotYet
    /\ step = "done" =>
          \/ /\ outcome = NotYet /\ found = Nothing /\ kept = Nothing
             /\ profile = "wide" \/ ~policy.wider
          \/ /\ outcome = Report(found, TRUE) /\ found # Nothing /\ profile = "wide"
             /\ kept # Nothing => CrossRank(found) <= CrossRank(kept)
          \/ /\ outcome = Report(found, FALSE) /\ found # Nothing /\ profile = "strict"
          \/ /\ outcome = Report(kept, FALSE) /\ kept # Nothing /\ profile = "wide"

HypsInv ==
    \A h \in hyps : h \in Axis /\ ~Direct(h) /\ shape[h].arm \in {"weak", "gap"}

SearchInv == PoleType /\ ProgressInv /\ ProfileInv /\ OutcomeInv /\ HypsInv
===============================================================================
