------------------------------ MODULE ScoringV2 ------------------------------
(***************************************************************************)
(* deterministic-v2: five weighted components of a CV's text against the   *)
(* text of a target role.  A text is what the scorer reads in it: the      *)
(* words of its vocabularies, the numbers that stand before "years", and   *)
(* the four signals of the ATS component.  A target role's text is fixed   *)
(* when the role is created; the CV gets versions with more in them.       *)
(***************************************************************************)
EXTENDS Integers, FiniteSets, FiniteSetsExt, Rounding

CONSTANTS
    SkillWords,     \* words of SKILL_VOCABULARY
    OtherKeywords,  \* words of KEYWORD_VOCABULARY that are not skills
    Degrees,        \* keys of DEGREE_RANK
    Years           \* numbers of years that are written about

AllDegrees == {"associate", "bachelor", "master", "doctorate"}
DegreeRank(d) ==
    CASE d = "associate" -> 1 [] d = "bachelor" -> 2 [] d = "master" -> 3 [] d = "doctorate" -> 4

ASSUME DegreesAssumption == Degrees \subseteq AllDegrees
ASSUME YearsAssumption == Years \subseteq 0 .. 99
\* The source has 25 skills and 10 other keywords.  Past 200 words a score of 100
\* could hide a gap.
ASSUME VocabularyAssumption ==
    /\ IsFiniteSet(SkillWords \cup OtherKeywords)
    /\ Cardinality(SkillWords \cup OtherKeywords) <= 200

VARIABLES cvText, jobText

v2vars == <<cvText, jobText>>

Words == SkillWords \cup OtherKeywords \cup Degrees
Signals == {"contact", "experience", "education", "skills"}
Unwritten == [words |-> {}, years |-> {}, signals |-> {}]

V2Init == cvText = Unwritten /\ jobText = Unwritten

\* The signals of a target role's text are not looked at.
Describe ==
    /\ jobText = Unwritten /\ cvText = Unwritten
    /\ jobText' \in [words : SUBSET Words, years : SUBSET Years, signals : {{}}]
    /\ UNCHANGED cvText

Elaborate ==
    /\ \/ \E w \in Words : cvText' = [cvText EXCEPT !.words = @ \cup {w}]
       \/ \E y \in Years : cvText' = [cvText EXCEPT !.years = @ \cup {y}]
       \/ \E s \in Signals : cvText' = [cvText EXCEPT !.signals = @ \cup {s}]
    /\ UNCHANGED jobText

V2Next == Describe \/ Elaborate

V2Spec == V2Init /\ [][V2Next]_v2vars

-----------------------------------------------------------------------------
(* The components: the scores the arithmetic may give, and the terms not    *)
(* found.  No score at all: the calculation raises.                         *)

Component(scores, missing) == [scores |-> scores, missing |-> missing]
NotApplicable == Component({100}, {})

\* vocabulary_component and keyword_component.
VocabularyComponent(vocabulary) ==
    LET required == jobText.words \cap vocabulary
        matched == required \cap cvText.words
    IN  IF required = {} THEN NotApplicable
        ELSE Component(Percents(Cardinality(matched), Cardinality(required)), required \ matched)

\* maximum_years, of a text that has years in it.
MaximumYears(text) == Max(text.years)

\* Variant: years beyond the requirement count.
ExperienceUncapped ==
    LET required == MaximumYears(jobText)
        held == MaximumYears(cvText)
    IN  CASE jobText.years = {} -> NotApplicable
          [] jobText.years # {} /\ cvText.years = {} -> Component({0}, {"years"})
          [] jobText.years # {} /\ cvText.years # {} /\ required = 0 -> Component({}, {})
          [] OTHER -> Component(Percents(held, required), IF held < required THEN {"years"} ELSE {})

\* cv_years / required_years raises ZeroDivisionError if zero years are required.
ExperienceComponent ==
    LET required == MaximumYears(jobText)
        held == MaximumYears(cvText)
        scores == {Min({100, s}) : s \in Percents(held, required)}
    IN  CASE jobText.years = {} -> NotApplicable
          [] jobText.years # {} /\ cvText.years = {} -> Component({0}, {"years"})
          [] jobText.years # {} /\ cvText.years # {} /\ required = 0 -> Component({}, {})
          [] OTHER -> Component(scores, IF scores = {100} THEN {} ELSE {"years"})

\* maximum_degree.
Highest(text) == Max({DegreeRank(d) : d \in text.words \cap Degrees})

EducationComponent ==
    LET wanted == jobText.words \cap Degrees
        held == cvText.words \cap Degrees
    IN  CASE wanted = {} -> NotApplicable
          [] wanted # {} /\ held = {} -> Component({0}, {"degree"})
          [] OTHER -> IF Highest(cvText) >= Highest(jobText) THEN Component({100}, {})
                                                           ELSE Component({50}, {"degree"})

AtsComponent ==
    Component(Percents(Cardinality(cvText.signals), 4), Signals \ cvText.signals)

Components ==
    <<VocabularyComponent(SkillWords), ExperienceComponent,
      VocabularyComponent(SkillWords \cup OtherKeywords), EducationComponent, AtsComponent>>

OverallScores ==
    LET c == Components IN
    {HalfEven(35 * s + 20 * e + 25 * k + 10 * d + 10 * a) :
        s \in c[1].scores, e \in c[2].scores, k \in c[3].scores,
        d \in c[4].scores, a \in c[5].scores}

-----------------------------------------------------------------------------
(* Properties.                                                              *)

\* The scores and the gaps tell the same: a component is full exactly when no
\* gap of it is listed, the overall score lies between the least and the best
\* component, and it is 100 without a gap.  The one calculation that fails is
\* a requirement of zero years met with years in the CV.
ScoresFollowGaps ==
    LET c == Components
        all == UNION {c[i].scores : i \in 1 .. 5}
    IN  /\ OverallScores = {} <=> jobText.years = {0} /\ cvText.years # {}
        /\ \A i \in 1 .. 5 : c[i].scores # {} => (c[i].scores = {100} <=> c[i].missing = {})
        /\ \A o \in OverallScores : Min(all) <= o /\ o <= Max(all)
        /\ OverallScores # {} /\ (\A i \in 1 .. 5 : c[i].missing = {}) => OverallScores = {100}

\* "overallScore and every component score are integers in the inclusive 0-100
\* range": every analysis gives one.
ScoresInRange == OverallScores # {} /\ OverallScores \subseteq 0 .. 100
=============================================================================
