------------------------------ MODULE ScoringV3 ------------------------------
(***************************************************************************)
(* deterministic-v3: the report of a CV against the requirements of a      *)
(* target role.  The requirements are created, edited and removed, and the *)
(* CV gets versions with more in them; the report of the moment is Entry,  *)
(* Numerator, Denominator and Scores.                                      *)
(*                                                                         *)
(* A skill is named in the CV and in a requirement as people write it, and *)
(* each side is normalised by code of its own: SkillOf and TermsOf give    *)
(* what that code makes of the names.                                      *)
(***************************************************************************)
EXTENDS Integers, FiniteSets, FiniteSetsExt, Rounding

CONSTANTS
    Ids,        \* requirement ids, integers for their order
    Names,      \* the skills that are written about
    Priorities  \* the priorities given, of 1 .. 100

AllNames == {"Docker", "CSharp", "C#", "Machine Learning", ""}

ASSUME NamesAssumption == Names \subseteq AllNames
ASSUME PrioritiesAssumption == Priorities \subseteq 1 .. 100
ASSUME IdsAssumption == Ids \subseteq Int /\ IsFiniteSet(Ids)

VARIABLES
    requirements,   \* per id: a requirement or Absent
    cvNames         \* the names in the text of the CV

v3vars == <<requirements, cvNames>>

Absent == [review |-> "none"]
Categories == {"must-have", "should-have", "nice-to-have"}
BaseWeight(category) ==
    CASE category = "must-have" -> 60 [] category = "should-have" -> 30
      [] category = "nice-to-have" -> 10

\* normalize_skill: case folded, blanks collapsed, "" if nothing is left.
SkillOf(name) ==
    CASE name = "Docker" -> "docker" [] name = "CSharp" -> "csharp"
      [] name = "C#" -> "c#" [] name = "Machine Learning" -> "machine learning"
      [] name = "" -> ""

\* normalized_terms: aliases replaced, then the words of two characters or more.
TermsOf(name) ==
    CASE name = "Docker" -> {"docker"} [] name \in {"CSharp", "C#"} -> {"csharp"}
      [] name = "Machine Learning" -> {"machine", "learning"}
      [] name = "" -> {}

Requirements ==
    [review : {"reviewed"}, skill : {SkillOf(n) : n \in Names},
     category : Categories, priority : Priorities]
    \cup [review : {"unreviewed"}, skill : {SkillOf(CHOOSE n \in Names : n # "")},
          category : {"must-have"}, priority : Priorities]

V3Init ==
    /\ requirements = [i \in Ids |-> Absent]
    /\ cvNames = {}

\* create_requirement and update_requirement; "user-confirmed" counts as reviewed.
Write(i) ==
    /\ \E r \in Requirements : requirements' = [requirements EXCEPT ![i] = r]
    /\ UNCHANGED cvNames

Remove(i) ==
    /\ requirements[i] # Absent
    /\ requirements' = [requirements EXCEPT ![i] = Absent]
    /\ UNCHANGED cvNames

\* A version of the CV that names one more skill.
Mention ==
    /\ \E n \in Names \ {""} : cvNames' = cvNames \cup {n}
    /\ UNCHANGED requirements

V3Next == Mention \/ \E i \in Ids : Write(i) \/ Remove(i)

V3Spec == V3Init /\ [][V3Next]_v3vars

-----------------------------------------------------------------------------
(* calculate_deterministic_v3.                                              *)

CvTerms == UNION {TermsOf(n) : n \in cvNames}

Present == {i \in Ids : requirements[i] # Absent}
Reviewed == {i \in Present : requirements[i].review = "reviewed"}
Eligible == {i \in Reviewed : requirements[i].skill # ""}

Base(i) == BaseWeight(requirements[i].category)

\* requirement_precedence, compared as tuples.
Outranks(i, j) ==
    \/ Base(i) > Base(j)
    \/ Base(i) = Base(j) /\ requirements[i].priority > requirements[j].priority
    \/ Base(i) = Base(j) /\ requirements[i].priority = requirements[j].priority /\ i > j

Rivals(i) == {j \in Eligible \ {i} : requirements[j].skill = requirements[i].skill}

\* Variant: the higher priority wins, whatever the category.
EffectiveByPriority ==
    {i \in Eligible : \A j \in Rivals(i) :
        \/ requirements[i].priority > requirements[j].priority
        \/ requirements[i].priority = requirements[j].priority /\ i > j}

Effective == {i \in Eligible : \A j \in Rivals(i) : Outranks(i, j)}

\* Variant: the two branches are swapped.
MatchedUnlessFound == {i \in Effective : requirements[i].skill \notin CvTerms}

Matched == {i \in Effective : requirements[i].skill \in CvTerms}
Gaps == Effective \ Matched

Entry(i) ==
    CASE i \notin Reviewed -> "NOT_REVIEWED"
      [] i \in Reviewed \ Eligible -> "NOT_COMPARABLE"
      [] i \in Eligible \ Effective -> "DUPLICATE_SUPERSEDED"
      [] i \in Matched -> "MATCHED"
      [] i \in Gaps -> "NOT_FOUND_IN_PROVIDED_CV"

Weight(i) == Base(i) * requirements[i].priority
Total(ids) == MapThenSumSet(Weight, ids)

Numerator == Total(Matched)
Denominator == Total(Effective)

\* The overall score; without an effective requirement there is no analysis
\* (REQUIREMENTS_NOT_READY), though the scorer returns 0.
Scores == IF Denominator = 0 THEN {0} ELSE Percents(Numerator, Denominator)

-----------------------------------------------------------------------------
(* Properties.                                                              *)

\* Each skill is told once: of the requirements that name it one is found or
\* not found, one of the best category.  100 with a gap left, or 0 with a skill
\* found, is due to rounding: what is concealed weighs a 200th part at most.
ReportFollowsSkills ==
    /\ \A s \in {requirements[i].skill : i \in Eligible} :
        LET about == {i \in Eligible : requirements[i].skill = s}
        IN  \E i \in about :
                /\ {j \in about : Entry(j) \in {"MATCHED", "NOT_FOUND_IN_PROVIDED_CV"}} = {i}
                /\ \A j \in about : Base(j) <= Base(i)
    /\ Gaps = {} /\ Effective # {} => Scores = {100}
    /\ 100 \in Scores => 200 * Total(Gaps) <= Denominator
    /\ 0 \in Scores => 200 * Numerator <= Denominator

\* A CV that says more is never worth less: what was found stays found, and the
\* score does not go down, rounding included.
EvidenceNeverCosts ==
    [][requirements' = requirements /\ cvNames \subseteq cvNames' =>
        /\ Matched \subseteq Matched'
        /\ Numerator # Numerator' => \A old \in Scores, new \in Scores' : old <= new]_v3vars

\* "Not found in the provided CV." is said of skills that the CV does not name
\* in the very letters of the requirement, but for case and blanks.
NotFoundMeansAbsent ==
    \A i \in Present, n \in cvNames :
        Entry(i) = "NOT_FOUND_IN_PROVIDED_CV" => SkillOf(n) # requirements[i].skill
=============================================================================
