--------------------------- MODULE PipelineProofs ---------------------------
(***************************************************************************)
(* Lemmas about the operators of Pipeline: the range of a score, which     *)
(* checks a category's plan represents, what the dictionaries of a batch   *)
(* return, and the verdict on one finding of a batch.                      *)
(***************************************************************************)
EXTENDS Pipeline, TLAPS, SequenceTheorems, WellFoundedInduction

(***************************************************************************)
(* Single findings                                                         *)
(***************************************************************************)

\* The score before the increments (classify).
Base(f) == IF f.cvss = NoCvss THEN SeverityScore(f.severity) ELSE f.cvss

LEMMA BaseRange ==
    ASSUME NEW f, IsFinding(f)
    PROVE  SeverityScore(f.severity) \in 0..1000 /\ Base(f) \in 0..1000
<1>1. SeverityScore(f.severity) \in 0..1000
  BY DEF IsFinding, Severities, SeverityScore
<1>2. f.cvss # NoCvss => f.cvss \in 0..1000
  BY DEF IsFinding
<1> QED BY <1>1, <1>2 DEF Base

\* The score of a finding is an integer in 0..1125 (classify, before the cap).
LEMMA ScoreRange ==
    ASSUME NEW f, IsFinding(f)
    PROVE  Score(f) \in 0..1125
<1>1. PICK a \in 0..1000 : a = Base(f)
  BY BaseRange
<1>2. Score(f) = a + (IF f.cve THEN 50 ELSE 0) + (IF f.category \in HighImpact THEN 75 ELSE 0)
  BY <1>1 DEF Score, Base
<1> QED BY <1>2

\* The aliases of each mandatory check (validate).
LEMMA Aliases ==
    /\ Represents("build") = {"build", "dependency resolution"}
    /\ Represents("unit_tests") = {"unit tests"}
    /\ Represents("security_scan") = {"SCA scan", "SAST", "SCA", "DAST"}
    /\ Represents("regression_tests") = {"regression tests"}
BY DEF Represents

\* The tests planned for a category represent all mandatory checks exactly when
\* it is neither an injection nor a web category (create_plan, validate).
LEMMA ChecksRepresented ==
    ASSUME NEW category
    PROVE  (\A check \in MandatoryChecks : RequiredTests(category) \cap Represents(check) # {})
               <=> category \notin InjectionCategories \cup WebCategories
<1>1. CASE category \in DependencyCategories
  <2>1. category \notin InjectionCategories \cup WebCategories
    BY <1>1 DEF DependencyCategories, InjectionCategories, WebCategories
  <2>2. /\ "dependency resolution" \in RequiredTests(category) \cap Represents("build")
        /\ "unit tests" \in RequiredTests(category) \cap Represents("unit_tests")
        /\ "SCA scan" \in RequiredTests(category) \cap Represents("security_scan")
        /\ "regression tests" \in RequiredTests(category) \cap Represents("regression_tests")
    <3>1. RequiredTests(category) = {"dependency resolution", "unit tests", "SCA scan", "regression tests"}
      BY <1>1, <2>1 DEF RequiredTests
    <3> QED BY <3>1, Aliases
  <2> QED BY <2>1, <2>2 DEF MandatoryChecks
<1>2. CASE category \in InjectionCategories \cup WebCategories
  <2>1. category \notin DependencyCategories
    BY <1>2 DEF DependencyCategories, InjectionCategories, WebCategories
  <2>2. RequiredTests(category) \cap Represents("build") = {}
    <3>1. CASE category \in InjectionCategories
      BY <2>1, <3>1 DEF RequiredTests, Represents
    <3>2. CASE category \notin InjectionCategories
      BY <1>2, <2>1, <3>2 DEF RequiredTests, Represents
    <3> QED BY <3>1, <3>2
  <2> QED BY <1>2, <2>2 DEF MandatoryChecks
<1>3. CASE category \notin DependencyCategories \cup InjectionCategories \cup WebCategories
  <2>1. /\ "build" \in RequiredTests(category) \cap Represents("build")
        /\ "unit tests" \in RequiredTests(category) \cap Represents("unit_tests")
        /\ "SAST" \in RequiredTests(category) \cap Represents("security_scan")
        /\ "regression tests" \in RequiredTests(category) \cap Represents("regression_tests")
    <3>1. RequiredTests(category) = {"build", "unit tests", "SAST", "SCA", "regression tests"}
      BY <1>3 DEF RequiredTests
    <3> QED BY <3>1, Aliases
  <2> QED BY <1>3, <2>1 DEF MandatoryChecks
<1> QED BY <1>1, <1>2, <1>3

(***************************************************************************)
(* Looking findings and plans up by id                                     *)
(***************************************************************************)

\* An id has at most one last entry, so the dictionary returns that entry.
LEMMA LookUp ==
    ASSUME NEW b, DOMAIN b \subseteq Int, NEW id, NEW j, IsLast(b, j, id)
    PROVE  ById(b, id) = b[j]
<1> DEFINE k == CHOOSE k \in DOMAIN b : IsLast(b, k, id)
<1>1. j \in DOMAIN b
  BY DEF IsLast
<1>2. k \in DOMAIN b /\ IsLast(b, k, id)
  BY <1>1
<1>3. k = j
  <2>1. ~(k > j) /\ ~(j > k)
    BY <1>1, <1>2 DEF IsLast
  <2> QED BY <1>1, <1>2, <2>1
<1> QED BY <1>3 DEF ById

\* The verdict on a finding: its own severity, and the category and the CVE of
\* the last finding with its id (validate_batch over create_batch).
LEMMA Verdict ==
    ASSUME NEW b, DOMAIN b \subseteq Int, NEW i \in DOMAIN b, NEW j,
           IsLast(b, j, b[i].id)
    PROVE  ValidateBatch(b)[i].passed <=>
               /\ b[j].category \notin InjectionCategories \cup WebCategories
               /\ b[i].severity = "CRITICAL" => b[j].cve
<1> DEFINE plans == PlanBatch(b)
<1>1. j \in DOMAIN b /\ b[j].id = b[i].id
  BY DEF IsLast
<1>2. DOMAIN plans = DOMAIN b /\ \A k \in DOMAIN b : plans[k].id = b[k].id
  BY DEF PlanBatch, Plan
<1>3. IsLast(plans, j, b[i].id)
  BY <1>2 DEF IsLast
<1>4. ById(plans, b[i].id) = plans[j]
  <2> HIDE DEF plans
  <2> QED BY <1>2, <1>3, LookUp
<1>5. ById(b, b[j].id) = b[j]
  BY <1>1, LookUp
<1>6. plans[j] = Plan(b[j], Classify(b[j]))
  BY <1>1, <1>5 DEF PlanBatch
<1>7. /\ plans[j].tests = RequiredTests(b[j].category)
      /\ plans[j].confidence = Confidence(b[j])
  BY <1>6 DEF Plan, Classify
<1>8. ValidateBatch(b)[i].passed <=>
          /\ ~(b[i].severity = "CRITICAL" /\ Confidence(b[j]) # "HIGH")
          /\ \A check \in MandatoryChecks :
                RequiredTests(b[j].category) \cap Represents(check) # {}
  <2>1. ValidateBatch(b)[i] = Validate(b[i], plans[j])
    BY <1>4 DEF ValidateBatch
  <2> QED BY <1>7, <2>1 DEF Validate
<1>9. Confidence(b[j]) = "HIGH" <=> b[j].cve
  BY DEF Confidence
<1> QED BY <1>8, <1>9, ChecksRepresented
\* Every id in a batch has a last entry: a carrier nearest the end.
LEMMA LastExists ==
    ASSUME NEW S, NEW b \in Seq(S), NEW i \in DOMAIN b
    PROVE  \E j \in DOMAIN b : IsLast(b, j, b[i].id)
<1> DEFINE Distances == {d \in Nat : \E k \in DOMAIN b : b[k].id = b[i].id /\ d = Len(b) - k}
<1>1. DOMAIN b = 1..Len(b) /\ Len(b) \in Nat
  BY LenProperties
<1>2. Distances \subseteq Nat /\ Len(b) - i \in Distances
  BY <1>1
<1>3. PICK d \in Distances : \A e \in Distances : ~(<<e, d>> \in OpToRel(<, Nat))
  <2> HIDE DEF Distances
  <2> QED BY <1>2, NatLessThanWellFounded, WFMin
<1>4. PICK j \in DOMAIN b : b[j].id = b[i].id /\ d = Len(b) - j
  OBVIOUS
<1>5. ASSUME NEW k \in DOMAIN b, k > j, b[k].id = b[i].id
      PROVE  FALSE
  <2>1. Len(b) - k \in Distances /\ Len(b) - k < d /\ d \in Nat
    BY <1>1, <1>4, <1>5
  <2> QED BY <1>2, <1>3, <2>1 DEF OpToRel
<1> QED BY <1>4, <1>5 DEF IsLast

\* A batch of any length passes exactly when each finding would with the category
\* and the CVE of the last finding with its id.
LEMMA Gate ==
    ASSUME NEW S, NEW b \in Seq(S)
    PROVE  (EngineStatus(b) = "AWAITING_APPROVAL") <=>
               \A i, j \in DOMAIN b :
                   IsLast(b, j, b[i].id) =>
                       /\ b[j].category \notin InjectionCategories \cup WebCategories
                       /\ b[i].severity = "CRITICAL" => b[j].cve
<1> DEFINE Good(i, j) == /\ b[j].category \notin InjectionCategories \cup WebCategories
                         /\ b[i].severity = "CRITICAL" => b[j].cve
<1>1. DOMAIN b \subseteq Int
  OBVIOUS
<1>2. ASSUME NEW i \in DOMAIN b, NEW j \in DOMAIN b, IsLast(b, j, b[i].id)
      PROVE  ValidateBatch(b)[i].passed <=> Good(i, j)
  BY <1>1, <1>2, Verdict
<1>3. \A i \in DOMAIN b : \E j \in DOMAIN b : IsLast(b, j, b[i].id)
  BY LastExists
<1>4. AllValid(b) <=> \A i, j \in DOMAIN b : IsLast(b, j, b[i].id) => Good(i, j)
  <2> HIDE DEF Good
  <2> QED BY <1>2, <1>3 DEF AllValid
<1> QED BY <1>4 DEF EngineStatus
=============================================================================
