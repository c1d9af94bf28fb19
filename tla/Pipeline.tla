------------------------------ MODULE Pipeline ------------------------------
(***************************************************************************)
(* The deterministic remediation pipeline as operators: classification,    *)
(* planning and the validation gate, alone and over a batch, and the two   *)
(* callers that turn a batch into a verdict (ai_engine.create_workflow and *)
(* agent_graph.build_graph).  Scores are in hundredths, the precision      *)
(* classify rounds to; a category is what str.upper() makes of it.         *)
(***************************************************************************)
EXTENDS Integers, Sequences

CONSTANT NoCvss  \* a finding without a CVSS score

Severities == {"CRITICAL", "HIGH", "MEDIUM", "LOW"}

DependencyCategories == {"DEPENDENCY", "DEPENDENCY_VULNERABILITY"}
InjectionCategories == {"SQL_INJECTION", "COMMAND_INJECTION", "SSRF", "RCE"}
WebCategories == {"XSS", "CROSS_SITE_SCRIPTING", "CSRF"}
HighImpact == {"RCE", "SQL_INJECTION", "COMMAND_INJECTION", "SECRETS_EXPOSURE"}

\* The fields of a finding the pipeline reads; cve says whether it has one.
IsFinding(f) ==
    /\ f.severity \in Severities
    /\ f.cve \in BOOLEAN
    /\ f.cvss = NoCvss \/ f.cvss \in 0..1000

(***************************************************************************)
(* vulnerability_classification.py                                         *)
(***************************************************************************)
SeverityScore(severity) ==
    CASE severity = "CRITICAL" -> 900
      [] severity = "HIGH" -> 700
      [] severity = "MEDIUM" -> 400
      [] severity = "LOW" -> 200

\* Mutant: a known CVE lowers the score.
ScoreCveMitigates(f) ==
    (IF f.cvss = NoCvss THEN SeverityScore(f.severity) ELSE f.cvss)
        - (IF f.cve THEN 50 ELSE 0)
        + (IF f.category \in HighImpact THEN 75 ELSE 0)

Score(f) ==
    (IF f.cvss = NoCvss THEN SeverityScore(f.severity) ELSE f.cvss)
        + (IF f.cve THEN 50 ELSE 0)
        + (IF f.category \in HighImpact THEN 75 ELSE 0)

\* Mutant: the score is not capped at 10.
UncappedRisk(f) == Score(f)

RiskScore(f) == IF Score(f) > 1000 THEN 1000 ELSE Score(f)

\* Mutant: only a capped score is P0.
StrictPriority(risk) ==
    IF risk >= 1000 THEN "P0" ELSE IF risk >= 800 THEN "P1" ELSE IF risk >= 400 THEN "P2" ELSE "P3"

Priority(risk) ==
    IF risk >= 900 THEN "P0" ELSE IF risk >= 700 THEN "P1" ELSE IF risk >= 400 THEN "P2" ELSE "P3"

\* Mutant: a high score counts as evidence.
ConfidenceByScore(f) == IF f.cve \/ RiskScore(f) >= 900 THEN "HIGH" ELSE "MEDIUM"

Confidence(f) == IF f.cve THEN "HIGH" ELSE "MEDIUM"

Classify(f) ==
    [id |-> f.id, risk |-> RiskScore(f), priority |-> Priority(RiskScore(f)),
     confidence |-> Confidence(f)]

(***************************************************************************)
(* remediation.py                                                          *)
(***************************************************************************)
RequiredTests(category) ==
    CASE category \in DependencyCategories ->
            {"dependency resolution", "unit tests", "SCA scan", "regression tests"}
      [] category \in InjectionCategories ->
            {"unit tests", "API tests", "SAST", "DAST", "regression tests"}
      [] category \in WebCategories ->
            {"unit tests", "Playwright/Cypress", "DAST", "regression tests"}
      [] OTHER -> {"build", "unit tests", "SAST", "SCA", "regression tests"}

Plan(f, classification) ==
    [id |-> f.id,
     tests |-> RequiredTests(f.category),
     confidence |-> classification.confidence,
     humanReview |-> classification.confidence # "HIGH" \/ classification.risk >= 900]

(***************************************************************************)
(* validation.py                                                           *)
(***************************************************************************)
MandatoryChecks == {"build", "unit_tests", "security_scan", "regression_tests"}

\* The tests whose label contains one of the aliases of a mandatory check.
Represents(check) ==
    CASE check = "build" -> {"build", "dependency resolution"}
      [] check = "unit_tests" -> {"unit tests"}
      [] check = "security_scan" -> {"SCA scan", "SAST", "SCA", "DAST"}
      [] check = "regression_tests" -> {"regression tests"}

\* Every plan has a strategy and a target, so those two blockers never arise.
Validate(f, plan) ==
    [id |-> f.id,
     passed |-> /\ ~(f.severity = "CRITICAL" /\ plan.confidence # "HIGH")
                /\ \A check \in MandatoryChecks : plan.tests \cap Represents(check) # {}]

(***************************************************************************)
(* Batches: create_batch and validate_batch look classifications and plans *)
(* up in a dict by finding id, in which the last entry with an id wins.    *)
(***************************************************************************)
IsLast(batch, i, id) ==
    /\ i \in DOMAIN batch
    /\ batch[i].id = id
    /\ \A j \in DOMAIN batch : j > i => batch[j].id # id

ById(batch, id) == batch[CHOOSE i \in DOMAIN batch : IsLast(batch, i, id)]

\* Mutant: every plan is made from the classification the loop before left over.
PlanBatchSlipped(findings) ==
    [i \in DOMAIN findings |->
        Plan(findings[i], Classify(findings[Len(findings)]))]

PlanBatch(findings) ==
    [i \in DOMAIN findings |->
        Plan(findings[i], Classify(ById(findings, findings[i].id)))]

ValidateBatch(findings) ==
    [i \in DOMAIN findings |->
        Validate(findings[i], ById(PlanBatch(findings), findings[i].id))]

AllValid(findings) == \A i \in DOMAIN findings : ValidateBatch(findings)[i].passed

\* Mutant: the workflow takes the status of its validation evidence.
EngineStatusOfEvidence(findings) == IF AllValid(findings) THEN "PASSED" ELSE "BLOCKED"

\* ai_engine.create_workflow's status.
EngineStatus(findings) ==
    IF AllValid(findings) THEN "AWAITING_APPROVAL" ELSE "VALIDATION_BLOCKED"

\* Mutant: an empty batch is blocked, as if nothing had been validated.
GraphBlocksEmpty(findings) ==
    IF findings = <<>> \/ ~AllValid(findings)
    THEN [agent |-> "validation", status |-> "VALIDATION_BLOCKED"]
    ELSE [agent |-> "approval", status |-> "AWAITING_APPROVAL"]

\* agent_graph.build_graph: the agent and status a run of the graph ends with.
BuildGraph(findings) ==
    IF findings # <<>> /\ ~AllValid(findings)
    THEN [agent |-> "validation", status |-> "VALIDATION_BLOCKED"]
    ELSE [agent |-> "approval", status |-> "AWAITING_APPROVAL"]

\* What a local scan stores of a rule's match: its risk score as the CVSS score.
Scanned(f) == [f EXCEPT !.cvss = RiskScore(f)]

\* The rules of mvp._scanner_findings.
ScannerRules ==
    {<<"SQL_INJECTION", "HIGH">>, <<"XSS", "HIGH">>,
     <<"SECRETS_EXPOSURE", "CRITICAL">>, <<"COMMAND_INJECTION", "CRITICAL">>}

RuleMatch(rule, id) ==
    [id |-> id, category |-> rule[1], severity |-> rule[2], cve |-> FALSE, cvss |-> NoCvss]
=============================================================================
