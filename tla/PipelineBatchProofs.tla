------------------------ MODULE PipelineBatchProofs ------------------------
(***************************************************************************)
(* The properties of PipelineBatch for batches of every length and for     *)
(* every set of findings: the batch is a sequence of findings, and each    *)
(* property follows from the lemmas of PipelineProofs about such a batch.  *)
(***************************************************************************)
EXTENDS PipelineBatch, PipelineProofs

BatchInv == batch \in Seq(Findings)

\* The capped score is a legal risk_score, and the priority is one of the four.
LEMMA RiskRange ==
    ASSUME NEW f, IsFinding(f)
    PROVE  RiskScore(f) \in 0..1000 /\ Priority(RiskScore(f)) \in Priorities
BY ScoreRange DEF RiskScore, Priority, Priorities

LEMMA BatchInvariant == Spec => []BatchInv
<1>1. Init => BatchInv
  BY DEF Init, BatchInv
<1>2. BatchInv /\ [Next]_batch => BatchInv'
  BY DEF BatchInv, Next, AddFinding
<1> QED BY <1>1, <1>2, PTL DEF Spec

\* What BatchInv gives every proof below.
LEMMA InBatch ==
    ASSUME BatchInv, NEW i \in DOMAIN batch
    PROVE  batch[i] \in Findings /\ IsFinding(batch[i]) /\ DOMAIN batch \subseteq Int
BY BatchAssumption DEF BatchInv

(***************************************************************************)
(* The properties                                                          *)
(***************************************************************************)

\* Every score is on the scale Vulnerability.risk_score validates, and every
\* priority is one of the four, for every finding whatever.
THEOREM TypeCorrect == Spec => []TypeOK
<1>1. BatchInv => TypeOK
  BY InBatch, RiskRange DEF BatchInv, TypeOK
<1> QED BY <1>1, BatchInvariant, PTL

\* A finding at least as serious scores at least as high, also after the cap
\* (classify).
LEMMA RiskMonotone ==
    ASSUME NEW f, IsFinding(f), NEW g, IsFinding(g), AtLeast(f, g)
    PROVE  RiskScore(f) >= RiskScore(g)
<1> DEFINE a == Base(f)
           b == Base(g)
           c == IF f.cve THEN 50 ELSE 0
           d == IF g.cve THEN 50 ELSE 0
           p == IF f.category \in HighImpact THEN 75 ELSE 0
           q == IF g.category \in HighImpact THEN 75 ELSE 0
<1>1. a \in 0..1000 /\ b \in 0..1000
  BY BaseRange
<1>2. c \in {0, 50} /\ d \in {0, 50} /\ p \in {0, 75} /\ q \in {0, 75}
  OBVIOUS
<1>3. c >= d /\ p >= q
  BY DEF AtLeast, IsFinding
<1>4. a >= b
  <2>1. CASE f.cvss = NoCvss
    <3>1. g.cvss = NoCvss /\ SeverityScore(f.severity) >= SeverityScore(g.severity)
      BY <2>1 DEF AtLeast
    <3>2. a = SeverityScore(f.severity) /\ b = SeverityScore(g.severity)
      BY <2>1, <3>1 DEF Base
    <3> HIDE DEF a, b
    <3> QED BY <3>1, <3>2
  <2>2. CASE f.cvss # NoCvss
    <3>1. g.cvss # NoCvss /\ f.cvss >= g.cvss
      BY <2>2 DEF AtLeast
    <3>2. a = f.cvss /\ b = g.cvss
      BY <2>2, <3>1 DEF Base
    <3> HIDE DEF a, b
    <3> QED BY <3>1, <3>2
  <2> QED BY <2>1, <2>2
<1>5. Score(f) = a + c + p /\ Score(g) = b + d + q
  BY DEF Score, Base
<1> HIDE DEF a, b, c, d, p, q
<1>6. RiskScore(f) = IF a + c + p > 1000 THEN 1000 ELSE a + c + p
  BY <1>5 DEF RiskScore
<1>7. RiskScore(g) = IF b + d + q > 1000 THEN 1000 ELSE b + d + q
  BY <1>5 DEF RiskScore
<1> QED BY <1>1, <1>2, <1>3, <1>4, <1>6, <1>7

\* A higher risk score never gets a later priority (classify's thresholds).
LEMMA PriorityOrder ==
    ASSUME NEW r \in Int, NEW s \in Int, r >= s
    PROVE  /\ Priority(s) = "P0" => Priority(r) = "P0"
           /\ Priority(r) = "P3" => Priority(s) = "P3"
BY DEF Priority

\* A more serious finding is never prioritised lower.
THEOREM PriorityIsMonotone == Spec => []PriorityMonotone
<1>1. BatchInv => PriorityMonotone
  <2> SUFFICES ASSUME BatchInv, NEW i \in DOMAIN batch, NEW j \in DOMAIN batch,
                      AtLeast(batch[i], batch[j])
               PROVE  /\ RiskScore(batch[i]) >= RiskScore(batch[j])
                      /\ Priority(RiskScore(batch[j])) = "P0" => Priority(RiskScore(batch[i])) = "P0"
                      /\ Priority(RiskScore(batch[i])) = "P3" => Priority(RiskScore(batch[j])) = "P3"
    BY DEF PriorityMonotone
  <2>1. RiskScore(batch[i]) \in Int /\ RiskScore(batch[j]) \in Int
    BY InBatch, RiskRange
  <2>2. RiskScore(batch[i]) >= RiskScore(batch[j])
    BY InBatch, RiskMonotone
  <2> QED BY <2>1, <2>2, PriorityOrder
<1> QED BY <1>1, BatchInvariant, PTL

\* Storing the risk score as the CVSS score does not move a scanned finding to
\* another priority.
THEOREM RescoringKeepsPriority == Spec => []RescoreKeepsPriority
<1>1. RescoreKeepsPriority
  <2> SUFFICES ASSUME NEW f, NEW rule \in ScannerRules, f = RuleMatch(rule, f.id)
               PROVE  Classify(Scanned(f)).priority = Classify(f).priority
    BY DEF RescoreKeepsPriority
  <2>1. /\ f.cvss = NoCvss /\ f.cve = FALSE
        /\ f.severity = rule[2] /\ f.category = rule[1]
    BY DEF RuleMatch
  <2>2. Score(f) = SeverityScore(rule[2]) + (IF rule[1] \in HighImpact THEN 75 ELSE 0)
    BY <2>1, BatchAssumption DEF Score, ScannerRules, SeverityScore
  <2>3. \/ rule[1] \in HighImpact /\ Score(f) \in {775, 975}
        \/ rule[1] \notin HighImpact /\ Score(f) = 700
    BY <2>2 DEF ScannerRules, SeverityScore, HighImpact
  <2>4. RiskScore(f) = Score(f) /\ RiskScore(f) # NoCvss
    BY <2>3, BatchAssumption DEF RiskScore
  <2>5. /\ Scanned(f).cvss = RiskScore(f) /\ Scanned(f).cve = FALSE
        /\ Scanned(f).category = rule[1]
    BY <2>1 DEF Scanned, RuleMatch
  <2>6. Score(Scanned(f)) = RiskScore(f) + (IF rule[1] \in HighImpact THEN 75 ELSE 0)
    BY <2>3, <2>4, <2>5 DEF Score
  <2>7. Priority(RiskScore(Scanned(f))) = Priority(RiskScore(f))
    BY <2>3, <2>4, <2>6 DEF RiskScore, Priority
  <2> QED BY <2>7 DEF Classify
<1> QED BY <1>1, PTL

\* The two callers of the pipeline agree on every batch.
THEOREM CallersAgree == Spec => []GraphAgreesWithEngine
<1>1. GraphAgreesWithEngine
  <2>1. batch = <<>> => AllValid(batch)
    BY DEF AllValid
  <2> QED BY <2>1 DEF GraphAgreesWithEngine, BuildGraph, EngineStatus
<1> QED BY <1>1, PTL

\* With distinct ids a finding's verdict is the one it would get alone.
THEOREM VerdictsAreOwn == Spec => []VerdictIsOwn
<1>1. BatchInv => VerdictIsOwn
  <2> SUFFICES ASSUME BatchInv, DistinctIds, NEW i \in DOMAIN batch
               PROVE  ValidateBatch(batch)[i].passed = AllValid(<<batch[i]>>)
    BY DEF VerdictIsOwn
  <2> DEFINE single == <<batch[i]>>
  <2>1. IsLast(batch, i, batch[i].id)
    BY InBatch DEF IsLast, DistinctIds
  <2>2. DOMAIN single = {1} /\ single[1] = batch[i] /\ IsLast(single, 1, batch[i].id)
    BY DEF IsLast
  <2>3. ValidateBatch(batch)[i].passed <=> ValidateBatch(single)[1].passed
    <3>1. ValidateBatch(batch)[i].passed <=>
              /\ batch[i].category \notin InjectionCategories \cup WebCategories
              /\ batch[i].severity = "CRITICAL" => batch[i].cve
      BY <2>1, InBatch, Verdict
    <3>2. ValidateBatch(single)[1].passed <=>
              /\ batch[i].category \notin InjectionCategories \cup WebCategories
              /\ batch[i].severity = "CRITICAL" => batch[i].cve
      <4> HIDE DEF single
      <4>1. ValidateBatch(single)[1].passed <=>
              /\ single[1].category \notin InjectionCategories \cup WebCategories
              /\ single[1].severity = "CRITICAL" => single[1].cve
        BY <2>2, Verdict
      <4> QED BY <2>2, <4>1
    <3> QED BY <3>1, <3>2
  <2>4. AllValid(single) <=> ValidateBatch(single)[1].passed
    <3> HIDE DEF single
    <3> QED BY <2>2 DEF AllValid
  <2>5. ValidateBatch(batch)[i].passed \in BOOLEAN /\ AllValid(single) \in BOOLEAN
    BY DEF ValidateBatch, Validate, AllValid
  <2> QED BY <2>3, <2>4, <2>5
<1> QED BY <1>1, BatchInvariant, PTL
=============================================================================
