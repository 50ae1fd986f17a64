------------------------------- MODULE Engine -------------------------------
(***************************************************************************)
(* The correlation engine of internal/analyzer/engine.go: which rules are  *)
(* evaluated, how confidences are scaled, and how the findings become one  *)
(* primary blocker, contributing factors and secondary issues.             *)
(*                                                                         *)
(* Whether a rule fires is an input.  A confidence is an integer number of *)
(* 1/100000, in which every product the engine computes from a confidence  *)
(* of two decimals is exact.                                               *)
(***************************************************************************)
EXTENDS Integers, Sequences, FiniteSets

CONSTANTS
  Rules,              \* the registered rules, in order of registration
  IdLists,            \* what the user may pass to --disable-rules
  PsiReadings,        \* stall levels of the three resources that may be seen
  DisableEarlyExit    \* the engine's switch of that name

One == 100000         \* confidence 1.0

Severities == {"CRITICAL", "HIGH", "MEDIUM", "INFO"}
Resources  == {"memory", "io", "cpu"}
Levels     == {"low", "mid", "high"}      \* avg10 < 1, between, > 20

\* `resource' is what isMemoryRule, isIORule and isCPURule, tried in this order,
\* make of the rule's ID.
Rule == [id : STRING, tier : 1..3, pidDependent : BOOLEAN,
         suppresses : SUBSET STRING, resource : Resources \cup {"none"},
         severity : Severities, confidence : 0..One]

SkipTier3Threshold == 90000

\* What NewEngine registers: every ID once, and hard limits (tier 1) that are
\* certain enough to leave tier 3 out unless a penalty applies.
IsRuleList(rules) ==
  /\ rules \in Seq(Rule)
  /\ \A i, j \in DOMAIN rules : rules[i].id = rules[j].id => i = j
  /\ \A i \in DOMAIN rules :
       rules[i].tier = 1 => rules[i].confidence >= SkipTier3Threshold

ASSUME EngineAssumption ==
  /\ IsRuleList(Rules)
  /\ IdLists \subseteq Seq(STRING)
  /\ PsiReadings \subseteq [Resources -> Levels]
  /\ DisableEarlyExit \in BOOLEAN

Ids == {Rules[i].id : i \in DOMAIN Rules}
RuleOf(id) == Rules[CHOOSE i \in DOMAIN Rules : Rules[i].id = id]

VARIABLES
  fires,        \* IDs of the rules whose Evaluate finds something
  clockJump,    \* diff.ClockJumpDetected
  isRoot,       \* runCtx.IsRoot
  psiAvailable, \* the kernel has pressure stall information
  psi,          \* stall level of each resource: "low", "mid" or "high"
  disabled,     \* e.disabledRules
  pc,           \* "configure", "evaluate", "calibrate", "sort", "categorize",
                \* "demote", "done" or "usage"
  tier,         \* the tier whose rules are evaluated
  k,            \* where the loop over its rules, and later over the findings, is
  highConf,     \* hasHighConfTier1
  tier3,        \* report.Tier3Evaluated
  triggered,    \* the findings so far
  report        \* PrimaryBlocker, ContributingFactors and SecondaryIssues

input == <<fires, clockJump, isRoot, psiAvailable, psi>>
vars  == <<input, disabled, pc, tier, k, highConf, tier3, triggered, report>>

Diagnosis == [id : Ids, tier : 1..3, severity : Severities, confidence : Nat]

NoReport == [primary |-> <<>>, contributing |-> <<>>, secondary |-> <<>>]

SeverityRank(s) ==
  CASE s = "CRITICAL" -> 4 [] s = "HIGH" -> 3 [] s = "MEDIUM" -> 2
    [] s = "INFO" -> 1 [] OTHER -> 0

Init ==
  /\ fires \in SUBSET Ids
  /\ clockJump \in BOOLEAN /\ isRoot \in BOOLEAN
  /\ psiAvailable \in BOOLEAN
  /\ psi \in PsiReadings
  /\ psiAvailable \/ \A r \in Resources : psi[r] = "low"
  /\ disabled = {}
  /\ pc = "configure"
  /\ tier = 1 /\ k = 1 /\ highConf = FALSE /\ tier3 = FALSE
  /\ triggered = <<>> /\ report = NoReport

-----------------------------------------------------------------------------
\* SetDisabledRules stops at the first unknown ID; validateConfig then exits.
\* Blank entries are skipped.
SetDisabledRules ==
  /\ pc = "configure"
  /\ \E ids \in IdLists :
       LET unknown == {i \in DOMAIN ids : ids[i] \notin Ids \cup {""}}
           kept == {ids[i] : i \in {j \in DOMAIN ids : \A u \in unknown : j < u}}
       IN  /\ disabled' = kept \ {""}
           /\ pc' = IF unknown = {} THEN "evaluate" ELSE "usage"
  /\ UNCHANGED <<input, tier, k, highConf, tier3, triggered, report>>

\* RegisterRules files the rules by tier and keeps their order: the rules of the
\* current tier that the loop has still to visit.
Pending == {i \in k..Len(Rules) : Rules[i].tier = tier}

\* Faulty variant: the penalties are subtracted.
PenalisedBySubtraction(r, root) ==
  LET afterJump == IF clockJump THEN r.confidence - One \div 2 ELSE r.confidence
  IN  IF ~root /\ r.pidDependent THEN afterJump - (One * 40) \div 100 ELSE afterJump

\* evaluateRule: penalties for a clock jump and for missing privileges.
Penalised(r, root) ==
  LET afterJump == IF clockJump THEN (r.confidence * 50) \div 100 ELSE r.confidence
  IN  IF ~root /\ r.pidDependent THEN (afterJump * 60) \div 100 ELSE afterJump

EvaluateRule(r) ==
  [id |-> r.id, tier |-> r.tier, severity |-> r.severity,
   confidence |-> Penalised(r, isRoot)]

\* One iteration of the loop over the rules of the current tier.
Evaluate ==
  /\ pc = "evaluate"
  /\ \E i \in Pending :
       LET r == Rules[i]
           d == EvaluateRule(r)
           hit == r.id \in fires \ disabled
       IN  /\ \A j \in Pending : i <= j
           /\ triggered' = IF hit THEN Append(triggered, d) ELSE triggered
           /\ highConf' = (highConf \/ (hit /\ tier = 1
                                        /\ d.confidence >= SkipTier3Threshold))
           /\ k' = i + 1
  /\ UNCHANGED <<input, disabled, pc, tier, tier3, report>>

\* Faulty variant: the switch is read the wrong way round.
SkipTier3Inverted == DisableEarlyExit /\ highConf

\* Tier 3 is left out after a confident finding of tier 1.
SkipTier3 == ~DisableEarlyExit /\ highConf

NextTier ==
  /\ pc = "evaluate" /\ Pending = {} /\ tier < 3
  /\ ~(tier = 2 /\ SkipTier3)
  /\ tier' = tier + 1 /\ k' = 1
  /\ tier3' = (tier = 2)
  /\ UNCHANGED <<input, disabled, pc, highConf, triggered, report>>

\* Without findings the report stays empty; without PSI nothing is calibrated.
EndEvaluation ==
  /\ pc = "evaluate" /\ Pending = {}
  /\ tier = 3 \/ (tier = 2 /\ SkipTier3)
  /\ pc' = IF triggered = <<>> THEN "done"
           ELSE IF psiAvailable THEN "calibrate" ELSE "sort"
  /\ UNCHANGED <<input, disabled, tier, k, highConf, tier3, triggered, report>>

\* Faulty variant: only the lower end is clamped.
ClampBelow(c) == IF c < 0 THEN 0 ELSE c

ClampConfidence(c) == IF c > One THEN One ELSE IF c < 0 THEN 0 ELSE c

\* Stalls on the rule's resource raise its confidence, their absence lowers it.
Calibrated(d) ==
  LET res == RuleOf(d.id).resource
      c == IF res = "none" THEN d.confidence
           ELSE CASE psi[res] = "high" -> (d.confidence * 110) \div 100
                  [] psi[res] = "low"  -> (d.confidence * 70) \div 100
                  [] OTHER             -> d.confidence
  IN  [d EXCEPT !.confidence = ClampConfidence(c)]

CalibrateDiagnoses ==
  /\ pc = "calibrate"
  /\ triggered' = [i \in DOMAIN triggered |-> Calibrated(triggered[i])]
  /\ pc' = "sort"
  /\ UNCHANGED <<input, disabled, tier, k, highConf, tier3, report>>

\* Faulty variant: the least certain of equally severe findings comes first.
BeforeLeastCertain(a, b) ==
  \/ a.tier < b.tier
  \/ a.tier = b.tier /\ SeverityRank(a.severity) > SeverityRank(b.severity)
  \/ /\ a.tier = b.tier /\ SeverityRank(a.severity) = SeverityRank(b.severity)
     /\ a.confidence < b.confidence

\* The less function of sortDiagnoses.
Before(a, b) ==
  \/ a.tier < b.tier
  \/ a.tier = b.tier /\ SeverityRank(a.severity) > SeverityRank(b.severity)
  \/ /\ a.tier = b.tier /\ SeverityRank(a.severity) = SeverityRank(b.severity)
     /\ a.confidence > b.confidence

\* sort.SliceStable: an element goes behind those that come before it and behind
\* its equals that stood to its left.
Ahead(s, i) == {j \in DOMAIN s : \/ Before(s[j], s[i])
                                 \/ ~Before(s[i], s[j]) /\ j < i}

SortDiagnoses(s) ==
  [p \in DOMAIN s |-> s[CHOOSE i \in DOMAIN s : Cardinality(Ahead(s, i)) = p - 1]]

Sort ==
  /\ pc = "sort"
  /\ triggered' = SortDiagnoses(triggered)
  /\ pc' = "categorize"
  /\ UNCHANGED <<input, disabled, tier, k, highConf, tier3, report>>

\* Faulty variant: every rule that fires suppresses, the primary blocker or not.
SuppressedByAny(primary) == UNION {RuleOf(id).suppresses : id \in fires}

\* buildSuppressionSet: only the primary blocker's own list.
SuppressionSet(primary) == RuleOf(primary.id).suppresses

Contributes(d, primary) ==
  IF primary.tier = 1
    THEN d.severity \in {"CRITICAL", "HIGH"}
    ELSE d.tier = primary.tier \/ SeverityRank(d.severity) >= SeverityRank("HIGH")

\* categorizeDiagnoses: the first finding is the primary blocker.
NamePrimary ==
  /\ pc = "categorize"
  /\ report' = [report EXCEPT !.primary = <<triggered[1]>>]
  /\ k' = 2 /\ pc' = "demote"
  /\ UNCHANGED <<input, disabled, tier, highConf, tier3, triggered>>

\* One iteration of its loop over the other findings.
Demote ==
  /\ pc = "demote" /\ k <= Len(triggered)
  /\ LET primary == report.primary[1]
         d == triggered[k]
     IN  report' = IF d.id \in SuppressionSet(primary) THEN report
                   ELSE IF Contributes(d, primary)
                     THEN [report EXCEPT !.contributing = Append(@, d)]
                     ELSE [report EXCEPT !.secondary = Append(@, d)]
  /\ k' = k + 1
  /\ UNCHANGED <<input, disabled, pc, tier, highConf, tier3, triggered>>

EndDemotion ==
  /\ pc = "demote" /\ k > Len(triggered)
  /\ pc' = "done"
  /\ UNCHANGED <<input, disabled, tier, k, highConf, tier3, triggered, report>>

Returned == pc \in {"done", "usage"} /\ UNCHANGED vars

Next ==
  \/ SetDisabledRules \/ Evaluate \/ NextTier \/ EndEvaluation
  \/ CalibrateDiagnoses \/ Sort \/ NamePrimary \/ Demote \/ EndDemotion \/ Returned

Spec == Init /\ [][Next]_vars

-----------------------------------------------------------------------------
TypeOK ==
  /\ fires \subseteq Ids /\ clockJump \in BOOLEAN /\ isRoot \in BOOLEAN
  /\ psiAvailable \in BOOLEAN /\ psi \in [Resources -> Levels]
  /\ disabled \subseteq Ids
  /\ pc \in {"configure", "evaluate", "calibrate", "sort", "categorize", "demote",
             "done", "usage"}
  /\ tier \in 1..3 /\ k \in Nat
  /\ highConf \in BOOLEAN /\ tier3 \in BOOLEAN
  /\ triggered \in Seq(Diagnosis)
  /\ report.primary \in Seq(Diagnosis) /\ report.contributing \in Seq(Diagnosis)
  /\ report.secondary \in Seq(Diagnosis)

\* The report as one list, and the rules that were evaluated and fired.
AllReported == report.primary \o report.contributing \o report.secondary

Found == {Rules[i].id : i \in {j \in DOMAIN Rules :
            /\ Rules[j].id \in fires \ disabled
            /\ Rules[j].tier < 3 \/ tier3}}

(***************************************************************************)
(* No finding gets lost or doubled on its way through calibration, sorting *)
(* and categorisation: every evaluated rule that fired is in the report    *)
(* exactly once, unless the primary blocker suppresses it, and a disabled  *)
(* rule is never there.                                                    *)
(***************************************************************************)
EveryFindingAccounted ==
  pc = "done" =>
    LET ids == {AllReported[i].id : i \in DOMAIN AllReported}
        hidden == IF report.primary = <<>> THEN {}
                  ELSE RuleOf(report.primary[1].id).suppresses
    IN  /\ ids \subseteq Found /\ Found \ ids \subseteq hidden
        /\ \A i, j \in DOMAIN AllReported :
             AllReported[i].id = AllReported[j].id => i = j

(***************************************************************************)
(* The primary blocker is the worst finding, suppressed ones included: a   *)
(* hard limit (tier 1) is never outranked by a contention or edge finding, *)
(* and no finding of its tier is more severe or, at the same severity,     *)
(* more certain.                                                           *)
(***************************************************************************)
PrimaryIsWorst ==
  pc = "done" /\ triggered # <<>> =>
    /\ report.primary # <<>>
    /\ LET p == report.primary[1] IN
       \A i \in DOMAIN triggered :
         LET d == triggered[i]
             rank == SeverityRank(d.severity)
         IN  /\ p.tier <= d.tier
             /\ p.tier = d.tier => rank <= SeverityRank(p.severity)
             /\ p.tier = d.tier /\ rank = SeverityRank(p.severity)
                  => d.confidence <= p.confidence

(***************************************************************************)
(* Penalties and the PSI boost compose in any combination to a confidence  *)
(* between 0 and 1.                                                        *)
(***************************************************************************)
ConfidenceInRange ==
  \A i \in DOMAIN triggered : triggered[i].confidence \in 0..One

(***************************************************************************)
(* A report that names a kernel edge case (tier 3) holds no hard limit of  *)
(* confidence 0.90 or more, whatever the calibration did to confidences    *)
(* after tier 3 was decided on.                                            *)
(***************************************************************************)
EdgeCasesOnlyWithoutHardLimit ==
  pc = "done" /\ ~DisableEarlyExit =>
    \A i, j \in DOMAIN triggered :
      triggered[i].tier = 3 /\ triggered[j].tier = 1
        => triggered[j].confidence < SkipTier3Threshold

(***************************************************************************)
(* types.go: "when a root cause fires, its downstream symptoms are removed *)
(* from contributing factors", for every reported root cause.              *)
(***************************************************************************)
DownstreamSymptomsRemoved ==
  pc = "done" =>
    \A i \in DOMAIN AllReported, j \in DOMAIN report.contributing :
      report.contributing[j].id \notin RuleOf(AllReported[i].id).suppresses
=============================================================================
