---------------------------- MODULE EngineProofs ----------------------------
(***************************************************************************)
(* Proofs about Engine, for every list of rules, every set of them that    *)
(* fires and every pressure reading.                                       *)
(*                                                                         *)
(* 1. Types; a confidence stays between 0 and 1, and tier 3 is looked at   *)
(*    only while no hard limit is certain: TypeOK, ConfidenceInRange,      *)
(*    EdgeCasesOnlyWithoutHardLimit.                                       *)
(* 2. The findings are those of the rules visited, each once, and sorting  *)
(*    permutes them and brings a worst one to the front: PrimaryIsWorst.   *)
(* 3. Categorisation files every finding in one place:                     *)
(*    EveryFindingAccounted.                                               *)
(***************************************************************************)
EXTENDS Engine, FiniteSetTheorems, FunctionTheorems, SequenceTheorems, TLAPS

Reports == [primary : Seq(Diagnosis), contributing : Seq(Diagnosis),
            secondary : Seq(Diagnosis)]

(***************************************************************************)
(* Types; there are findings to calibrate, sort and categorise.            *)
(***************************************************************************)
TypeInv ==
  /\ TypeOK
  /\ k >= 1 /\ report \in Reports
  /\ pc \in {"calibrate", "sort", "categorize", "demote"} => triggered # <<>>

Uncalibrated == {"configure", "usage", "evaluate", "calibrate"}

\* What a hard limit below the threshold is worth at most: before and after the
\* calibration.
Doubtful == 60000
Lifted == 66000

(***************************************************************************)
(* Confidences.  A hard limit that a penalty brought below the threshold   *)
(* is so far below it that the calibration cannot lift it above.           *)
(***************************************************************************)
CertaintyInv ==
  /\ ConfidenceInRange
  /\ tier3 = (tier = 3)
  /\ ~DisableEarlyExit /\ tier = 3 => ~highConf
  /\ \A i \in DOMAIN triggered :
       /\ triggered[i].tier <= tier
       /\ triggered[i].tier = 1 /\ ~highConf
            => triggered[i].confidence <= IF pc \in Uncalibrated THEN Doubtful ELSE Lifted

\* Positions of the rules that were or would have been evaluated.
Visited ==
  {r \in DOMAIN Rules :
     IF pc \in {"configure", "usage", "evaluate"}
       THEN Rules[r].tier < tier \/ (Rules[r].tier = tier /\ r < k)
       ELSE Rules[r].tier < 3 \/ tier3}

Hits == {r \in Visited : Rules[r].id \in fires \ disabled}

(***************************************************************************)
(* The findings are those of the rules visited that fire and are not       *)
(* disabled, and each is there once.                                       *)
(***************************************************************************)
FindingsInv ==
  /\ pc = "configure" => Visited = {}
  /\ \A i \in DOMAIN triggered : \E r \in Hits : Rules[r].id = triggered[i].id
  /\ \A r \in Hits : \E i \in DOMAIN triggered : triggered[i].id = Rules[r].id
  /\ \A i, j \in DOMAIN triggered : triggered[i].id = triggered[j].id => i = j

\* No finding of list s comes before its first.
LedByWorst(s) == \A i \in DOMAIN s : ~Before(s[i], s[1])

\* The findings that categorisation has filed.
Filed == 2..(IF pc = "demote" THEN k - 1 ELSE Len(triggered))

\* The entries of list s are filed findings, each there once.
FiledIn(s) ==
  /\ \A i \in DOMAIN s : \E m \in Filed : s[i] = triggered[m]
  /\ \A i, j \in DOMAIN s : s[i].id = s[j].id => i = j

(***************************************************************************)
(* The report while it is written and afterwards: it is led by the first   *)
(* finding, and every other one that was filed is in one of the two lists  *)
(* unless it is suppressed.                                                *)
(***************************************************************************)
Categorized ==
  /\ report.primary = <<triggered[1]>>
  /\ FiledIn(report.contributing) /\ FiledIn(report.secondary)
  /\ \A i \in DOMAIN report.contributing, j \in DOMAIN report.secondary :
       report.contributing[i].id # report.secondary[j].id
  /\ \A m \in Filed :
       \/ triggered[m].id \in SuppressionSet(triggered[1])
       \/ \E i \in DOMAIN report.contributing : report.contributing[i] = triggered[m]
       \/ \E i \in DOMAIN report.secondary : report.secondary[i] = triggered[m]

(***************************************************************************)
(* The report is empty until the findings are sorted.                      *)
(***************************************************************************)
ReportInv ==
  /\ pc \in {"categorize", "demote", "done"} => LedByWorst(triggered)
  /\ pc \notin {"demote", "done"} => report = NoReport
  /\ pc = "done" /\ triggered = <<>> => report = NoReport
  /\ pc = "demote" => k \in 2..(Len(triggered) + 1)
  /\ pc \in {"demote", "done"} /\ triggered # <<>> => Categorized

EngineInv == TypeInv /\ CertaintyInv /\ FindingsInv /\ ReportInv

-----------------------------------------------------------------------------
(* What the operators of the engine yield.                                 *)

LEMMA RuleType ==
  ASSUME NEW i \in DOMAIN Rules
  PROVE  /\ Rules[i] \in Rule
         /\ Rules[i].id \in Ids /\ Rules[i].tier \in 1..3
         /\ Rules[i].severity \in Severities /\ Rules[i].confidence \in 0..One
         /\ Rules[i].resource \in Resources \cup {"none"}
<1>1. Rules[i] \in Rule
  BY EngineAssumption DEF IsRuleList
<1>2. QED
  BY <1>1 DEF Rule, Ids

LEMMA RulesAreNumbered ==
  Len(Rules) \in Nat /\ DOMAIN Rules = 1..Len(Rules)
BY EngineAssumption DEF IsRuleList

(***************************************************************************)
(* GetRule finds the rule of an ID.                                        *)
(***************************************************************************)
LEMMA RuleOfId ==
  ASSUME NEW i \in DOMAIN Rules
  PROVE  RuleOf(Rules[i].id) = Rules[i]
<1>1. (CHOOSE j \in DOMAIN Rules : Rules[j].id = Rules[i].id) = i
  BY EngineAssumption DEF IsRuleList
<1>2. QED
  BY <1>1 DEF RuleOf

LEMMA ResourceType ==
  ASSUME NEW id \in Ids
  PROVE  RuleOf(id).resource \in Resources \cup {"none"}
<1>1. PICK i \in DOMAIN Rules : Rules[i].id = id
  BY DEF Ids
<1>2. QED
  BY <1>1, RuleOfId, RuleType

\* Numbers of a confidence.
LEMMA Scale ==
  /\ One \in Nat /\ Doubtful \in Nat /\ Lifted \in Nat /\ SkipTier3Threshold \in Nat
  /\ Doubtful < Lifted /\ Lifted < SkipTier3Threshold /\ SkipTier3Threshold < One
BY SMT DEF One, Doubtful, Lifted, SkipTier3Threshold

LEMMA InRange ==
  \A c : c \in 0..One <=> c \in Nat /\ c <= One
BY Scale, SMT

(***************************************************************************)
(* A penalty leaves a confidence between 0 and 1, and doubtful.            *)
(***************************************************************************)
LEMMA Penalties ==
  ASSUME NEW c \in Nat, c <= One
  PROVE  /\ (c * 50) \div 100 \in Nat /\ (c * 50) \div 100 <= Doubtful
         /\ (c * 60) \div 100 \in Nat /\ (c * 60) \div 100 <= Doubtful
BY SMT DEF One, Doubtful

(***************************************************************************)
(* A confidence is between 0 and 1 after the penalties, and a hard limit   *)
(* below the threshold is doubtful.                                        *)
(***************************************************************************)
LEMMA PenalisedBounds ==
  ASSUME NEW i \in DOMAIN Rules
  PROVE  /\ Penalised(Rules[i], isRoot) \in Nat
         /\ Penalised(Rules[i], isRoot) <= One
         /\ Rules[i].tier = 1 /\ Penalised(Rules[i], isRoot) < SkipTier3Threshold
              => Penalised(Rules[i], isRoot) <= Doubtful
<1> DEFINE c == Rules[i].confidence
           half == (c * 50) \div 100
           j == IF clockJump THEN half ELSE c
           part == (j * 60) \div 100
<1>1. c \in Nat /\ c <= One /\ (Rules[i].tier = 1 => c >= SkipTier3Threshold)
  BY RuleType, EngineAssumption, InRange, Zenon DEF IsRuleList
<1>2. Penalised(Rules[i], isRoot) = IF ~isRoot /\ Rules[i].pidDependent THEN part ELSE j
  BY DEF Penalised
<1>3. half \in Nat /\ half <= Doubtful
  BY <1>1, Penalties, Zenon
<1> HIDE DEF c, half
<1>4. j \in Nat /\ j <= One /\ (j = c \/ j <= Doubtful)
  BY <1>1, <1>3, Scale, SMT
<1>5. part \in Nat /\ part <= Doubtful
  <2> HIDE DEF j
  <2> QED BY <1>4, Penalties, Zenon
<1> HIDE DEF j, part
<1>6. QED
  BY <1>1, <1>2, <1>4, <1>5, Scale, SMT

LEMMA EvaluateRuleType ==
  ASSUME NEW i \in DOMAIN Rules
  PROVE  EvaluateRule(Rules[i]) \in Diagnosis
BY RuleType, PenalisedBounds, SMT DEF EvaluateRule, Diagnosis

LEMMA Calibration ==
  ASSUME NEW c \in Nat
  PROVE  /\ (c * 110) \div 100 \in Nat /\ (c * 70) \div 100 \in Nat
         /\ c <= Doubtful => (c * 110) \div 100 <= Lifted /\ (c * 70) \div 100 <= Lifted
BY SMT DEF Doubtful, Lifted

(***************************************************************************)
(* The calibration changes nothing but the confidence, keeps it between 0  *)
(* and 1, and adds at most a tenth.                                        *)
(***************************************************************************)
LEMMA CalibratedBounds ==
  ASSUME NEW d \in Diagnosis
  PROVE  /\ Calibrated(d) \in Diagnosis
         /\ Calibrated(d).id = d.id /\ Calibrated(d).tier = d.tier
         /\ Calibrated(d).severity = d.severity
         /\ Calibrated(d).confidence <= One
         /\ d.confidence <= Doubtful => Calibrated(d).confidence <= Lifted
<1> DEFINE res == RuleOf(d.id).resource
           raised == (d.confidence * 110) \div 100
           lowered == (d.confidence * 70) \div 100
           c == IF res = "none" THEN d.confidence
                ELSE CASE psi[res] = "high" -> raised
                       [] psi[res] = "low"  -> lowered
                       [] OTHER             -> d.confidence
<1>1. d.confidence \in Nat
  BY DEF Diagnosis
<1>2. /\ raised \in Nat /\ lowered \in Nat
      /\ d.confidence <= Doubtful => raised <= Lifted /\ lowered <= Lifted
  BY <1>1, Calibration, Zenon
<1>3. Calibrated(d) = [d EXCEPT !.confidence = ClampConfidence(c)]
  BY DEF Calibrated
<1> HIDE DEF raised, lowered
<1>4. c \in Nat /\ (d.confidence <= Doubtful => c <= Lifted)
  BY <1>1, <1>2, Scale, SMT
<1> HIDE DEF c
<1>5. /\ ClampConfidence(c) \in Nat /\ ClampConfidence(c) <= One
      /\ d.confidence <= Doubtful => ClampConfidence(c) <= Lifted
  BY <1>4, Scale, SMT DEF ClampConfidence
<1>6. QED
  BY <1>3, <1>5, SMT DEF Diagnosis

-----------------------------------------------------------------------------
(* Sorting.                                                                *)

(***************************************************************************)
(* Under a strict total order of 1..n, where A[i] are those ahead of i,    *)
(* every place is taken by exactly one element.                            *)
(***************************************************************************)
LEMMA EveryPlaceOnce ==
  ASSUME NEW n \in Nat, NEW A \in [1..n -> SUBSET (1..n)],
         \A i \in 1..n : i \notin A[i],
         \A i, j \in 1..n : j \in A[i] => A[j] \subseteq A[i],
         \A i, j \in 1..n : i # j => i \in A[j] \/ j \in A[i]
  PROVE  /\ \A i \in 1..n : Cardinality(A[i]) + 1 \in 1..n
         /\ \A i, j \in 1..n : Cardinality(A[i]) = Cardinality(A[j]) => i = j
         /\ \A p \in 1..n : \E i \in 1..n : Cardinality(A[i]) = p - 1
<1> DEFINE place == [i \in 1..n |-> Cardinality(A[i]) + 1]
<1>1. IsFiniteSet(1..n) /\ Cardinality(1..n) = n
  BY FS_Interval
<1>2. ASSUME NEW i \in 1..n
      PROVE  /\ IsFiniteSet(A[i]) /\ Cardinality(A[i]) \in Nat
             /\ IsFiniteSet(A[i] \cup {i})
             /\ Cardinality(A[i] \cup {i}) = Cardinality(A[i]) + 1
  BY <1>1, FS_Subset, FS_CardinalityType, FS_AddElement
<1>3. ASSUME NEW i \in 1..n PROVE Cardinality(A[i]) + 1 \in 1..n
  <2> DEFINE c == Cardinality(A[i])
             d == Cardinality(A[i] \cup {i})
  <2>1. A[i] \cup {i} \in SUBSET (1..n)
    OBVIOUS
  <2>2. d <= n
    BY <1>1, <2>1, FS_Subset
  <2>3. c \in Nat /\ d = c + 1
    BY <1>2
  <2> HIDE DEF c, d
  <2>4. c + 1 \in 1..n
    BY <2>2, <2>3
  <2>5. QED
    BY <2>4 DEF c
<1>4. ASSUME NEW i \in 1..n, NEW j \in A[i]
      PROVE  Cardinality(A[j]) < Cardinality(A[i])
  <2> DEFINE c == Cardinality(A[i])
             d == Cardinality(A[j])
             e == Cardinality(A[j] \cup {j})
  <2>1. j \in 1..n /\ A[j] \cup {j} \in SUBSET A[i]
    OBVIOUS
  <2>2. e <= c
    BY <1>2, <2>1, FS_Subset
  <2>3. c \in Nat /\ d \in Nat /\ e = d + 1
    BY <1>2, <2>1
  <2> HIDE DEF c, d, e
  <2>4. d < c
    BY <2>2, <2>3
  <2>5. QED
    BY <2>4 DEF c, d
<1>5. ASSUME NEW i \in 1..n, NEW j \in 1..n, Cardinality(A[i]) = Cardinality(A[j])
      PROVE  i = j
  <2> DEFINE c == Cardinality(A[i])
             d == Cardinality(A[j])
  <2>1. c \in Nat /\ d \in Nat
    BY <1>2
  <2>2. i \in A[j] => c < d
    BY <1>4
  <2>3. j \in A[i] => d < c
    BY <1>4
  <2>4. c = d
    BY <1>5
  <2> HIDE DEF c, d
  <2>5. ~(c < d) /\ ~(d < c)
    BY <2>1, <2>4
  <2>6. QED
    BY <2>2, <2>3, <2>5
<1>6. place \in [1..n -> 1..n] /\ \A i, j \in 1..n : place[i] = place[j] => i = j
  <2>1. place \in [1..n -> 1..n]
    BY <1>3
  <2>2. ASSUME NEW i \in 1..n, NEW j \in 1..n, place[i] = place[j]
        PROVE  i = j
    <3> DEFINE c == Cardinality(A[i])
               d == Cardinality(A[j])
    <3>1. c \in Nat /\ d \in Nat
      BY <1>2
    <3>2. c + 1 = d + 1
      BY <2>2
    <3> HIDE DEF c, d
    <3>3. c = d
      BY <3>1, <3>2
    <3>4. QED
      BY <1>5, <3>3 DEF c, d
  <2>3. QED
    BY <2>1, <2>2
<1>7. place \in Injection(1..n, 1..n)
  BY <1>6, Fun_IsInj
<1>8. place \in Surjection(1..n, 1..n)
  BY <1>1, <1>7, FS_Injection
<1>9. \A p \in 1..n : \E i \in 1..n : place[i] = p
  <2> HIDE DEF place
  <2> QED BY <1>8 DEF Surjection
<1>10. ASSUME NEW p \in 1..n PROVE \E i \in 1..n : Cardinality(A[i]) = p - 1
  <2>1. PICK i \in 1..n : place[i] = p
    BY <1>9
  <2> DEFINE c == Cardinality(A[i])
  <2>2. c \in Nat /\ c + 1 = p
    BY <1>2, <2>1
  <2> HIDE DEF c
  <2>3. c = p - 1
    BY <2>2
  <2>4. QED
    BY <2>3 DEF c
<1>11. QED
  BY <1>3, <1>5, <1>10

LEMMA RankType ==
  ASSUME NEW severity
  PROVE  SeverityRank(severity) \in Nat
BY DEF SeverityRank

(***************************************************************************)
(* Being ahead is a strict total order of the positions.                   *)
(***************************************************************************)
LEMMA AheadIsTotalOrder ==
  ASSUME NEW s \in Seq(Diagnosis), NEW i \in DOMAIN s
  PROVE  /\ Ahead(s, i) \in SUBSET DOMAIN s
         /\ i \notin Ahead(s, i)
         /\ \A j \in Ahead(s, i) : Ahead(s, j) \subseteq Ahead(s, i)
         /\ \A j \in DOMAIN s : i # j => i \in Ahead(s, j) \/ j \in Ahead(s, i)
<1>1. ASSUME NEW j \in DOMAIN s
      PROVE  /\ j \in Nat /\ s[j].tier \in Nat /\ s[j].confidence \in Nat
             /\ SeverityRank(s[j].severity) \in Nat
  <2>1. s[j] \in Diagnosis
    OBVIOUS
  <2>2. QED
    BY <2>1, RankType DEF Diagnosis
<1>2. i \notin Ahead(s, i)
  BY <1>1 DEF Ahead, Before
<1>3. ASSUME NEW j \in Ahead(s, i), NEW l \in Ahead(s, j)
      PROVE  l \in Ahead(s, i)
  BY <1>1 DEF Ahead, Before
<1>4. ASSUME NEW j \in DOMAIN s, i # j
      PROVE  i \in Ahead(s, j) \/ j \in Ahead(s, i)
  BY <1>1, <1>4 DEF Ahead, Before
<1>5. QED
  BY <1>2, <1>3, <1>4 DEF Ahead

(***************************************************************************)
(* SortDiagnoses keeps every finding and puts a worst one first.           *)
(***************************************************************************)
LEMMA SortPermutes ==
  ASSUME NEW s \in Seq(Diagnosis)
  PROVE  /\ SortDiagnoses(s) \in Seq(Diagnosis) /\ DOMAIN SortDiagnoses(s) = DOMAIN s
         /\ \A p \in DOMAIN s : \E i \in DOMAIN s : SortDiagnoses(s)[p] = s[i]
         /\ \A i \in DOMAIN s : \E p \in DOMAIN s : SortDiagnoses(s)[p] = s[i]
         /\ (\A i, j \in DOMAIN s : s[i].id = s[j].id => i = j)
              => \A p, q \in DOMAIN s :
                   SortDiagnoses(s)[p].id = SortDiagnoses(s)[q].id => p = q
         /\ LedByWorst(SortDiagnoses(s))
<1> DEFINE n == Len(s)
           A == [i \in 1..n |-> Ahead(s, i)]
           g(p) == CHOOSE i \in DOMAIN s : Cardinality(Ahead(s, i)) = p - 1
           t == SortDiagnoses(s)
<1>1. n \in Nat /\ DOMAIN s = 1..n
  OBVIOUS
<1>2. A \in [1..n -> SUBSET (1..n)]
  BY <1>1, AheadIsTotalOrder
<1>3. /\ \A i \in 1..n : i \notin A[i]
      /\ \A i, j \in 1..n : j \in A[i] => A[j] \subseteq A[i]
      /\ \A i, j \in 1..n : i # j => i \in A[j] \/ j \in A[i]
  BY <1>1, AheadIsTotalOrder
<1>4. /\ \A i, j \in 1..n : Cardinality(A[i]) = Cardinality(A[j]) => i = j
      /\ \A p \in 1..n : \E i \in 1..n : Cardinality(A[i]) = p - 1
      /\ \A i \in 1..n : Cardinality(A[i]) + 1 \in 1..n
  <2> HIDE DEF A, n
  <2> QED BY <1>1, <1>2, <1>3, EveryPlaceOnce, Zenon
<1>5. /\ \A i, j \in DOMAIN s : Cardinality(Ahead(s, i)) = Cardinality(Ahead(s, j)) => i = j
      /\ \A p \in DOMAIN s : \E i \in DOMAIN s : Cardinality(Ahead(s, i)) = p - 1
      /\ \A i \in DOMAIN s : Cardinality(Ahead(s, i)) + 1 \in DOMAIN s
  BY <1>1, <1>4
<1>6. ASSUME NEW p \in DOMAIN s
      PROVE  g(p) \in DOMAIN s /\ Cardinality(Ahead(s, g(p))) = p - 1
  BY <1>5
<1>7. ASSUME NEW i \in DOMAIN s
       PROVE  IsFiniteSet(Ahead(s, i)) /\ Cardinality(Ahead(s, i)) \in Nat
  <2>1. IsFiniteSet(DOMAIN s)
    BY <1>1, FS_Interval
  <2>2. Ahead(s, i) \in SUBSET DOMAIN s
    BY AheadIsTotalOrder
  <2>3. IsFiniteSet(Ahead(s, i))
    BY <2>1, <2>2, FS_Subset
  <2>4. QED
    BY <2>3, FS_CardinalityType
<1>8. DOMAIN t = DOMAIN s /\ \A p \in DOMAIN s : t[p] = s[g(p)]
  BY DEF SortDiagnoses
<1> HIDE DEF g, t, n, A
<1>9. t \in Seq(Diagnosis)
  <2>1. \A p \in 1..n : t[p] \in Diagnosis
    BY <1>1, <1>6, <1>8
  <2>2. t = [p \in 1..n |-> t[p]]
    BY <1>1, <1>8 DEF t, SortDiagnoses
  <2>3. QED
    BY <1>1, <2>1, <2>2
<1>10. \A p \in DOMAIN s : \E i \in DOMAIN s : t[p] = s[i]
  BY <1>6, <1>8
<1>11. ASSUME NEW i \in DOMAIN s PROVE \E p \in DOMAIN s : t[p] = s[i]
  <2> DEFINE p == Cardinality(Ahead(s, i)) + 1
  <2>1. p \in DOMAIN s /\ Cardinality(Ahead(s, i)) \in Nat
    BY <1>5, <1>7
  <2>2. Cardinality(Ahead(s, g(p))) = Cardinality(Ahead(s, i))
    BY <1>6, <2>1
  <2>3. g(p) = i
    BY <1>5, <1>6, <2>1, <2>2
  <2>4. QED
    BY <1>8, <2>1, <2>3
<1>12. ASSUME \A i, j \in DOMAIN s : s[i].id = s[j].id => i = j
       PROVE  \A p, q \in DOMAIN s : t[p].id = t[q].id => p = q
  <2> SUFFICES ASSUME NEW p \in DOMAIN s, NEW q \in DOMAIN s, t[p].id = t[q].id
               PROVE  p = q
    OBVIOUS
  <2>1. g(p) = g(q)
    BY <1>6, <1>8, <1>12
  <2>2. QED
    BY <1>1, <1>6, <2>1
<1>13. LedByWorst(t)
  <2> SUFFICES ASSUME NEW p \in DOMAIN t PROVE ~Before(t[p], t[1])
    BY DEF LedByWorst
  <2>1. 1 \in DOMAIN s /\ p \in DOMAIN s
    BY <1>1, <1>8
  <2>2. Ahead(s, g(1)) = {}
    BY <1>6, <1>7, <2>1, FS_EmptySet
  <2>3. ~Before(s[g(p)], s[g(1)])
    BY <1>6, <2>1, <2>2 DEF Ahead
  <2>4. QED
    BY <1>8, <2>1, <2>3
<1>14. QED
  BY <1>8, <1>9, <1>10, <1>11, <1>12, <1>13 DEF t

-----------------------------------------------------------------------------
(* Types.                                                                  *)

LEMMA ReportShape ==
  ASSUME report \in Reports
  PROVE  /\ report = [primary |-> report.primary, contributing |-> report.contributing,
                      secondary |-> report.secondary]
         /\ report.primary \in Seq(Diagnosis) /\ report.contributing \in Seq(Diagnosis)
         /\ report.secondary \in Seq(Diagnosis)
BY DEF Reports

LEMMA EntryType ==
  ASSUME TypeInv, NEW i \in DOMAIN triggered
  PROVE  /\ triggered[i] \in Diagnosis /\ i \in 1..Len(triggered)
         /\ triggered[i].id \in Ids /\ triggered[i].tier \in Nat
         /\ triggered[i].confidence \in Nat
<1>1. triggered[i] \in Diagnosis /\ i \in 1..Len(triggered)
  BY DEF TypeInv, TypeOK
<1>2. QED
  BY <1>1 DEF Diagnosis

LEMMA Appended ==
  ASSUME NEW s \in Seq(Diagnosis), NEW d \in Diagnosis
  PROVE  \E n : /\ DOMAIN Append(s, d) = DOMAIN s \cup {n} /\ n \notin DOMAIN s
               /\ Append(s, d)[n] = d
               /\ \A j \in DOMAIN s : Append(s, d)[j] = s[j]
<1>1. /\ DOMAIN Append(s, d) = DOMAIN s \cup {Len(s) + 1} /\ Len(s) + 1 \notin DOMAIN s
      /\ Append(s, d)[Len(s) + 1] = d
      /\ \A j \in DOMAIN s : Append(s, d)[j] = s[j]
  OBVIOUS
<1>2. QED
  BY <1>1

LEMMA InitTypeInv == Init => TypeInv
<1> SUFFICES ASSUME Init PROVE TypeInv
  OBVIOUS
<1>1. psi \in [Resources -> Levels]
  BY EngineAssumption DEF Init
<1>2. <<>> \in Seq(Diagnosis)
  OBVIOUS
<1>3. NoReport \in Reports
  BY <1>2 DEF NoReport, Reports
<1>4. report \in Reports
  BY <1>3 DEF Init
<1>5. highConf \in BOOLEAN /\ tier3 \in BOOLEAN
  BY DEF Init
<1>6. QED
  BY <1>1, <1>2, <1>4, <1>5, ReportShape DEF Init, TypeInv, TypeOK

(***************************************************************************)
(* SetDisabledRules disables registered rules only: those listed before    *)
(* the first unknown ID.                                                   *)
(***************************************************************************)
LEMMA KeptAreRegistered ==
  ASSUME NEW ids \in IdLists
  PROVE  LET unknown == {i \in DOMAIN ids : ids[i] \notin Ids \cup {""}}
             kept == {ids[i] : i \in {j \in DOMAIN ids : \A u \in unknown : j < u}}
         IN  kept \ {""} \subseteq Ids
<1>1. ids \in Seq(STRING)
  BY EngineAssumption
<1>2. \A i \in DOMAIN ids : i \in Nat
  BY <1>1
<1>3. \A i \in DOMAIN ids : ~(i < i)
  BY <1>2
<1>4. QED
  BY <1>3, Zenon

(***************************************************************************)
(* Sequences of findings: the calibration and the sorting keep the length. *)
(***************************************************************************)
LEMMA FindingsKept ==
  ASSUME triggered \in Seq(Diagnosis), CalibrateDiagnoses \/ Sort
  PROVE  triggered' \in Seq(Diagnosis) /\ DOMAIN triggered' = DOMAIN triggered
<1>1. CASE CalibrateDiagnoses
  <2>1. \A i \in 1..Len(triggered) : Calibrated(triggered[i]) \in Diagnosis
    BY CalibratedBounds
  <2>2. triggered' = [i \in 1..Len(triggered) |-> Calibrated(triggered[i])]
    BY <1>1 DEF CalibrateDiagnoses
  <2>3. QED
    BY <2>1, <2>2
<1>2. CASE Sort
  BY <1>2, SortPermutes DEF Sort
<1>3. QED
  BY <1>1, <1>2

LEMMA PendingAreRules ==
  ASSUME TypeInv, NEW i \in Pending
  PROVE  i \in DOMAIN Rules /\ i \in Nat /\ i >= k /\ Rules[i].tier = tier
BY RulesAreNumbered DEF Pending, TypeInv, TypeOK

(***************************************************************************)
(* What one iteration over the rules does.                                 *)
(***************************************************************************)
LEMMA EvaluateStep ==
  ASSUME TypeInv, Evaluate
  PROVE  \E i \in DOMAIN Rules :
           LET d == EvaluateRule(Rules[i])
               hit == Rules[i].id \in fires \ disabled
           IN  /\ i \in Nat /\ i >= k /\ Rules[i].tier = tier /\ k' = i + 1
               /\ \A j \in DOMAIN Rules : Rules[j].tier = tier /\ k <= j => i <= j
               /\ d \in Diagnosis /\ Append(triggered, d) \in Seq(Diagnosis)
               /\ hit => triggered' = Append(triggered, d)
               /\ ~hit => triggered' = triggered
               /\ highConf' = (highConf \/ (hit /\ tier = 1
                                            /\ d.confidence >= SkipTier3Threshold))
<1>1. PICK i \in Pending :
        LET d == EvaluateRule(Rules[i])
            hit == Rules[i].id \in fires \ disabled
        IN  /\ \A j \in Pending : i <= j
            /\ triggered' = IF hit THEN Append(triggered, d) ELSE triggered
            /\ highConf' = (highConf \/ (hit /\ tier = 1
                                         /\ d.confidence >= SkipTier3Threshold))
            /\ k' = i + 1
  BY Zenon DEF Evaluate
<1>2. i \in DOMAIN Rules /\ i \in Nat /\ i >= k /\ Rules[i].tier = tier
  BY PendingAreRules
<1>3. \A j \in DOMAIN Rules : Rules[j].tier = tier /\ k <= j => i <= j
  BY <1>1, RulesAreNumbered DEF Pending, TypeInv, TypeOK
<1>4. EvaluateRule(Rules[i]) \in Diagnosis
  BY <1>2, EvaluateRuleType
<1>5. Append(triggered, EvaluateRule(Rules[i])) \in Seq(Diagnosis)
  BY <1>4 DEF TypeInv, TypeOK
<1>6. QED
  BY <1>1, <1>2, <1>3, <1>4, <1>5, Zenon

LEMMA TypeStep ==
  ASSUME TypeInv, [Next]_vars
  PROVE  TypeInv'
<1> USE DEF TypeInv, TypeOK
<1>1. CASE SetDisabledRules
  <2>1. disabled' \subseteq Ids
    BY <1>1, KeptAreRegistered, Zenon DEF SetDisabledRules
  <2>2. pc' \in {"evaluate", "usage"}
    BY <1>1 DEF SetDisabledRules
  <2>3. QED
    BY <1>1, <2>1, <2>2 DEF SetDisabledRules, input
<1>2. CASE Evaluate
  <2>1. k' \in Nat /\ k' >= 1 /\ triggered' \in Seq(Diagnosis)
    <3>1. PICK i \in DOMAIN Rules :
            /\ i \in Nat /\ k' = i + 1
            /\ Append(triggered, EvaluateRule(Rules[i])) \in Seq(Diagnosis)
            /\ \/ triggered' = triggered
               \/ triggered' = Append(triggered, EvaluateRule(Rules[i]))
      BY <1>2, EvaluateStep, Zenon
    <3>2. k' \in Nat /\ k' >= 1
      BY <3>1
    <3>3. QED
      BY <3>1, <3>2
  <2>2. highConf' \in BOOLEAN
    BY <1>2, Zenon DEF Evaluate
  <2>3. pc' = "evaluate"
    BY <1>2 DEF Evaluate
  <2>4. QED
    BY <1>2, <2>1, <2>2, <2>3 DEF Evaluate, input
<1>3. CASE NextTier
  <2>1. tier3' \in BOOLEAN
    BY <1>3, Zenon DEF NextTier
  <2>2. QED
    BY <1>3, <2>1 DEF NextTier, input
<1>4. CASE EndEvaluation
  BY <1>4 DEF EndEvaluation, input
<1>5. CASE CalibrateDiagnoses
  <2>1. triggered' \in Seq(Diagnosis) /\ triggered' # <<>>
    BY <1>5, FindingsKept DEF CalibrateDiagnoses
  <2>2. QED
    BY <1>5, <2>1 DEF CalibrateDiagnoses, input
<1>6. CASE Sort
  <2>1. triggered' \in Seq(Diagnosis) /\ triggered' # <<>>
    BY <1>6, FindingsKept DEF Sort
  <2>2. QED
    BY <1>6, <2>1 DEF Sort, input
<1>7. CASE NamePrimary
  <2>1. <<triggered[1]>> \in Seq(Diagnosis)
    BY <1>7 DEF NamePrimary
  <2>2. report' \in Reports
    BY <1>7, <2>1 DEF NamePrimary, Reports
  <2>3. report'.primary \in Seq(Diagnosis) /\ report'.contributing \in Seq(Diagnosis)
        /\ report'.secondary \in Seq(Diagnosis)
    BY <2>2 DEF Reports
  <2>4. pc' = "demote" /\ k' = 2 /\ triggered' = triggered /\ triggered # <<>>
    BY <1>7 DEF NamePrimary
  <2>5. QED
    BY <1>7, <2>2, <2>3, <2>4 DEF NamePrimary, input
<1>8. CASE Demote
  <2>1. triggered[k] \in Diagnosis
    BY <1>8 DEF Demote
  <2>2. /\ Append(report.contributing, triggered[k]) \in Seq(Diagnosis)
        /\ Append(report.secondary, triggered[k]) \in Seq(Diagnosis)
    BY <2>1
  <2>3. \/ report' = report
        \/ report' = [report EXCEPT !.contributing = Append(@, triggered[k])]
        \/ report' = [report EXCEPT !.secondary = Append(@, triggered[k])]
    BY <1>8 DEF Demote
  <2>4. report' \in Reports
    BY <2>2, <2>3 DEF Reports
  <2>5. report'.primary \in Seq(Diagnosis) /\ report'.contributing \in Seq(Diagnosis)
        /\ report'.secondary \in Seq(Diagnosis)
    BY <2>4 DEF Reports
  <2>6. k' \in Nat /\ k' >= 1
    BY <1>8 DEF Demote
  <2>7. QED
    BY <1>8, <2>4, <2>5, <2>6 DEF Demote, input
<1>9. CASE EndDemotion
  BY <1>9 DEF EndDemotion, input
<1>10. CASE UNCHANGED vars
  BY <1>10 DEF vars, input
<1>11. QED
  BY <1>1, <1>2, <1>3, <1>4, <1>5, <1>6, <1>7, <1>8, <1>9, <1>10 DEF Next, Returned

(***************************************************************************)
(* Every variable of the engine has its type.                              *)
(***************************************************************************)
THEOREM EngineTypeOK == Spec => []TypeOK
<1>1. Spec => []TypeInv
  BY InitTypeInv, TypeStep, PTL DEF Spec
<1>2. TypeInv => TypeOK
  BY DEF TypeInv
<1>3. QED
  BY <1>1, <1>2, PTL

-----------------------------------------------------------------------------
(* Confidences.                                                            *)

LEMMA InitCertainty == Init => CertaintyInv
<1> SUFFICES ASSUME Init PROVE CertaintyInv
  OBVIOUS
<1>1. triggered = <<>> /\ tier # 3 /\ tier3 = FALSE
  BY DEF Init
<1>2. DOMAIN triggered = {}
  BY <1>1
<1>3. tier3 = (tier = 3)
  BY <1>1, Zenon
<1>4. QED
  BY <1>1, <1>2, <1>3, Zenon DEF CertaintyInv, ConfidenceInRange

\* The parts of CertaintyInv that an entry of the list of findings has to meet.
Certain(d, certain, t, limit) ==
  /\ d.confidence \in Nat /\ d.confidence <= One
  /\ d.tier <= t
  /\ d.tier = 1 /\ ~certain => d.confidence <= limit

LEMMA CertaintyOfEach ==
  ASSUME TypeInv
  PROVE  CertaintyInv <=>
           /\ tier3 = (tier = 3)
           /\ ~DisableEarlyExit /\ tier = 3 => ~highConf
           /\ \A i \in DOMAIN triggered :
                Certain(triggered[i], highConf, tier,
                        IF pc \in Uncalibrated THEN Doubtful ELSE Lifted)
BY InRange, Zenon DEF CertaintyInv, ConfidenceInRange, Certain

LEMMA CertaintyStep ==
  ASSUME TypeInv, CertaintyInv, [Next]_vars
  PROVE  CertaintyInv'
<1> DEFINE limit == IF pc \in Uncalibrated THEN Doubtful ELSE Lifted
<1> USE DEF Uncalibrated
<1>1. TypeInv'
  BY TypeStep
<1>2. /\ tier3 = (tier = 3)
      /\ ~DisableEarlyExit /\ tier = 3 => ~highConf
      /\ \A i \in DOMAIN triggered : Certain(triggered[i], highConf, tier, limit)
  BY CertaintyOfEach
<1>3. SUFFICES /\ tier3' = (tier' = 3)
               /\ ~DisableEarlyExit /\ tier' = 3 => ~highConf'
               /\ \A i \in DOMAIN triggered' :
                    Certain(triggered'[i], highConf', tier', limit')
  BY <1>1, InRange, Zenon DEF CertaintyInv, ConfidenceInRange, Certain
<1> HIDE DEF limit
<1>4. CASE SetDisabledRules
  <2>1. pc = "configure" /\ pc' \in {"evaluate", "usage"}
    BY <1>4 DEF SetDisabledRules
  <2>2. limit' = limit
    BY <2>1 DEF limit
  <2>3. /\ tier' = tier /\ highConf' = highConf /\ tier3' = tier3
        /\ triggered' = triggered
    BY <1>4, Zenon DEF SetDisabledRules
  <2>4. QED
    BY <1>2, <2>2, <2>3
<1>5. CASE Evaluate
  <2>1. PICK i \in DOMAIN Rules :
           LET d == EvaluateRule(Rules[i])
               hit == Rules[i].id \in fires \ disabled
           IN  /\ Rules[i].tier = tier
               /\ d \in Diagnosis /\ Append(triggered, d) \in Seq(Diagnosis)
               /\ hit => triggered' = Append(triggered, d)
               /\ ~hit => triggered' = triggered
               /\ highConf' = (highConf \/ (hit /\ tier = 1
                                            /\ d.confidence >= SkipTier3Threshold))
    BY <1>5, EvaluateStep, Zenon
  <2> DEFINE d == EvaluateRule(Rules[i])
  <2>2. limit' = limit /\ limit = Doubtful /\ tier' = tier /\ tier3' = tier3
    BY <1>5 DEF Evaluate, limit
  <2>3. highConf => highConf'
    BY <2>1, Zenon
  <2>4. \A j \in DOMAIN triggered : Certain(triggered[j], highConf', tier, Doubtful)
    BY <1>2, <2>2, <2>3, Zenon DEF Certain
  <2>5. tier = 3 => (highConf' <=> highConf)
    <3>1. tier = 3 => ~(tier = 1)
      OBVIOUS
    <3>2. QED
      BY <2>1, <3>1, Zenon
  <2>6. ASSUME Rules[i].id \in fires \ disabled
        PROVE  Certain(d, highConf', tier, Doubtful)
    <3>1. /\ d.confidence \in Nat /\ d.confidence <= One /\ d.tier = Rules[i].tier
          /\ Rules[i].tier = 1 /\ d.confidence < SkipTier3Threshold
               => d.confidence <= Doubtful
      BY PenalisedBounds DEF EvaluateRule
    <3>2. tier \in Nat
      BY DEF TypeInv, TypeOK
    <3>3. tier = 1 /\ ~highConf' => ~(d.confidence >= SkipTier3Threshold)
      BY <2>1, <2>6, Zenon
    <3> HIDE DEF d
    <3>4. QED
      BY <2>1, <3>1, <3>2, <3>3, Scale DEF Certain
  <2>7. \A j \in DOMAIN triggered' : Certain(triggered'[j], highConf', tier, Doubtful)
    <3>1. CASE Rules[i].id \in fires \ disabled
      <4>1. \A j \in DOMAIN triggered' :
              triggered'[j] = d \/ (j \in DOMAIN triggered /\ triggered'[j] = triggered[j])
        BY <2>1, <3>1 DEF TypeInv, TypeOK
      <4>2. QED
        BY <2>4, <2>6, <3>1, <4>1, Zenon
    <3>2. CASE Rules[i].id \notin fires \ disabled
      BY <2>1, <2>4, <3>2
    <3>3. QED
      BY <3>1, <3>2
  <2>8. QED
    BY <1>2, <2>2, <2>5, <2>7, Zenon
<1>6. CASE NextTier
  <2>1. limit' = limit /\ triggered' = triggered /\ highConf' = highConf
    BY <1>6 DEF NextTier, limit
  <2>2. tier \in {1, 2} /\ tier' = tier + 1
    BY <1>6 DEF NextTier, TypeInv, TypeOK
  <2>3. tier' = 3 <=> tier = 2
    BY <2>2
  <2>4. tier3' = (tier' = 3)
    BY <1>6, <2>3, Zenon DEF NextTier
  <2>5. ~DisableEarlyExit /\ tier' = 3 => ~highConf'
    <3>1. ~(tier = 2 /\ SkipTier3)
      BY <1>6 DEF NextTier
    <3>2. QED
      BY <2>1, <2>3, <3>1 DEF SkipTier3
  <2>6. \A j \in DOMAIN triggered : triggered[j].tier <= tier => triggered[j].tier <= tier'
    <3>1. \A j \in DOMAIN triggered : triggered[j].tier \in Nat
      BY EntryType
    <3>2. QED
      BY <2>2, <3>1
  <2>7. \A j \in DOMAIN triggered : Certain(triggered[j], highConf, tier', limit)
    BY <1>2, <2>6, Zenon DEF Certain
  <2>8. QED
    BY <2>1, <2>4, <2>5, <2>7
<1>7. CASE EndEvaluation
  <2>1. /\ tier' = tier /\ highConf' = highConf /\ tier3' = tier3
        /\ triggered' = triggered
    BY <1>7, Zenon DEF EndEvaluation
  <2>2. limit = Doubtful /\ limit' \in {Doubtful, Lifted}
    BY <1>7 DEF EndEvaluation, limit
  <2>3. \A j \in DOMAIN triggered : Certain(triggered[j], highConf, tier, limit')
    BY <1>2, <2>2, Scale DEF Certain
  <2>4. QED
    BY <1>2, <2>1, <2>3
<1>8. CASE CalibrateDiagnoses
  <2>1. /\ tier' = tier /\ highConf' = highConf /\ tier3' = tier3
        /\ limit = Doubtful /\ limit' = Lifted
        /\ DOMAIN triggered' = DOMAIN triggered
        /\ \A j \in DOMAIN triggered : triggered'[j] = Calibrated(triggered[j])
    BY <1>8 DEF CalibrateDiagnoses, limit
  <2>2. \A j \in DOMAIN triggered : triggered[j] \in Diagnosis
    BY DEF TypeInv, TypeOK
  <2>3. ASSUME NEW j \in DOMAIN triggered
        PROVE  Certain(Calibrated(triggered[j]), highConf, tier, Lifted)
    <3>1. Calibrated(triggered[j]).confidence \in Nat
      BY <2>2, CalibratedBounds DEF Diagnosis
    <3>2. Certain(triggered[j], highConf, tier, Doubtful)
      BY <1>2, <2>1
    <3>3. QED
      BY <2>2, <3>1, <3>2, CalibratedBounds, Zenon DEF Certain
  <2>4. QED
    BY <1>2, <2>1, <2>3
<1>9. CASE Sort
  <2>1. /\ tier' = tier /\ highConf' = highConf /\ tier3' = tier3
        /\ limit' = limit /\ triggered' = SortDiagnoses(triggered)
    BY <1>9 DEF Sort, limit
  <2>2. \A p \in DOMAIN triggered' : \E i \in DOMAIN triggered : triggered'[p] = triggered[i]
    BY <2>1, SortPermutes DEF TypeInv, TypeOK
  <2>3. QED
    BY <1>2, <2>1, <2>2
<1>10. CASE NamePrimary \/ Demote \/ EndDemotion \/ UNCHANGED vars
  <2>1. /\ tier' = tier /\ highConf' = highConf /\ tier3' = tier3
        /\ triggered' = triggered
    BY <1>10, Zenon DEF NamePrimary, Demote, EndDemotion, vars
  <2>2. limit' = limit
    BY <1>10 DEF NamePrimary, Demote, EndDemotion, vars, limit
  <2>3. QED
    BY <1>2, <2>1, <2>2
<1>11. QED
  BY <1>4, <1>5, <1>6, <1>7, <1>8, <1>9, <1>10 DEF Next, Returned

(***************************************************************************)
(* Every confidence stays between 0 and 1: the penalties only lower it,    *)
(* and the calibration is clamped.                                         *)
(***************************************************************************)
THEOREM EngineConfidenceInRange == Spec => []ConfidenceInRange
<1>1. Init => TypeInv /\ CertaintyInv
  BY InitTypeInv, InitCertainty
<1>2. TypeInv /\ CertaintyInv /\ [Next]_vars => (TypeInv /\ CertaintyInv)'
  BY TypeStep, CertaintyStep
<1>3. CertaintyInv => ConfidenceInRange
  BY DEF CertaintyInv
<1>4. QED
  BY <1>1, <1>2, <1>3, PTL DEF Spec

(***************************************************************************)
(* Tier 3 is only looked at while every hard limit found is doubtful, and  *)
(* the calibration, which comes later, lifts none over the threshold.      *)
(***************************************************************************)
THEOREM EngineEdgeCasesOnlyWithoutHardLimit == Spec => []EdgeCasesOnlyWithoutHardLimit
<1>1. Init => TypeInv /\ CertaintyInv
  BY InitTypeInv, InitCertainty
<1>2. TypeInv /\ CertaintyInv /\ [Next]_vars => (TypeInv /\ CertaintyInv)'
  BY TypeStep, CertaintyStep
<1>3. TypeInv /\ CertaintyInv => EdgeCasesOnlyWithoutHardLimit
  <2> SUFFICES ASSUME TypeInv, CertaintyInv, pc = "done", ~DisableEarlyExit,
                      NEW i \in DOMAIN triggered, NEW j \in DOMAIN triggered,
                      triggered[i].tier = 3, triggered[j].tier = 1
               PROVE  triggered[j].confidence < SkipTier3Threshold
    BY DEF EdgeCasesOnlyWithoutHardLimit
  <2>1. tier = 3
    BY DEF TypeInv, TypeOK, CertaintyInv
  <2>2. ~highConf
    BY <2>1 DEF CertaintyInv
  <2>3. pc \notin Uncalibrated
    BY DEF Uncalibrated
  <2>4. triggered[j].confidence <= Lifted
    BY <2>2, <2>3, Zenon DEF CertaintyInv
  <2>5. triggered[j].confidence \in Nat
    BY EntryType
  <2>6. QED
    BY <2>4, <2>5, Scale
<1>4. QED
  BY <1>1, <1>2, <1>3, PTL DEF Spec

-----------------------------------------------------------------------------
(* Findings.                                                               *)

LEMMA InitFindings == Init => FindingsInv
<1> SUFFICES ASSUME Init PROVE FindingsInv
  OBVIOUS
<1>1. DOMAIN triggered = {}
  BY DEF Init
<1>2. Visited = {}
  <2>1. pc = "configure" /\ tier = 1 /\ k = 1
    BY DEF Init
  <2>2. \A r \in DOMAIN Rules : r \in 1..Len(Rules) /\ Rules[r].tier \in 1..3
    BY RulesAreNumbered, RuleType
  <2>3. QED
    BY <2>1, <2>2, RulesAreNumbered DEF Visited
<1>3. QED
  BY <1>1, <1>2 DEF FindingsInv, Hits

(***************************************************************************)
(* Which rules a step visits: the loop body the one it evaluates, and no   *)
(* other step any.                                                         *)
(***************************************************************************)
LEMMA VisitedStep ==
  ASSUME TypeInv, CertaintyInv
  PROVE  /\ SetDisabledRules => Visited' = Visited
         /\ NextTier => Visited' = Visited
         /\ EndEvaluation => Visited' = Visited
         /\ \A i \in DOMAIN Rules :
              Evaluate /\ i >= k /\ Rules[i].tier = tier /\ k' = i + 1
              /\ (\A j \in DOMAIN Rules : Rules[j].tier = tier /\ k <= j => i <= j)
                => Visited' = Visited \cup {i} /\ i \notin Visited
<1>1. \A r \in DOMAIN Rules : r \in Nat /\ r >= 1 /\ Rules[r].tier \in 1..3
  BY RulesAreNumbered, RuleType
<1>2. k \in Nat /\ tier \in 1..3
  BY DEF TypeInv, TypeOK
<1>3. ASSUME SetDisabledRules PROVE Visited' = Visited
  <2>1. /\ pc = "configure" /\ pc' \in {"evaluate", "usage"}
    BY <1>3 DEF SetDisabledRules
  <2>2. tier' = tier /\ k' = k
    BY <1>3, Zenon DEF SetDisabledRules
  <2>3. QED
    BY <2>1, <2>2 DEF Visited
<1>4. Pending = {} => \A r \in DOMAIN Rules : Rules[r].tier = tier => r < k
  BY <1>1, <1>2, RulesAreNumbered DEF Pending
<1>5. ASSUME NextTier PROVE Visited' = Visited
  <2>1. pc = "evaluate" /\ pc' = "evaluate" /\ tier' = tier + 1 /\ k' = 1
    BY <1>5 DEF NextTier
  <2>2. \A r \in DOMAIN Rules : Rules[r].tier = tier => r < k
    BY <1>4, <1>5 DEF NextTier
  <2>3. \A r \in DOMAIN Rules :
          (Rules[r].tier < tier \/ (Rules[r].tier = tier /\ r < k))
            <=> (Rules[r].tier < tier + 1 \/ (Rules[r].tier = tier + 1 /\ r < 1))
    BY <1>1, <1>2, <2>2
  <2>4. QED
    BY <2>1, <2>3 DEF Visited
<1>6. ASSUME EndEvaluation PROVE Visited' = Visited
  <2>1. /\ pc = "evaluate" /\ pc' \in {"done", "calibrate", "sort"}
        /\ tier' = tier /\ tier3' = tier3 /\ tier \in {2, 3}
    BY <1>6 DEF EndEvaluation
  <2>2. \A r \in DOMAIN Rules : Rules[r].tier = tier => r < k
    BY <1>4, <1>6 DEF EndEvaluation
  <2>3. tier3 <=> tier = 3
    BY DEF CertaintyInv
  <2>4. \A r \in DOMAIN Rules :
          (Rules[r].tier < tier \/ (Rules[r].tier = tier /\ r < k))
            <=> (Rules[r].tier < 3 \/ tier3)
    BY <1>1, <2>1, <2>2, <2>3
  <2>5. QED
    BY <2>1, <2>4 DEF Visited
<1>7. ASSUME NEW i \in DOMAIN Rules,
             Evaluate, i >= k, Rules[i].tier = tier, k' = i + 1,
             \A j \in DOMAIN Rules : Rules[j].tier = tier /\ k <= j => i <= j
      PROVE  Visited' = Visited \cup {i} /\ i \notin Visited
  <2>1. pc = "evaluate" /\ pc' = "evaluate" /\ tier' = tier
    BY <1>7, Zenon DEF Evaluate
  <2>2. \A r \in DOMAIN Rules :
          (Rules[r].tier < tier \/ (Rules[r].tier = tier /\ r < i + 1))
            <=> (Rules[r].tier < tier \/ (Rules[r].tier = tier /\ r < k) \/ r = i)
    BY <1>1, <1>2, <1>7
  <2>3. ~(Rules[i].tier < tier) /\ ~(i < k)
    BY <1>1, <1>2, <1>7
  <2>4. QED
    BY <1>7, <2>1, <2>2, <2>3 DEF Visited
<1>8. QED
  BY <1>3, <1>5, <1>6, <1>7

LEMMA FindingsStep ==
  ASSUME TypeInv, CertaintyInv, FindingsInv, [Next]_vars
  PROVE  FindingsInv'
<1> DEFINE T == DOMAIN triggered
           U == DOMAIN triggered'
<1>1. /\ pc = "configure" => Visited = {}
      /\ \A i \in T : \E r \in Hits : Rules[r].id = triggered[i].id
      /\ \A r \in Hits : \E i \in T : triggered[i].id = Rules[r].id
      /\ \A i, j \in T : triggered[i].id = triggered[j].id => i = j
  BY DEF FindingsInv
<1>2. SUFFICES /\ pc' = "configure" => Visited' = {}
               /\ \A i \in U : \E r \in Hits' : Rules[r].id = triggered'[i].id
               /\ \A r \in Hits' : \E i \in U : triggered'[i].id = Rules[r].id
               /\ \A i, j \in U : triggered'[i].id = triggered'[j].id => i = j
  BY DEF FindingsInv
<1>3. CASE SetDisabledRules
  <2>1. Visited = {} /\ Visited' = {}
    BY <1>1, <1>3, VisitedStep DEF SetDisabledRules
  <2>2. Hits = {} /\ Hits' = {}
    BY <2>1 DEF Hits
  <2>3. triggered' = triggered
    BY <1>3, Zenon DEF SetDisabledRules
  <2>4. QED
    BY <1>1, <2>1, <2>2, <2>3
<1>4. CASE Evaluate
  <2>1. PICK i \in DOMAIN Rules :
           LET d == EvaluateRule(Rules[i])
               hit == Rules[i].id \in fires \ disabled
           IN  /\ i \in Nat /\ i >= k /\ Rules[i].tier = tier /\ k' = i + 1
               /\ \A j \in DOMAIN Rules : Rules[j].tier = tier /\ k <= j => i <= j
               /\ d \in Diagnosis /\ Append(triggered, d) \in Seq(Diagnosis)
               /\ hit => triggered' = Append(triggered, d)
               /\ ~hit => triggered' = triggered
    BY <1>4, EvaluateStep, Zenon
  <2> DEFINE d == EvaluateRule(Rules[i])
  <2>2. Visited' = Visited \cup {i} /\ i \notin Visited
    BY <1>4, <2>1, VisitedStep, Zenon
  <2>3. pc' # "configure" /\ fires' = fires /\ disabled' = disabled
    BY <1>4 DEF Evaluate, input
  <2>4. d.id = Rules[i].id
    BY DEF EvaluateRule
  <2>5. CASE Rules[i].id \in fires \ disabled
    <3>1. Hits' = Hits \cup {i}
      BY <2>2, <2>3, <2>5 DEF Hits
    <3>2. /\ triggered \in Seq(Diagnosis) /\ triggered' = Append(triggered, d)
          /\ d \in Diagnosis
      BY <2>1, <2>5 DEF TypeInv, TypeOK
    <3> HIDE DEF d
    <3>3. PICK n : /\ U = T \cup {n} /\ n \notin T
                   /\ triggered'[n] = d /\ \A j \in T : triggered'[j] = triggered[j]
      BY <3>2, Appended
    <3>4. \A j \in T : triggered[j].id # Rules[i].id
      <4> SUFFICES ASSUME NEW j \in T, triggered[j].id = Rules[i].id PROVE FALSE
        OBVIOUS
      <4>1. PICK r \in Hits : Rules[r].id = triggered[j].id
        BY <1>1
      <4>2. r \in Visited /\ r \in DOMAIN Rules
        BY DEF Hits, Visited
      <4>3. r = i
        BY <4>1, <4>2, EngineAssumption DEF IsRuleList
      <4>4. QED
        BY <2>2, <4>2, <4>3
    <3>5. \A j \in U : \E r \in Hits' : Rules[r].id = triggered'[j].id
      BY <1>1, <2>4, <3>1, <3>3
    <3>6. \A r \in Hits' : \E j \in U : triggered'[j].id = Rules[r].id
      BY <1>1, <2>4, <3>1, <3>3
    <3>7. \A j, l \in U : triggered'[j].id = triggered'[l].id => j = l
      BY <1>1, <2>4, <3>3, <3>4
    <3>8. QED
      BY <2>3, <3>5, <3>6, <3>7
  <2>6. CASE Rules[i].id \notin fires \ disabled
    <3>1. Hits' = Hits
      BY <2>2, <2>3, <2>6 DEF Hits
    <3>2. triggered' = triggered
      BY <2>1, <2>6
    <3>3. QED
      BY <1>1, <2>3, <3>1, <3>2
  <2>7. QED
    BY <2>5, <2>6
<1>5. CASE NextTier \/ EndEvaluation
  <2>1. Visited' = Visited
    BY <1>5, VisitedStep
  <2>2. /\ pc' # "configure" /\ fires' = fires /\ disabled' = disabled
        /\ triggered' = triggered
    BY <1>5 DEF NextTier, EndEvaluation, input
  <2>3. Hits' = Hits
    BY <2>1, <2>2 DEF Hits
  <2>4. QED
    BY <1>1, <2>2, <2>3
<1>6. ASSUME \/ CalibrateDiagnoses \/ Sort \/ NamePrimary \/ Demote \/ EndDemotion
             \/ UNCHANGED vars
      PROVE  Hits' = Hits /\ (pc' = "configure" => Visited' = {})
  <2>1. fires' = fires /\ disabled' = disabled /\ tier3' = tier3
    BY <1>6, Zenon DEF CalibrateDiagnoses, Sort, NamePrimary, Demote, EndDemotion, vars, input
  <2>2. \/ /\ pc' \notin {"configure", "usage", "evaluate"}
           /\ pc \notin {"configure", "usage", "evaluate"}
        \/ pc' = pc /\ tier' = tier /\ k' = k
    BY <1>6 DEF CalibrateDiagnoses, Sort, NamePrimary, Demote, EndDemotion, vars
  <2>3. Visited' = Visited
    BY <2>1, <2>2 DEF Visited
  <2>4. QED
    BY <1>1, <2>1, <2>2, <2>3 DEF Hits
<1>7. CASE CalibrateDiagnoses
  <2>1. /\ U = T
        /\ \A j \in T : triggered'[j] = Calibrated(triggered[j])
    BY <1>7 DEF CalibrateDiagnoses
  <2>2. \A j \in T : triggered'[j].id = triggered[j].id
    BY <2>1, EntryType, CalibratedBounds
  <2>3. QED
    BY <1>1, <1>6, <1>7, <2>1, <2>2
<1>8. CASE Sort
  <2>1. triggered \in Seq(Diagnosis) /\ triggered' = SortDiagnoses(triggered)
    BY <1>8 DEF Sort, TypeInv, TypeOK
  <2>2. /\ U = T
        /\ \A p \in T : \E i \in T : triggered'[p] = triggered[i]
        /\ \A i \in T : \E p \in T : triggered'[p] = triggered[i]
        /\ \A p, q \in T : triggered'[p].id = triggered'[q].id => p = q
    <3>1. /\ DOMAIN SortDiagnoses(triggered) = T
          /\ \A p \in T : \E i \in T : SortDiagnoses(triggered)[p] = triggered[i]
          /\ \A i \in T : \E p \in T : SortDiagnoses(triggered)[p] = triggered[i]
          /\ \A p, q \in T :
               SortDiagnoses(triggered)[p].id = SortDiagnoses(triggered)[q].id => p = q
      BY <1>1, <2>1, SortPermutes
    <3>2. QED
      BY <2>1, <3>1
  <2>3. ASSUME NEW p \in U PROVE \E r \in Hits : Rules[r].id = triggered'[p].id
    <3>1. PICK i \in T : triggered'[p] = triggered[i]
      BY <2>2
    <3>2. QED
      BY <1>1, <3>1
  <2>4. ASSUME NEW r \in Hits PROVE \E p \in U : triggered'[p].id = Rules[r].id
    <3>1. PICK i \in T : triggered[i].id = Rules[r].id
      BY <1>1
    <3>2. PICK p \in T : triggered'[p] = triggered[i]
      BY <2>2
    <3>3. QED
      BY <2>2, <3>1, <3>2
  <2>5. pc' # "configure"
    BY <1>8 DEF Sort
  <2>6. QED
    BY <1>6, <1>8, <2>2, <2>3, <2>4, <2>5
<1>9. CASE NamePrimary \/ Demote \/ EndDemotion \/ UNCHANGED vars
  <2>1. triggered' = triggered
    BY <1>9, Zenon DEF NamePrimary, Demote, EndDemotion, vars
  <2>2. QED
    BY <1>1, <1>6, <1>9, <2>1
<1>10. QED
  BY <1>3, <1>4, <1>5, <1>7, <1>8, <1>9 DEF Next, Returned

-----------------------------------------------------------------------------
(* The report.                                                             *)

LEMMA InitReport == Init => ReportInv
BY DEF Init, ReportInv

(***************************************************************************)
(* A finding is filed in one list: what is in the other has another ID.    *)
(***************************************************************************)
LEMMA DemoteFiles ==
  ASSUME TypeInv, FindingsInv, ReportInv, Demote
  PROVE  Categorized'
<1> DEFINE d == triggered[k]
           C == report.contributing
           S == report.secondary
<1>1. /\ pc = "demote" /\ pc' = "demote" /\ k \in 2..Len(triggered)
      /\ k' = k + 1 /\ triggered' = triggered /\ triggered # <<>>
  BY DEF Demote, TypeInv, TypeOK, ReportInv
<1>2. Categorized
  BY <1>1 DEF ReportInv
<1>3. Filed' = Filed \cup {k} /\ k \notin Filed
  BY <1>1 DEF Filed
<1>4. \A m \in Filed : triggered[m].id # d.id
  <2>1. Filed \subseteq DOMAIN triggered /\ k \in DOMAIN triggered
    BY <1>1 DEF Filed, TypeInv, TypeOK
  <2>2. QED
    BY <1>3, <2>1 DEF FindingsInv
<1>5. d \in Diagnosis /\ C \in Seq(Diagnosis) /\ S \in Seq(Diagnosis)
  BY <1>1 DEF TypeInv, TypeOK
<1> DEFINE Holds(s, F) == /\ \A i \in DOMAIN s : \E m \in F : s[i] = triggered[m]
                          /\ \A i, j \in DOMAIN s : s[i].id = s[j].id => i = j
           Apart(s, t) == \A i \in DOMAIN s, j \in DOMAIN t : s[i].id # t[j].id
           Has(s, m) == \E i \in DOMAIN s : s[i] = triggered[m]
<1>6. ASSUME NEW s \in Seq(Diagnosis), Holds(s, Filed)
      PROVE  /\ Holds(s, Filed') /\ Holds(Append(s, d), Filed') /\ Has(Append(s, d), k)
             /\ \A i \in DOMAIN s : s[i].id # d.id
             /\ \A m \in Filed : Has(s, m) => Has(Append(s, d), m)
  <2>1. PICK n : /\ DOMAIN Append(s, d) = DOMAIN s \cup {n} /\ n \notin DOMAIN s
                 /\ Append(s, d)[n] = d
                 /\ \A j \in DOMAIN s : Append(s, d)[j] = s[j]
    BY <1>5, Appended
  <2>2. ASSUME NEW i \in DOMAIN s PROVE s[i].id # d.id
    <3>1. PICK m \in Filed : s[i] = triggered[m]
      BY <1>6
    <3>2. QED
      BY <1>4, <3>1
  <2>3. Holds(s, Filed')
    BY <1>3, <1>6
  <2>4. \A i \in DOMAIN Append(s, d) : \E m \in Filed' : Append(s, d)[i] = triggered[m]
    <3> SUFFICES ASSUME NEW i \in DOMAIN Append(s, d)
                 PROVE  \E m \in Filed' : Append(s, d)[i] = triggered[m]
      OBVIOUS
    <3>1. CASE i = n
      BY <1>3, <2>1, <3>1
    <3>2. CASE i \in DOMAIN s
      BY <2>1, <2>3, <3>2
    <3>3. QED
      BY <2>1, <3>1, <3>2
  <2>5. \A i, j \in DOMAIN Append(s, d) : Append(s, d)[i].id = Append(s, d)[j].id => i = j
    BY <1>6, <2>1, <2>2
  <2>6. Has(Append(s, d), k) /\ \A m \in Filed : Has(s, m) => Has(Append(s, d), m)
    BY <2>1
  <2>7. QED
    BY <2>2, <2>3, <2>4, <2>5, <2>6
<1>7. ASSUME NEW s \in Seq(Diagnosis), NEW t \in Seq(Diagnosis), Apart(s, t),
             \A i \in DOMAIN t : t[i].id # d.id
      PROVE  Apart(Append(s, d), t) /\ Apart(t, Append(s, d))
  <2>1. PICK n : /\ DOMAIN Append(s, d) = DOMAIN s \cup {n} /\ n \notin DOMAIN s
                 /\ Append(s, d)[n] = d
                 /\ \A j \in DOMAIN s : Append(s, d)[j] = s[j]
    BY <1>5, Appended
  <2>2. QED
    BY <1>7, <2>1
<1>8. /\ report.primary = <<triggered[1]>>
      /\ Holds(C, Filed) /\ Holds(S, Filed) /\ Apart(C, S)
      /\ \A m \in Filed : triggered[m].id \in SuppressionSet(triggered[1]) \/ Has(C, m) \/ Has(S, m)
  BY <1>2 DEF Categorized, FiledIn
<1>9. SUFFICES /\ report'.primary = <<triggered[1]>>
               /\ Holds(report'.contributing, Filed') /\ Holds(report'.secondary, Filed')
               /\ Apart(report'.contributing, report'.secondary)
               /\ \A m \in Filed' : \/ triggered[m].id \in SuppressionSet(triggered[1])
                                    \/ Has(report'.contributing, m)
                                    \/ Has(report'.secondary, m)
  BY <1>1 DEF Categorized, FiledIn, SuppressionSet, RuleOf
<1> HIDE DEF Holds, Apart, Has, d, C, S
<1>10. Apart(S, C)
  BY <1>8 DEF Apart
<1>11. CASE d.id \in SuppressionSet(report.primary[1])
  <2>1. report' = report
    BY <1>11 DEF Demote, d
  <2>2. d.id \in SuppressionSet(triggered[1])
    BY <1>8, <1>11
  <2>3. QED
    BY <1>3, <1>5, <1>6, <1>8, <2>1, <2>2 DEF C, S, d
<1>12. CASE report' = [report EXCEPT !.contributing = Append(C, d)]
  <2>1. /\ report'.primary = report.primary /\ report'.contributing = Append(C, d)
        /\ report'.secondary = S
    BY <1>12 DEF TypeInv, Reports, S
  <2>2. QED
    BY <1>3, <1>5, <1>6, <1>7, <1>8, <1>10, <2>1
<1>13. CASE report' = [report EXCEPT !.secondary = Append(S, d)]
  <2>1. /\ report'.primary = report.primary /\ report'.contributing = C
        /\ report'.secondary = Append(S, d)
    BY <1>13 DEF TypeInv, Reports, C
  <2>2. QED
    BY <1>3, <1>5, <1>6, <1>7, <1>8, <1>10, <2>1
<1>14. QED
  BY <1>11, <1>12, <1>13 DEF Demote, C, S, d

LEMMA ReportStep ==
  ASSUME TypeInv, FindingsInv, ReportInv, [Next]_vars
  PROVE  ReportInv'
<1>1. CASE SetDisabledRules \/ Evaluate \/ NextTier
  <2>1. report' = report
    BY <1>1, Zenon DEF SetDisabledRules, Evaluate, NextTier
  <2>2. pc \in {"configure", "evaluate"} /\ pc' \in {"usage", "evaluate"}
    BY <1>1 DEF SetDisabledRules, Evaluate, NextTier
  <2>3. QED
    BY <2>1, <2>2 DEF ReportInv, NoReport
<1>2. CASE EndEvaluation
  <2>1. /\ pc = "evaluate" /\ triggered' = triggered /\ report' = report
        /\ pc' = IF triggered = <<>> THEN "done"
                 ELSE IF psiAvailable THEN "calibrate" ELSE "sort"
    BY <1>2 DEF EndEvaluation
  <2>2. LedByWorst(<<>>)
    BY DEF LedByWorst
  <2>3. QED
    BY <2>1, <2>2 DEF ReportInv, NoReport
<1>3. CASE CalibrateDiagnoses
  BY <1>3 DEF CalibrateDiagnoses, ReportInv, NoReport
<1>4. CASE Sort
  <2>1. LedByWorst(triggered')
    BY <1>4, SortPermutes DEF Sort, TypeInv, TypeOK
  <2>2. pc = "sort" /\ pc' = "categorize" /\ report' = report
    BY <1>4 DEF Sort
  <2>3. QED
    BY <2>1, <2>2 DEF ReportInv, NoReport, LedByWorst, Before, SeverityRank
<1>5. CASE NamePrimary
  <2>1. /\ pc = "categorize" /\ pc' = "demote" /\ k' = 2 /\ triggered' = triggered
        /\ report = NoReport /\ triggered # <<>>
        /\ report' = [report EXCEPT !.primary = <<triggered[1]>>]
    BY <1>5 DEF NamePrimary, ReportInv, TypeInv
  <2>2. report' = [primary |-> <<triggered[1]>>, contributing |-> <<>>, secondary |-> <<>>]
    BY <2>1 DEF NoReport
  <2>3. Filed' = {}
    BY <2>1 DEF Filed
  <2>4. Categorized'
    BY <2>1, <2>2, <2>3 DEF Categorized, FiledIn
  <2>5. k' \in 2..(Len(triggered) + 1)
    BY <2>1 DEF TypeInv, TypeOK
  <2>6. LedByWorst(triggered)'
    BY <2>1 DEF ReportInv, LedByWorst, Before, SeverityRank
  <2>7. QED
    BY <2>1, <2>4, <2>5, <2>6 DEF ReportInv
<1>6. CASE Demote
  <2>1. Categorized'
    BY <1>6, DemoteFiles
  <2>2. /\ pc = "demote" /\ pc' = "demote" /\ k' = k + 1 /\ k <= Len(triggered)
        /\ triggered' = triggered /\ triggered # <<>>
    BY <1>6 DEF Demote, TypeInv
  <2>3. k' \in 2..(Len(triggered) + 1)
    BY <2>2 DEF ReportInv, TypeInv, TypeOK
  <2>4. LedByWorst(triggered)'
    BY <2>2 DEF ReportInv, LedByWorst, Before, SeverityRank
  <2>5. QED
    BY <2>1, <2>2, <2>3, <2>4 DEF ReportInv
<1>7. CASE EndDemotion
  <2>1. /\ pc = "demote" /\ pc' = "done" /\ triggered' = triggered /\ report' = report
        /\ triggered # <<>> /\ k > Len(triggered)
    BY <1>7 DEF EndDemotion, TypeInv
  <2>2. Filed' = Filed
    BY <2>1 DEF Filed, ReportInv, TypeInv, TypeOK
  <2>3. Categorized'
    BY <2>1, <2>2 DEF ReportInv, Categorized, FiledIn, SuppressionSet, RuleOf
  <2>4. LedByWorst(triggered)'
    BY <2>1 DEF ReportInv, LedByWorst, Before, SeverityRank
  <2>5. QED
    BY <2>1, <2>3, <2>4 DEF ReportInv
<1>8. CASE UNCHANGED vars
  <2>1. pc' = pc /\ k' = k /\ triggered' = triggered /\ report' = report
    BY <1>8 DEF vars
  <2>2. Filed' = Filed
    BY <2>1 DEF Filed
  <2>3. QED
    BY <2>1, <2>2 DEF ReportInv, Categorized, FiledIn, SuppressionSet, RuleOf,
                      LedByWorst, Before, SeverityRank, NoReport
<1>9. QED
  BY <1>1, <1>2, <1>3, <1>4, <1>5, <1>6, <1>7, <1>8 DEF Next, Returned

LEMMA EngineInduction == Spec => []EngineInv
<1>1. Init => EngineInv
  BY InitTypeInv, InitCertainty, InitFindings, InitReport DEF EngineInv
<1>2. EngineInv /\ [Next]_vars => EngineInv'
  BY TypeStep, CertaintyStep, FindingsStep, ReportStep DEF EngineInv
<1>3. QED
  BY <1>1, <1>2, PTL DEF Spec

(***************************************************************************)
(* The primary blocker is a finding that no other finding comes before: a  *)
(* hard limit is never outranked, and none of its tier is worse.           *)
(***************************************************************************)
THEOREM EnginePrimaryIsWorst == Spec => []PrimaryIsWorst
<1>1. EngineInv => PrimaryIsWorst
  <2> SUFFICES ASSUME EngineInv, pc = "done", triggered # <<>>
               PROVE  /\ report.primary # <<>>
                      /\ \A i \in DOMAIN triggered :
                           LET p == report.primary[1]
                               d == triggered[i]
                               rank == SeverityRank(d.severity)
                           IN  /\ p.tier <= d.tier
                               /\ p.tier = d.tier => rank <= SeverityRank(p.severity)
                               /\ p.tier = d.tier /\ rank = SeverityRank(p.severity)
                                    => d.confidence <= p.confidence
    BY DEF PrimaryIsWorst
  <2>1. report.primary = <<triggered[1]>>
    BY DEF EngineInv, ReportInv, Categorized
  <2>2. 1 \in DOMAIN triggered
    BY DEF EngineInv, TypeInv, TypeOK
  <2>3. ASSUME NEW i \in DOMAIN triggered
        PROVE  LET p == triggered[1]
                   d == triggered[i]
                   rank == SeverityRank(d.severity)
               IN  /\ p.tier <= d.tier
                   /\ p.tier = d.tier => rank <= SeverityRank(p.severity)
                   /\ p.tier = d.tier /\ rank = SeverityRank(p.severity)
                        => d.confidence <= p.confidence
    <3>1. ~Before(triggered[i], triggered[1])
      BY DEF EngineInv, ReportInv, LedByWorst
    <3>2. /\ triggered[1].tier \in Nat /\ triggered[1].confidence \in Nat
          /\ triggered[i].tier \in Nat /\ triggered[i].confidence \in Nat
      BY <2>2, EntryType DEF EngineInv
    <3>3. /\ SeverityRank(triggered[1].severity) \in Nat
          /\ SeverityRank(triggered[i].severity) \in Nat
      BY RankType
    <3>4. QED
      BY <3>1, <3>2, <3>3 DEF Before
  <2>4. report.primary # <<>> /\ report.primary[1] = triggered[1]
    BY <2>1
  <2>5. QED
    BY <2>3, <2>4
<1>2. QED
  BY <1>1, EngineInduction, PTL

\* No ID occurs twice in list s.
Once(s) == \A i, j \in DOMAIN s : s[i].id = s[j].id => i = j

IdsIn(s) == {s[i].id : i \in DOMAIN s}

(***************************************************************************)
(* Two lists with no ID in common, each without repetition, one after the  *)
(* other.                                                                  *)
(***************************************************************************)
LEMMA Concatenation ==
  ASSUME NEW s \in Seq(Diagnosis), NEW t \in Seq(Diagnosis), Once(s), Once(t),
         IdsIn(s) \cap IdsIn(t) = {}
  PROVE  /\ s \o t \in Seq(Diagnosis) /\ Once(s \o t)
         /\ IdsIn(s \o t) = IdsIn(s) \cup IdsIn(t)
<1> DEFINE c == s \o t
           m == Len(s)
           n == Len(t)
<1>1. m \in Nat /\ n \in Nat /\ DOMAIN s = 1..m /\ DOMAIN t = 1..n
  OBVIOUS
<1>2. /\ c \in Seq(Diagnosis) /\ DOMAIN c = 1..(m + n)
      /\ \A i \in 1..m : c[i] = s[i]
      /\ \A i \in (m + 1)..(m + n) : c[i] = t[i - m]
  OBVIOUS
<1> HIDE DEF c, m, n
<1>3. \A i \in DOMAIN t : i + m \in (m + 1)..(m + n) /\ c[i + m] = t[i]
  BY <1>1, <1>2
<1>4. ASSUME NEW i \in DOMAIN c
      PROVE  \/ i \in DOMAIN s /\ c[i] = s[i]
             \/ i - m \in DOMAIN t /\ c[i] = t[i - m] /\ i \in Int
  BY <1>1, <1>2
<1>5. IdsIn(c) = IdsIn(s) \cup IdsIn(t)
  <2>1. IdsIn(c) \subseteq IdsIn(s) \cup IdsIn(t)
    BY <1>4 DEF IdsIn
  <2>2. ASSUME NEW i \in DOMAIN s PROVE s[i].id \in IdsIn(c)
    <3>1. i \in DOMAIN c /\ c[i] = s[i]
      BY <1>1, <1>2
    <3>2. QED
      BY <3>1 DEF IdsIn
  <2>3. ASSUME NEW i \in DOMAIN t PROVE t[i].id \in IdsIn(c)
    <3>1. i + m \in DOMAIN c /\ c[i + m] = t[i]
      BY <1>1, <1>2, <1>3
    <3>2. QED
      BY <3>1 DEF IdsIn
  <2>4. QED
    BY <2>1, <2>2, <2>3 DEF IdsIn
<1>6. ASSUME NEW i \in DOMAIN c, NEW j \in DOMAIN c, c[i].id = c[j].id
      PROVE  i = j
  <2>1. CASE i \in DOMAIN s /\ c[i] = s[i] /\ j \in DOMAIN s /\ c[j] = s[j]
    BY <1>6, <2>1 DEF Once
  <2>2. CASE /\ i - m \in DOMAIN t /\ c[i] = t[i - m] /\ i \in Int
             /\ j - m \in DOMAIN t /\ c[j] = t[j - m] /\ j \in Int
    <3>1. i - m = j - m
      BY <1>6, <2>2 DEF Once
    <3>2. QED
      BY <1>1, <2>2, <3>1
  <2>3. \A p \in DOMAIN s, q \in DOMAIN t : s[p].id # t[q].id
    BY DEF IdsIn
  <2>4. QED
    BY <1>4, <1>6, <2>1, <2>2, <2>3
<1>7. QED
  BY <1>2, <1>5, <1>6 DEF c, Once

(***************************************************************************)
(* No finding gets lost or doubled: what is in the report are the findings *)
(* of the rules evaluated that fired and are not disabled, each once, less *)
(* those the primary blocker suppresses.                                   *)
(***************************************************************************)
THEOREM EngineEveryFindingAccounted == Spec => []EveryFindingAccounted
<1>1. EngineInv => EveryFindingAccounted
  <2> DEFINE hidden == IF report.primary = <<>> THEN {}
                       ELSE RuleOf(report.primary[1].id).suppresses
             C == report.contributing
             S == report.secondary
             T == IdsIn(triggered)
  <2> SUFFICES ASSUME EngineInv, pc = "done"
               PROVE  /\ IdsIn(AllReported) \subseteq Found
                      /\ Found \ IdsIn(AllReported) \subseteq hidden
                      /\ Once(AllReported)
    BY DEF EveryFindingAccounted, IdsIn, Once
  <2>1. Found = T
    <3>1. Found = {Rules[r].id : r \in Hits}
      BY DEF Found, Hits, Visited
    <3>2. QED
      BY <3>1 DEF EngineInv, FindingsInv, IdsIn
  <2>2. CASE triggered = <<>>
    <3>1. report = NoReport
      BY <2>2 DEF EngineInv, ReportInv
    <3>2. AllReported = <<>>
      BY <3>1 DEF NoReport, AllReported
    <3>3. T = {}
      BY <2>2 DEF IdsIn
    <3>4. IdsIn(AllReported) = {} /\ Once(AllReported)
      BY <3>2 DEF IdsIn, Once
    <3>5. QED
      BY <2>1, <3>3, <3>4
  <2>3. CASE triggered # <<>>
    <3> DEFINE first == triggered[1]
    <3>1. /\ triggered \in Seq(Diagnosis) /\ C \in Seq(Diagnosis) /\ S \in Seq(Diagnosis)
          /\ \A i, j \in DOMAIN triggered : triggered[i].id = triggered[j].id => i = j
      BY DEF EngineInv, TypeInv, TypeOK, FindingsInv
    <3>2. Categorized
      BY <2>3 DEF EngineInv, ReportInv
    <3>3. /\ first \in Diagnosis /\ 1 \in DOMAIN triggered /\ 1 \notin Filed
          /\ DOMAIN triggered = {1} \cup Filed
      <4> DEFINE n == Len(triggered)
      <4>1. n \in Nat /\ n >= 1 /\ DOMAIN triggered = 1..n
        BY <2>3, <3>1
      <4>2. Filed = 2..n
        BY DEF Filed
      <4> HIDE DEF n
      <4>3. 1 \in 1..n /\ 1 \notin 2..n /\ 1..n = {1} \cup 2..n
        BY <4>1
      <4>4. first \in Diagnosis
        BY <3>1, <4>1, <4>3
      <4>5. QED
        BY <4>1, <4>2, <4>3, <4>4
    <3>4. hidden = SuppressionSet(first) /\ report.primary = <<first>>
      BY <3>2 DEF Categorized, SuppressionSet
    <3>5. ASSUME NEW s, FiledIn(s)
          PROVE  Once(s) /\ IdsIn(s) \subseteq T /\ first.id \notin IdsIn(s)
      <4>1. ASSUME NEW i \in DOMAIN s PROVE s[i].id \in T /\ s[i].id # first.id
        <5>1. PICK m \in Filed : s[i] = triggered[m]
          BY <3>5 DEF FiledIn
        <5>2. QED
          BY <3>1, <3>3, <5>1 DEF IdsIn
      <4>2. QED
        BY <3>5, <4>1 DEF FiledIn, Once, IdsIn
    <3>6. /\ Once(C) /\ IdsIn(C) \subseteq T /\ first.id \notin IdsIn(C)
          /\ Once(S) /\ IdsIn(S) \subseteq T /\ first.id \notin IdsIn(S)
          /\ IdsIn(C) \cap IdsIn(S) = {}
      <4>1. IdsIn(C) \cap IdsIn(S) = {}
        BY <3>2 DEF Categorized, IdsIn
      <4>2. QED
        BY <3>2, <3>5, <4>1, Zenon DEF Categorized
    <3>7. /\ <<first>> \in Seq(Diagnosis) /\ Once(<<first>>)
          /\ IdsIn(<<first>>) = {first.id}
      BY <3>3 DEF Once, IdsIn
    <3>8. /\ <<first>> \o C \in Seq(Diagnosis) /\ Once(<<first>> \o C)
          /\ IdsIn(<<first>> \o C) = {first.id} \cup IdsIn(C)
      <4> HIDE DEF first, C
      <4>1. IdsIn(<<first>>) \cap IdsIn(C) = {}
        BY <3>6, <3>7
      <4>2. QED
        BY <3>1, <3>6, <3>7, <4>1, Concatenation
    <3>9. /\ Once(AllReported)
          /\ IdsIn(AllReported) = {first.id} \cup IdsIn(C) \cup IdsIn(S)
      <4>1. AllReported = (<<first>> \o C) \o S
        BY <3>4 DEF AllReported
      <4> HIDE DEF first, C, S
      <4>2. IdsIn(<<first>> \o C) \cap IdsIn(S) = {}
        BY <3>6, <3>8
      <4>3. QED
        BY <3>1, <3>6, <3>8, <4>1, <4>2, Concatenation
    <3>10. first.id \in T
      BY <3>3 DEF IdsIn
    <3>11. ASSUME NEW id \in T, id \notin IdsIn(AllReported) PROVE id \in hidden
      <4>1. PICK m \in DOMAIN triggered : triggered[m].id = id
        BY DEF IdsIn
      <4>2. m \in Filed
        BY <3>3, <3>9, <3>11, <4>1
      <4>3. ~\E i \in DOMAIN C : C[i] = triggered[m]
        BY <3>9, <3>11, <4>1 DEF IdsIn
      <4>4. ~\E i \in DOMAIN S : S[i] = triggered[m]
        BY <3>9, <3>11, <4>1 DEF IdsIn
      <4>5. QED
        BY <3>2, <3>4, <4>1, <4>2, <4>3, <4>4 DEF Categorized
    <3>12. QED
      BY <2>1, <3>6, <3>9, <3>10, <3>11
  <2>4. QED
    BY <2>2, <2>3
<1>2. QED
  BY <1>1, EngineInduction, PTL
=============================================================================
