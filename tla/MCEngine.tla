------------------------------ MODULE MCEngine ------------------------------
(***************************************************************************)
(* Instances of Engine for TLC: nine rules of the catalogue, in the order  *)
(* in which they are registered.  Suppression lists are cut down to them.  *)
(***************************************************************************)
EXTENDS Engine

R(id, t, pid, suppresses, resource, severity, confidence) ==
  [id |-> id, tier |-> t, pidDependent |-> pid, suppresses |-> suppresses,
   resource |-> resource, severity |-> severity, confidence |-> confidence * 1000]

MCRules == <<
  R("BASE_CPU_SATURATION", 1, TRUE, {"CONT_CONTEXT_SWITCH_STORM"},
    "cpu", "CRITICAL", 95),
  R("BASE_OOM_DANGER", 1, TRUE,
    {"CONT_KSWAPD_CPU_SPIN", "CONT_WORKINGSET_REFAULT_THRASHING"},
    "memory", "CRITICAL", 95),
  R("BASE_THERMAL_THROTTLING", 1, FALSE, {}, "none", "CRITICAL", 90),
  R("BASE_GLOBAL_OOM_KILL_ACTIVE", 1, FALSE,
    {"BASE_OOM_DANGER", "CONT_KSWAPD_CPU_SPIN"}, "memory", "CRITICAL", 99),
  R("CONT_CONTEXT_SWITCH_STORM", 2, FALSE, {}, "none", "HIGH", 88),
  R("CONT_WORKINGSET_REFAULT_THRASHING", 2, FALSE, {}, "memory", "HIGH", 87),
  R("CONT_KSWAPD_CPU_SPIN", 2, TRUE, {}, "memory", "HIGH", 92),
  R("EDGE_HPET_CLOCKSOURCE_DEGRADE", 3, FALSE, {}, "none", "HIGH", 95),
  R("EDGE_FUTEX_CONTENTION", 3, TRUE, {}, "none", "MEDIUM", 85)>>

\* What the catalogue says of these rules; TLC would evaluate Catalogue anew at
\* every use of Rules.
Book == INSTANCE Rulebook
ASSUME RulesAreOfTheCatalogue ==
  LET rules == Book!Catalogue
      ids == {MCRules[i].id : i \in DOMAIN MCRules}
      chosen == SelectSeq(rules, LAMBDA r : r.id \in ids)
  IN  MCRules = [i \in DOMAIN chosen |->
        R(chosen[i].id, chosen[i].tier, chosen[i].pidDependent,
          chosen[i].suppresses \cap ids, Book!ResourceOf(chosen[i].id),
          chosen[i].severity, chosen[i].confidence)]

\* The assumptions on the rules hold of the whole catalogue, too.
ASSUME CatalogueIsARuleList ==
  LET rules == Book!Catalogue
  IN  IsRuleList([i \in DOMAIN rules |->
        R(rules[i].id, rules[i].tier, rules[i].pidDependent, rules[i].suppresses,
          Book!ResourceOf(rules[i].id), rules[i].severity, rules[i].confidence)])

\* No rule of the instance is about I/O.  CPU and memory stall alike, or only one of them.
MCPsiReadings ==
  {p \in [Resources -> Levels] :
     p["io"] = "low" /\ (p["cpu"] = p["memory"] \/ "mid" \notin {p["cpu"], p["memory"]})}

MCIdLists ==
  {<<>>, <<"BASE_GLOBAL_OOM_KILL_ACTIVE", "">>,
   <<"BASE_THERMAL_THROTTLING", "NO_SUCH_RULE", "CONT_KSWAPD_CPU_SPIN">>}
=============================================================================
