---------------------------- MODULE SkillMatcher ----------------------------
(***************************************************************************)
(* Which skills a prompt gets, and in which order: PGSkillMatcher          *)
(* (internal/adapters/outbound/pg/skill_matcher.go), and the layers of the *)
(* prompt they are rendered into (internal/application/discipline).        *)
(*                                                                         *)
(* A skill is a row of the skills table.  An empty text of the code, a     *)
(* missing scope or filter, is Unset.  Globs are sets of the paths they    *)
(* match.                                                                  *)
(***************************************************************************)
EXTENDS SkillLifecycle, StructuralDetector, Functions

Unset == "*"

NoContext == [ change |-> "none" ]

Risks == { "low", "medium", "high", "critical" }

RiskOrder(risk) ==
  CASE risk = "low" -> 0 [] risk = "medium" -> 1 [] risk = "high" -> 2 [] risk = "critical" -> 3

-----------------------------------------------------------------------------
(* The filters.                                                            *)

ScopeMatches(s, q) ==
  /\ q.project = Unset \/ s.project \in {Unset, q.project}
  /\ q.repo = Unset \/ s.repo \in {Unset, q.repo}

AppliesWhenMatches(s, q) ==
  /\ s.features # {} /\ q.feature # Unset => q.feature \in s.features
  /\ q.touched # {} =>
       /\ q.touched \cap s.excludePaths = {}
       /\ s.touchedPaths # {} => q.touched \cap s.touchedPaths # {}

(* The version gate: a version that does not parse passes.                 *)
VersionGate(s, fw) ==
  \/ fw.name \notin DOMAIN s.minVersion
  \/ ~Parses(fw.version) \/ ~Parses(s.minVersion[fw.name])
  \/ fw.version.major >= s.minVersion[fw.name].major

(* Mutant: the name of the framework is enough.                            *)
AnyFrameworkMatchesByName(s, detected) ==
  \E i \in DOMAIN detected : detected[i].name \in s.frameworks

AnyFrameworkMatches(s, detected) ==
  \E i \in DOMAIN detected :
    detected[i].name \in s.frameworks /\ VersionGate(s, detected[i])

AnyLanguagePresent(s, detected) ==
  \E i \in DOMAIN detected : detected[i].name \in s.languages

(* Without a structural context nothing is filtered.                       *)
StructuralMatches(s, q) ==
  q.context # NoContext =>
    /\ s.frameworks # {} => AnyFrameworkMatches(s, q.context.frameworks)
    /\ s.languages # {} => AnyLanguagePresent(s, q.context.languages)

RiskWithin(s, q) == q.maxRisk # Unset => RiskOrder(s.risk) <= RiskOrder(q.maxRisk)

Matches(s, q) ==
  /\ s.status = "active"
  /\ q.phase # Unset => q.phase \in s.phases
  /\ ScopeMatches(s, q) /\ AppliesWhenMatches(s, q) /\ StructuralMatches(s, q) /\ RiskWithin(s, q)

-----------------------------------------------------------------------------
(* The order.  validatedAt is 0 when last_validated_at is NULL, and a      *)
(* usage count of zero sorts last, so both are plain descending orders.    *)

(* Mutant: the identifier does not break ties.                             *)
LessNoId(a, b) ==
  \/ RiskOrder(a.risk) < RiskOrder(b.risk)
  \/ /\ RiskOrder(a.risk) = RiskOrder(b.risk)
     /\ \/ a.validatedAt > b.validatedAt
        \/ a.validatedAt = b.validatedAt /\ a.usage > b.usage

Less(a, b) ==
  \/ RiskOrder(a.risk) < RiskOrder(b.risk)
  \/ /\ RiskOrder(a.risk) = RiskOrder(b.risk)
     /\ \/ a.validatedAt > b.validatedAt
        \/ /\ a.validatedAt = b.validatedAt
           /\ a.usage > b.usage \/ (a.usage = b.usage /\ a.id < b.id)

(* sort.SliceStable: equal elements keep the order of the list.            *)
SortSkills(list) ==
  LET before(i, j) == Less(list[i], list[j]) \/ (~Less(list[j], list[i]) /\ i < j)
      rank(i) == 1 + Cardinality({ j \in DOMAIN list : before(j, i) })
  IN  [ n \in 1 .. Len(list) |-> list[CHOOSE i \in DOMAIN list : rank(i) = n] ]

SkillsForContext(list, q) ==
  SortSkills(Select(list, { s \in Range(list) : Matches(s, q) }))

-----------------------------------------------------------------------------
(* PriorContext.  A layer is its name and the length of its body; skills   *)
(* that are not active are left out once more.                             *)

LayerNames ==
  { "skills", "structural_ctx", "episodes", "change_digests", "business_rules", "routines",
    "phase_identity" }

Layer == [ name : LayerNames, len : Nat ]

RenderSkills(skills) == Select(skills, { s \in Range(skills) : s.status = "active" })

(* layerBudgetShare, in hundredths.                                        *)
LayerBudgetShare(name) ==
  CASE name = "skills" -> 40
    [] name = "episodes" -> 20
    [] name \in {"change_digests", "business_rules"} -> 15
    [] name = "phase_identity" -> 10
    [] OTHER -> 100

Alloc(name, budget, remaining) ==
  LET share == (budget * LayerBudgetShare(name)) \div 100
  IN  IF share > remaining THEN remaining ELSE share

(* One turn of enforceBudget's loop: the layers kept so far, the bytes     *)
(* left, and whether the loop was left.  The marker of a truncated layer   *)
(* is not counted, here as in the code.                                    *)
BudgetStep(budget, b, layer) ==
  LET alloc == Alloc(layer.name, budget, b.remaining)
      fits  == layer.len <= alloc
      used  == IF fits THEN layer.len ELSE alloc
  IN  IF b.out THEN b
      ELSE [ kept |-> Append(b.kept, [ name |-> layer.name, len |-> used, cut |-> ~fits ]),
             remaining |-> b.remaining - used,
             out |-> ~fits /\ b.remaining - used <= 0 ]

EnforceBudget(layers, budget) ==
  LET after[n \in 0 .. Len(layers)] ==
        IF n = 0 THEN [ kept |-> << >>, remaining |-> budget, out |-> FALSE ]
        ELSE BudgetStep(budget, after[n - 1], layers[n])
  IN  after[Len(layers)].kept

(* A budget of 0 is none at all.  Every caller in the repository renders   *)
(* with the zero RenderOpts, so the prompts it sends today are not cut.    *)
Render(layers, budget) ==
  IF budget > 0 THEN EnforceBudget(layers, budget)
  ELSE [ i \in DOMAIN layers |-> [ name |-> layers[i].name, len |-> layers[i].len, cut |-> FALSE ] ]
=============================================================================
