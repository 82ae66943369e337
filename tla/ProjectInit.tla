---------------------------- MODULE ProjectInit -----------------------------
(***************************************************************************)
(* The INIT phase of several changes over one repository, and what it sets *)
(* off: structural detection with its file cache and its record in         *)
(* memory-engine (internal/application/init), the bootstrap goroutine that *)
(* imports documentation as candidate skills when a framework has moved to *)
(* a new major version (internal/application/bootstrap), and the choice of *)
(* the skills that later prompts of the change get.                        *)
(*                                                                         *)
(* The orchestrator works on the directory it was started in, so all       *)
(* changes, of whatever project, detect the same repository.  Developers   *)
(* edit and commit it at any time, with .sophia/ and graphify-out/ taken   *)
(* to be ignored by git; operators patch the status of skills.             *)
(* Calls to memory-engine, to the documentation bridge and to the database *)
(* may fail at any time, and a failed call has no effect.                  *)
(***************************************************************************)
EXTENDS SkillMatcher

CONSTANTS
  Changes, ProjectOf,     \* the changes, and the project each belongs to
  Trees,                  \* the working trees developers switch between
  GitOutcomes,            \* sets of git commands that may succeed for a key
  InitRepos,              \* commit and working tree at the start
  InitRows,               \* the skills table at the start
  Decisions,              \* the status changes operators ask for
  Libraries,              \* answers of resolve-library-id
  MinSnippets, Limit,     \* BootstrapConfig
  Day,                    \* the cache TTL and the window of the rate guard
  SampleTrees,            \* inputs for the detector
  MaxClock, MaxEdits, MaxRestarts \* bounds

Projects == { ProjectOf[c] : c \in Changes }

ASSUME InitAssumption ==
  /\ InitRepos \subseteq [head : Trees, tree : Trees]
  /\ GitOutcomes \subseteq SUBSET GitCommands
  /\ Decisions \subseteq [key : { d.key : d \in Decisions }, to : Statuses]
  /\ MinSnippets \in Nat /\ Limit \in Nat /\ Day \in Nat
  /\ MaxClock \in Nat /\ MaxEdits \in Nat /\ MaxRestarts \in Nat

(* The rows are the skills named stack/<framework>-<major>.  They come from *)
(* the importer, as candidates; the skills seeded at boot have other names. *)
ASSUME RowsAssumption ==
  \A k \in DOMAIN InitRows :
    /\ {"id", "status", "validatedAt"} \subseteq DOMAIN InitRows[k]
    /\ InitRows[k].status \in {"validated", "active", "deprecated"} => InitRows[k].validatedAt > 0

(* The identifier of a row is its position in the order of insertion.  The *)
(* importer writes minimum versions only once it could compare them.       *)
ASSUME TableAssumption ==
  /\ IsFiniteSet(DOMAIN InitRows)
  /\ \A k \in DOMAIN InitRows :
       /\ {"risk", "usage", "minVersion"} \subseteq DOMAIN InitRows[k]
       /\ InitRows[k].risk \in Risks
       /\ InitRows[k].validatedAt \in Nat /\ InitRows[k].usage \in Nat
       /\ \A f \in DOMAIN InitRows[k].minVersion : Parses(InitRows[k].minVersion[f])
  /\ \A k \in DOMAIN InitRows : InitRows[k].id \in 1 .. Cardinality(DOMAIN InitRows)
  /\ \A i \in 1 .. Cardinality(DOMAIN InitRows) : \E k \in DOMAIN InitRows : InitRows[k].id = i
  /\ \A j, k \in DOMAIN InitRows : InitRows[j].id = InitRows[k].id => j = k

VARIABLES
  repo,        \* the last commit and the working tree
  clock,
  cache,       \* .sophia/cache/structural: key -> context
  memory,      \* change -> the record at sdd/<change>/init
  init,        \* change -> its INIT goroutine
  boot,        \* change -> its bootstrap goroutine
  admitted,    \* project -> times of all admissions since the process started
  calls,       \* the rate guard: project -> the admissions it still counts
  rows,        \* the skills table: (name, version) -> skill
  edits, restarts

bounds == << edits, restarts >>
vars   == << repo, clock, cache, memory, init, boot, calls, admitted, rows, bounds >>

-----------------------------------------------------------------------------
(* seen is the repository the cache key was built from and the git         *)
(* commands that succeeded, << >> before that.                             *)
Idle == [ pc |-> "idle", seen |-> << >>, raced |-> FALSE, context |-> NoContext ]

(* now is the time a goroutine has read and not used yet.                  *)
NoBoot == [ pc |-> "none", todo |-> << >>, project |-> "none", now |-> 0 ]

Init ==
  /\ repo \in InitRepos
  /\ clock = 1
  /\ cache = << >>
  /\ memory = [ c \in Changes |-> NoContext ]
  /\ init = [ c \in Changes |-> Idle ]
  /\ boot = [ c \in Changes |-> NoBoot ]
  /\ calls = [ p \in Projects |-> {} ]
  /\ admitted = [ p \in Projects |-> << >> ]
  /\ rows = InitRows
  /\ edits = 0 /\ restarts = 0

-----------------------------------------------------------------------------
(* init.Service.Run.  The key is never empty: KeyBuilder.Build does not    *)
(* fail, although git may.                                                 *)

InitStart(c) ==
  /\ init[c].pc = "idle"
  /\ \E git \in GitOutcomes :
       init' = [init EXCEPT ![c] = [ Idle EXCEPT !.pc = "lookup", !.seen = << repo, git >> ]]
  /\ UNCHANGED << repo, clock, cache, memory, boot, calls, admitted, rows, bounds >>

Key(c) == BuildKey(Head(init[c].seen), init[c].seen[2])

(* FileCache.Lookup.  A file that cannot be read is a miss.                *)
Fresh(key) == key \in DOMAIN cache /\ clock - cache[key].at <= Day

LookupHit(c) ==
  /\ init[c].pc = "lookup" /\ Fresh(Key(c))
  /\ init' = [init EXCEPT ![c].pc = "served", ![c].context = cache[Key(c)]]
  /\ UNCHANGED << repo, clock, cache, memory, boot, calls, admitted, rows, bounds >>

LookupMiss(c) ==
  /\ init[c].pc = "lookup"
  /\ init' = [init EXCEPT ![c].pc = "detect"]
  /\ UNCHANGED << repo, clock, cache, memory, boot, calls, admitted, rows, bounds >>

(* The context of the change; nothing below reads its graph.  raced is not *)
(* part of it: it tells whether the tree was edited since the key was      *)
(* built.                                                                  *)
Assemble(c, t) ==
  LET d == DetectorResult(t)
  IN  [ change |-> c, project |-> ProjectOf[c], at |-> clock, raced |-> init[c].raced,
        languages |-> d.languages, frameworks |-> d.frameworks, managers |-> d.managers,
        arch |-> d.arch, hints |-> d.hints, greenfield |-> d.greenfield ]

(* The detector and graphify, in parallel; graphify fails without          *)
(* consequences.                                                           *)
DetectAndSpawn(c) ==
  /\ init[c].pc = "detect"
  /\ init' = [init EXCEPT ![c].pc = "ingest", ![c].context = Assemble(c, repo.tree)]
  /\ UNCHANGED << repo, clock, cache, memory, boot, calls, admitted, rows, bounds >>

(* The observation in memory-engine; its times are not read again.         *)
Record(context) == [ context EXCEPT !.at = 0, !.raced = FALSE ]

(* Mutant: the file cache is written first.                                *)
IngestAfterCache(c) ==
  /\ init[c].pc = "ingest"
  /\ cache' = [ k \in DOMAIN cache \cup {Key(c)} |->
                  IF k = Key(c) THEN init[c].context ELSE cache[k] ]
  /\ \/ memory' = [memory EXCEPT ![c] = Record(init[c].context)]
     \/ UNCHANGED memory
  /\ init' = [init EXCEPT ![c].pc = "complete"]
  /\ UNCHANGED << repo, clock, boot, calls, admitted, rows, bounds >>

(* DualPersister.Persist: the hard path, without which there is no soft    *)
(* one.                                                                    *)
Ingest(c) ==
  /\ init[c].pc = "ingest"
  /\ \/ /\ memory' = [memory EXCEPT ![c] = Record(init[c].context)]
        /\ init' = [init EXCEPT ![c].pc = "write"]
     \/ UNCHANGED memory /\ init' = [init EXCEPT ![c].pc = "complete"]
  /\ UNCHANGED << repo, clock, cache, boot, calls, admitted, rows, bounds >>

(* FileCache.Write: a temporary file and a rename.                         *)
WriteCache(c) ==
  /\ init[c].pc = "write"
  /\ \/ cache' = [ k \in DOMAIN cache \cup {Key(c)} |->
                     IF k = Key(c) THEN init[c].context ELSE cache[k] ]
     \/ UNCHANGED cache
  /\ init' = [init EXCEPT ![c].pc = "complete"]
  /\ UNCHANGED << repo, clock, memory, boot, calls, admitted, rows, bounds >>

(* runInitPhase after Init.Run: the phase is completed and the bootstrap   *)
(* is scheduled with the context, which may be the cached one of another   *)
(* change.                                                                 *)
CompleteInit(c) ==
  /\ init[c].pc \in {"complete", "served"}
  /\ init' = [init EXCEPT ![c] = [ Idle EXCEPT !.pc = "done" ]]
  /\ boot' = [boot EXCEPT ![c] = [ pc |-> "trigger", todo |-> init[c].context.frameworks,
                                   project |-> init[c].context.project, now |-> 0 ]]
  /\ UNCHANGED << repo, clock, cache, memory, calls, admitted, rows, bounds >>

-----------------------------------------------------------------------------
(* bootstrap.Service.TriggerIfNeeded: the goroutine goes through the       *)
(* frameworks of its context one by one.                                   *)

Current(c) == Head(boot[c].todo)

NextFramework(c) ==
  LET b == boot[c]
  IN  boot' = [boot EXCEPT ![c] = IF Len(b.todo) = 1 THEN NoBoot
                                  ELSE [ b EXCEPT !.pc = "check", !.todo = Tail(b.todo) ]]

(* Mutant: one call too many is let through.                               *)
AllowsOneMore(valid) == Cardinality(valid) <= Limit

Allows(valid) == Cardinality(valid) < Limit

(* MemoryRateGuard.Allow reads the clock before it takes the lock: other   *)
(* goroutines may get the lock first, with a later time.                   *)
ReadClock(c) ==
  /\ boot[c].pc = "trigger"
  /\ boot' = [boot EXCEPT ![c].pc = "allow", ![c].now = clock]
  /\ UNCHANGED << repo, clock, cache, memory, init, calls, admitted, rows, bounds >>

(* Under the lock, for the project named in the context; a granted call    *)
(* counts whatever comes of it.  The list of times the guard keeps is the  *)
(* set of their positions in admitted.                                     *)
Allow(c) ==
  LET p     == boot[c].project
      now   == boot[c].now
      valid == { i \in calls[p] : admitted[p][i] >= now - Day }
  IN  /\ boot[c].pc = "allow"
      /\ calls' = [calls EXCEPT ![p] =
                      IF Allows(valid) THEN valid \cup {Len(admitted[p]) + 1} ELSE valid]
      /\ admitted' = [admitted EXCEPT ![p] = IF Allows(valid) THEN Append(@, now) ELSE @]
      /\ boot' = [boot EXCEPT ![c] =
                    IF Allows(valid) /\ @.todo # << >> THEN [ @ EXCEPT !.pc = "check", !.now = 0 ]
                    ELSE NoBoot]
      /\ UNCHANGED << repo, clock, cache, memory, init, rows, bounds >>

(* stack/<framework>-<major>, the canonical name of an imported skill.     *)
StackName(fw, major) == << fw, major >>

Bare(major) == [ major |-> major, rest |-> "bare" ]

(* ActiveByName.                                                           *)
ActiveByName(name) == { k \in DOMAIN rows : k.name = name /\ rows[k].status = "active" }

(* Mutant: any row of the preceding major will do.                         *)
BaselinesOfAny(fw) ==
  { k \in DOMAIN rows :
      /\ Parses(fw.version) /\ fw.version.major > 1
      /\ k.name = StackName(fw.name, Bare(fw.version.major - 1))
      /\ fw.name \in DOMAIN rows[k].minVersion /\ Parses(rows[k].minVersion[fw.name]) }

(* The active skills of the preceding major that set a baseline.           *)
Baselines(fw) ==
  { k \in ActiveByName(StackName(fw.name, Bare(fw.version.major - 1))) :
      /\ Parses(fw.version) /\ fw.version.major > 1
      /\ fw.name \in DOMAIN rows[k].minVersion /\ Parses(rows[k].minVersion[fw.name]) }

(* runDriftCheck: the first baseline the query returns decides.  The       *)
(* import of a greenfield context cannot happen: DetectorResult never      *)
(* marks one, and it would have no frameworks to import.                   *)
DriftFound(c) ==
  /\ boot[c].pc = "check"
  /\ \E k \in Baselines(Current(c)) :
       DriftsForward(Current(c).version, rows[k].minVersion[Current(c).name])
  /\ boot' = [boot EXCEPT ![c].pc = "resolve"]
  /\ UNCHANGED << repo, clock, cache, memory, init, calls, admitted, rows, bounds >>

(* No drift, or the lookup failed.                                         *)
NoDrift(c) ==
  /\ boot[c].pc = "check"
  /\ NextFramework(c)
  /\ UNCHANGED << repo, clock, cache, memory, init, calls, admitted, rows, bounds >>

-----------------------------------------------------------------------------
(* runImport.                                                              *)

(* The best-scored entry among those of a kind, the first on a tie.        *)
Best(entries, main) ==
  SelectSeq(entries, LAMBDA e :
    /\ e.main = main
    /\ \A i \in DOMAIN entries : entries[i].main = main => entries[i].score <= e.score)

Fat(best) == best # << >> /\ Head(best).snippets >= MinSnippets

(* selectEntry: the best entry of the version if it is fat, else the best  *)
(* main entry if that one is.                                              *)
SelectEntry(entries) ==
  IF Fat(Best(entries, FALSE)) THEN << Head(Best(entries, FALSE)) >>
  ELSE IF Fat(Best(entries, TRUE)) THEN << Head(Best(entries, TRUE)) >>
  ELSE << >>

(* A call of the context7 client, over a session of its own: the parsed    *)
(* response, or none when the client is not configured, the session or the *)
(* tool fails, or the content is empty or malformed.                       *)
CallTool(responses) == { << >> } \cup { << r >> : r \in responses }

Resolve(c) ==
  /\ boot[c].pc = "resolve"
  /\ \E answer \in CallTool(Libraries) :
       IF answer # << >> /\ SelectEntry(Head(answer)) # << >>
       THEN boot' = [boot EXCEPT ![c].pc = "docs"] ELSE NextFramework(c)
  /\ UNCHANGED << repo, clock, cache, memory, init, calls, admitted, rows, bounds >>

GetDocs(c) ==
  /\ boot[c].pc = "docs"
  /\ \E answer \in CallTool({"body"}) :
       IF answer # << >> THEN boot' = [boot EXCEPT ![c].pc = "import"] ELSE NextFramework(c)
  /\ UNCHANGED << repo, clock, cache, memory, init, calls, admitted, rows, bounds >>

(* ImportFromDocs: sanitizing and truncating leave a template that is never *)
(* empty, so skill.New accepts it.                                         *)
ImportedSkill(fw) ==
  [ id |-> Cardinality(DOMAIN rows) + 1, status |-> "candidate", source |-> "imported",
    phases |-> {"explore", "proposal", "apply"}, project |-> Unset, repo |-> Unset,
    features |-> {}, touchedPaths |-> {}, excludePaths |-> {}, languages |-> {},
    frameworks |-> {fw.name}, minVersion |-> [ f \in {fw.name} |-> ExtractMajor(fw.version) ],
    risk |-> "medium", validatedAt |-> 0, usage |-> 0 ]

ImportKey(fw) ==
  [ name |-> StackName(fw.name, ExtractMajor(fw.version)), version |-> fw.version ]

(* Mutant: the row is updated on a conflict.                               *)
InsertIfAbsentUpsert(k, s) ==
  rows' = [ j \in DOMAIN rows \cup {k} |->
              IF j # k THEN rows[j]
              ELSE IF k \in DOMAIN rows THEN [ s EXCEPT !.id = rows[k].id ] ELSE s ]

InsertIfAbsent(k, s) ==
  rows' = [ j \in DOMAIN rows \cup {k} |-> IF j \in DOMAIN rows THEN rows[j] ELSE s ]

Import(c) ==
  /\ boot[c].pc = "import"
  /\ \/ InsertIfAbsent(ImportKey(Current(c)), ImportedSkill(Current(c)))
     \/ UNCHANGED rows
  /\ NextFramework(c)
  /\ UNCHANGED << repo, clock, cache, memory, init, calls, admitted, bounds >>

-----------------------------------------------------------------------------
(* The surroundings.                                                       *)

(* PATCH /skills/{id}/status; SkillRegistry has its two statements.        *)
PatchStatus(k, to) ==
  /\ to \in AllowedTransitions(rows[k].status)
  /\ rows' = [rows EXCEPT ![k].status = to,
                         ![k].validatedAt = IF to = "validated" THEN clock ELSE @]
  /\ UNCHANGED << repo, clock, cache, memory, init, boot, calls, admitted, bounds >>

(* A developer changes the working tree, or commits it.                    *)
Edit ==
  /\ edits < MaxEdits
  /\ \/ \E t \in Trees \ {repo.tree} : repo' = [repo EXCEPT !.tree = t]
     \/ repo.head # repo.tree /\ repo' = [repo EXCEPT !.head = repo.tree]
  /\ init' = [ c \in Changes |->
                 IF init[c].pc \in {"lookup", "detect"} THEN [ init[c] EXCEPT !.raced = TRUE ]
                 ELSE init[c] ]
  /\ edits' = edits + 1
  /\ UNCHANGED << clock, cache, memory, boot, calls, admitted, rows, restarts >>

Tick ==
  /\ clock < MaxClock
  /\ clock' = clock + 1
  /\ UNCHANGED << repo, cache, memory, init, boot, calls, admitted, rows, bounds >>

(* The process is restarted: goroutines and the rate guard are gone, and   *)
(* an INIT that was running is run again.                                  *)
Restart ==
  /\ restarts < MaxRestarts
  /\ init' = [ c \in Changes |-> IF init[c].pc = "done" THEN init[c] ELSE Idle ]
  /\ boot' = [ c \in Changes |-> NoBoot ]
  /\ calls' = [ p \in Projects |-> {} ]
  /\ admitted' = [ p \in Projects |-> << >> ]
  /\ restarts' = restarts + 1
  /\ UNCHANGED << repo, clock, cache, memory, rows, edits >>

InitStep(c) ==
  \/ InitStart(c) \/ LookupHit(c) \/ LookupMiss(c) \/ DetectAndSpawn(c)
  \/ Ingest(c) \/ WriteCache(c) \/ CompleteInit(c)

BootStep(c) ==
  \/ ReadClock(c) \/ Allow(c) \/ DriftFound(c) \/ NoDrift(c) \/ Resolve(c) \/ GetDocs(c) \/ Import(c)

Next ==
  \/ \E c \in Changes : InitStep(c) \/ BootStep(c)
  \/ \E d \in Decisions : d.key \in DOMAIN rows /\ PatchStatus(d.key, d.to)
  \/ Edit \/ Tick \/ Restart

Spec == Init /\ [][Next]_vars

-----------------------------------------------------------------------------
(* The skills of later prompts.                                            *)

(* SkillRepo.List orders by name, which leaves the rows of one name in any *)
(* order; two opposite orders stand for all of them.                       *)
List(up) ==
  LET n == Cardinality(DOMAIN rows)
      id(i) == IF up THEN i ELSE n + 1 - i
  IN  [ i \in 1 .. n |-> rows[CHOOSE k \in DOMAIN rows : rows[k].id = id(i)] ]

NoFilter ==
  [ phase |-> Unset, project |-> Unset, repo |-> Unset, feature |-> Unset, touched |-> {},
    maxRisk |-> Unset, context |-> NoContext ]

(* phase.Service asks with the context it finds in memory-engine.          *)
PhaseSkills(c, pt, list) ==
  RenderSkills(SkillsForContext(list,
    [ NoFilter EXCEPT !.phase = pt, !.project = ProjectOf[c], !.context = memory[c] ]))

(* A team lead asks with the phase only.                                   *)
TaskSkills(list) ==
  RenderSkills(SkillsForContext(list, [ NoFilter EXCEPT !.phase = "apply" ]))

-----------------------------------------------------------------------------
(* Properties.                                                             *)

(* Every variable has its type: goroutines are at a known step, contexts   *)
(* name a change and its project, and a bootstrap that is past its trigger *)
(* has a framework to work on.                                             *)
TypeOK ==
  /\ repo.tree \in Trees /\ repo.head \in Trees
  /\ clock \in 1 .. MaxClock
  /\ \A k \in DOMAIN cache : cache[k].change \in Changes
  /\ \A c \in Changes :
       /\ memory[c] # NoContext => memory[c].change = c /\ memory[c].project = ProjectOf[c]
       /\ init[c].pc \in {"idle", "lookup", "served", "detect", "ingest", "write", "complete",
                          "done"}
       /\ boot[c].pc \in {"none", "trigger", "allow", "check", "resolve", "docs", "import"}
       /\ boot[c].pc \in {"check", "resolve", "docs", "import"} => boot[c].todo # << >>
  /\ \A k \in DOMAIN rows : rows[k].status \in Statuses
  /\ edits \in 0 .. MaxEdits /\ restarts \in 0 .. MaxRestarts

(* A context served from the cache lists the frameworks of the tree its    *)
(* key was built from, unless the tree was edited while the entry was      *)
(* made.  Two edits of one manifest leave the same line in git status, so  *)
(* this rests on the manifest hash in the key (init.Service.Run).          *)
ServedIsCurrent ==
  \A c \in Changes :
    init[c].pc = "served" /\ ~init[c].context.raced =>
      init[c].context.frameworks = Frameworks(Head(init[c].seen).tree)

(* What the file cache holds is also recorded in memory-engine, under the  *)
(* change that detected it: a crash or a failing call between the two      *)
(* never leaves a cache entry that hides a missing record                  *)
(* (DualPersister.Persist).                                                *)
IngestedBeforeCached ==
  \A k \in DOMAIN cache : memory[cache[k].change] # NoContext

(* At any moment, the bootstraps of a project that a process has admitted  *)
(* with a time of the past day are at most Limit: goroutines may get the   *)
(* lock in another order than that of the times they have read, and the    *)
(* guard forgets times meanwhile (MemoryRateGuard.Allow).  About earlier   *)
(* windows see EveryWindowLimited.                                         *)
RateLimited ==
  \A p \in Projects :
    Cardinality({ i \in DOMAIN admitted[p] : admitted[p][i] >= clock - Day }) <= Limit

(* An import never touches a row that exists: an operator's decision on a  *)
(* skill survives any number of bootstraps of the same version             *)
(* (SkillRepo.InsertIfAbsent).                                             *)
ImportKeepsRow ==
  [][ \A k \in DOMAIN rows :
        /\ k \in DOMAIN rows'
        /\ rows'[k] # rows[k] =>
             rows'[k].status \in AllowedTransitions(rows[k].status) /\ rows'[k].id = rows[k].id
    ]_vars

(* A drift import for a major version rests on a skill of the preceding    *)
(* major that somebody once validated, even if it was withdrawn while the  *)
(* documentation was fetched (bootstrap.Service.runDriftCheck).            *)
ImportFollowsActive ==
  \A k \in DOMAIN rows \ DOMAIN InitRows :
    \E j \in DOMAIN rows :
      /\ j.name = StackName(k.name[1], Bare(k.version.major - 1))
      /\ rows[j].validatedAt > 0

(* Whoever asks, a prompt gets an imported skill only after an operator    *)
(* has validated and activated it (PGSkillMatcher.SkillsForContext).       *)
ImportedNeedsApproval ==
  \A s \in Range(SkillsForContext(List(TRUE), NoFilter)) :
    s.source = "imported" => s.status = "active" /\ s.validatedAt > 0

(* A phase whose change has a context gets a skill made for a framework    *)
(* only if the change was detected to use that framework, and not in an    *)
(* older major version (structuralMatches).                                *)
InjectedFitsStack ==
  \A c \in { d \in Changes : memory[d] # NoContext } :
    \A s \in Range(PhaseSkills(c, "explore", List(TRUE))) :
      s.frameworks # {} =>
        \E fw \in Range(memory[c].frameworks) :
          /\ fw.name \in s.frameworks
          /\ Parses(fw.version) /\ fw.name \in DOMAIN s.minVersion =>
               s.minVersion[fw.name].major <= fw.version.major

(* The skills of a task prompt, and so the prompt's hash, do not depend on *)
(* the order in which the database returns rows of the same name           *)
(* (sortSkills).                                                           *)
PromptOrderIsFixed == TaskSkills(List(TRUE)) = TaskSkills(List(FALSE))

Distinct(infos) == \A i, j \in DOMAIN infos : i # j => infos[i].name # infos[j].name

SamplesListedOnce ==
  \A t \in SampleTrees : Distinct(Frameworks(t)) /\ Distinct(Languages(t))

(* However many manifests mention it, a framework or a language is listed  *)
(* once, so that it is bootstrapped once, for the repository and for every *)
(* sample tree (Detector.Detect).                                          *)
ListedOnce == SamplesListedOnce /\ Distinct(Frameworks(repo.tree))

TotalLen(layers) ==
  LET sum[n \in 0 .. Len(layers)] == IF n = 0 THEN 0 ELSE sum[n - 1] + layers[n].len
  IN  sum[Len(layers)]

(* The layers of a prompt keep their order, none grows and, the markers of *)
(* the layers that were cut aside, they fit in the budget (Render).        *)
WithinBudget(layers, budget) ==
  LET kept == Render(layers, budget)
  IN  /\ TotalLen(kept) <= budget
      /\ \A i \in DOMAIN kept : kept[i].name = layers[i].name /\ kept[i].len <= layers[i].len

-----------------------------------------------------------------------------
(* What comments say and the code does not do; no run checks these.        *)

(* "Iron Law D1.2: Persist is called INSIDE Run (artifact durable before   *)
(* phase state change)" (init/service.go): a completed INIT has its record *)
(* in memory-engine.                                                       *)
InitIsDurable == \A c \in Changes : init[c].pc = "done" => memory[c] # NoContext

(* "limit: maximum allowed calls per project within the window period"     *)
(* (bootstrap/rateguard.go:47): in no window of a day are more than Limit  *)
(* times admitted.  A goroutine with a time of yesterday may be admitted   *)
(* after one with a time of today made the guard forget yesterday's calls. *)
EveryWindowLimited ==
  \A p \in Projects :
    \A i \in DOMAIN admitted[p] :
      Cardinality({ j \in DOMAIN admitted[p] :
                      admitted[p][j] \in (admitted[p][i] - Day) .. admitted[p][i] }) <= Limit
=============================================================================
