------------------------- MODULE ProjectInitProofs --------------------------
(***************************************************************************)
(* Proofs about ProjectInit, for any changes, projects, working trees,     *)
(* skills, documentation answers, limits and number of restarts: what the  *)
(* structural cache serves, what is in memory-engine when it is written,   *)
(* how many bootstraps the rate guard admits, and what an import may do to *)
(* the skills table; then, for lists of any length, which skills a prompt  *)
(* gets and in which order, what the budget leaves of its layers, and that *)
(* the detector lists nothing twice.                                       *)
(***************************************************************************)
EXTENDS ProjectInit, FiniteSetTheorems, TLAPS

Repos == [ head : Trees, tree : Trees ]

IsContext(x) ==
  x.change \in Changes /\ x.project \in Projects /\ "project" \in DOMAIN x

(* An entry made without a race has the frameworks of every repository     *)
(* that has its key.                                                       *)
Cached(k, x) ==
  /\ IsContext(x)
  /\ ~x.raced => \A r \in Repos : \A git : BuildKey(r, git) = k => x.frameworks = Frameworks(r.tree)

(* The INIT goroutine g of a change c, when the repository is r and memory *)
(* has m for the change.                                                   *)
Good(c, g, r, m) ==
  /\ DOMAIN g = {"pc", "seen", "raced", "context"}
  /\ g.pc \in {"lookup", "detect", "ingest", "write", "served"} => Head(g.seen) \in Repos
  /\ g.pc \in {"lookup", "detect"} /\ ~g.raced => Head(g.seen) = r
  /\ g.pc \in {"ingest", "write", "complete", "served"} => IsContext(g.context)
  /\ g.pc \in {"ingest", "write", "served"} /\ ~g.context.raced =>
       g.context.frameworks = Frameworks(Head(g.seen).tree)
  /\ g.pc \in {"ingest", "write"} => g.context.change = c
  /\ g.pc = "write" => m # NoContext

(* The part about detection and its cache.                                 *)
DetectInv ==
  /\ repo \in Repos
  /\ DOMAIN memory = Changes /\ DOMAIN init = Changes
  /\ \A c \in Changes : Good(c, init[c], repo, memory[c])
  /\ \A k \in DOMAIN cache : Cached(k, cache[k]) /\ memory[cache[k].change] # NoContext

(* The times a guard has admitted and those it keeps, which are at most    *)
(* Limit: one it has forgotten is older than a day.                        *)
Window(a, kept, time) ==
  /\ a \in Seq(Nat)
  /\ kept \subseteq 1 .. Len(a)
  /\ \A i \in (1 .. Len(a)) \ kept : a[i] < time - Day
  /\ Cardinality(kept) <= Limit

(* A bootstrap goroutine; a time it has read is not in the future.         *)
BootOK(b, time) ==
  /\ DOMAIN b = {"pc", "todo", "project", "now"}
  /\ b.pc \in {"trigger", "allow"} => b.project \in Projects
  /\ b.pc = "allow" => b.now \in Nat /\ b.now <= time

(* The part about the rate guard.                                          *)
GuardInv ==
  /\ clock \in Nat /\ clock > 0
  /\ DOMAIN boot = Changes /\ DOMAIN calls = Projects /\ DOMAIN admitted = Projects
  /\ \A c \in Changes : BootOK(boot[c], clock)
  /\ \A p \in Projects : Window(admitted[p], calls[p], clock)

(* Somebody validated a skill of the major before that of fw.              *)
Followed(name, major, table) ==
  \E j \in DOMAIN table :
    j.name = StackName(name, Bare(major - 1)) /\ table[j].validatedAt > 0

RowOK(row) ==
  /\ {"id", "status", "validatedAt"} \subseteq DOMAIN row
  /\ row.status \in {"validated", "active", "deprecated"} => row.validatedAt > 0

(* The part about the skills table: an import under way already has the    *)
(* row it follows.                                                         *)
SkillInv ==
  /\ \A k \in DOMAIN rows : RowOK(rows[k])
  /\ \A k \in DOMAIN rows \ DOMAIN InitRows : Followed(k.name[1], k.version.major, rows)
  /\ \A c \in Changes :
       boot[c].pc \in {"resolve", "docs", "import"} =>
         Followed(Current(c).name, Current(c).version.major, rows)

(* The inductive invariant.                                                *)
IInv == DetectInv /\ GuardInv /\ SkillInv

(* Leaves are first-order unless they name SMT.                            *)
USE Zenon

-----------------------------------------------------------------------------
(* Two repositories with one key have the same frameworks, whatever git    *)
(* answered: the key has every manifest (KeyBuilder.Build), and Detector.Detect reads *)
(* the frameworks off the manifests alone.                                 *)
LEMMA KeyDetermines ==
  ASSUME NEW r, NEW s, NEW g, NEW h, BuildKey(r, g) = BuildKey(s, h)
  PROVE  Frameworks(r.tree) = Frameworks(s.tree)
<1>1. BuildKey(r, g).manifests = r.tree.manifests /\ BuildKey(s, h).manifests = s.tree.manifests
  BY DEF BuildKey
<1>2. r.tree.manifests = s.tree.manifests
  BY <1>1
<1> QED
  BY <1>2 DEF Frameworks

(* What init.Service.Run assembles for a change.                           *)
LEMMA Assembled ==
  ASSUME NEW c \in Changes, NEW t
  PROVE  /\ IsContext(Assemble(c, t))
         /\ Assemble(c, t).change = c
         /\ Assemble(c, t).raced = init[c].raced
         /\ Assemble(c, t).frameworks = Frameworks(t)
<1>1. DetectorResult(t).frameworks = Frameworks(t)
  <2>1. DOMAIN Detect(t) = {"languages", "frameworks", "managers", "arch", "hints", "greenfield"}
    BY DEF Detect
  <2>2. Detect(t).frameworks = Frameworks(t)
    BY DEF Detect
  <2> QED
    BY <2>1, <2>2 DEF DetectorResult
<1>2. ProjectOf[c] \in Projects
  BY DEF Projects
<1> QED
  BY <1>1, <1>2 DEF Assemble, IsContext

(* The record in memory-engine is not the missing one.                     *)
LEMMA RecordIsContext ==
  ASSUME NEW x, IsContext(x)
  PROVE  Record(x) # NoContext
<1>1. "project" \in DOMAIN Record(x)
  BY DEF IsContext, Record
<1>2. DOMAIN NoContext = {"change"}
  BY DEF NoContext
<1>3. "project" # "change"
  OBVIOUS
<1> QED
  BY <1>1, <1>2, <1>3

(* The status of a skill that may be activated or deprecated.              *)
LEMMA Transitions ==
  ASSUME NEW from, NEW to \in AllowedTransitions(from)
  PROVE  /\ to = "active" => from = "validated"
         /\ to = "deprecated" => from = "active"
BY SMT DEF AllowedTransitions

-----------------------------------------------------------------------------
(* Detection.                                                              *)

LEMMA IdleGood ==
  ASSUME NEW c, NEW r, NEW m
  PROVE  Good(c, Idle, r, m) /\ Good(c, [ Idle EXCEPT !.pc = "done" ], r, m)
<1>1. DOMAIN Idle = {"pc", "seen", "raced", "context"} /\ Idle.pc = "idle"
  BY DEF Idle
<1>2. /\ DOMAIN [ Idle EXCEPT !.pc = "done" ] = {"pc", "seen", "raced", "context"}
      /\ [ Idle EXCEPT !.pc = "done" ].pc = "done"
  BY <1>1
<1> QED
  BY <1>1, <1>2 DEF Good

(* The INIT of every change is idle at the start.                          *)
LEMMA DetectInit ==
  Init => DetectInv
<1> SUFFICES ASSUME Init PROVE DetectInv
  OBVIOUS
<1>1. repo \in Repos
  BY InitAssumption DEF Init, Repos
<1>2. \A c \in Changes : Good(c, init[c], repo, memory[c])
  BY IdleGood DEF Init
<1>3. DOMAIN cache = {}
  BY SMT DEF Init
<1> QED
  BY <1>1, <1>2, <1>3 DEF Init, DetectInv

(* A goroutine moves and the others stay.                                  *)
LEMMA OneMoves ==
  ASSUME DetectInv, NEW c \in Changes, NEW g, init' = [init EXCEPT ![c] = g],
         repo' = repo, \A d \in Changes \ {c} : memory'[d] = memory[d],
         Good(c, g, repo, memory'[c])
  PROVE  DOMAIN init' = Changes /\ \A d \in Changes : Good(d, init'[d], repo', memory'[d])
<1>1. DOMAIN init' = Changes
  BY DEF DetectInv
<1>2. ASSUME NEW d \in Changes PROVE Good(d, init'[d], repo', memory'[d])
  <2>1. CASE d = c
    <3>1. init'[d] = g
      BY <2>1 DEF DetectInv
    <3> QED
      BY <2>1, <3>1
  <2>2. CASE d # c
    <3>1. init'[d] = init[d] /\ memory'[d] = memory[d]
      BY <2>2 DEF DetectInv
    <3> QED
      BY <3>1 DEF DetectInv
  <2> QED
    BY <2>1, <2>2
<1> QED
  BY <1>1, <1>2

(* What changes of a goroutine when it takes its next step.                *)
LEMMA MovedFields ==
  ASSUME NEW g, DOMAIN g = {"pc", "seen", "raced", "context"}, NEW p, NEW x
  PROVE  /\ DOMAIN [g EXCEPT !.pc = p] = DOMAIN g
         /\ [g EXCEPT !.pc = p].pc = p
         /\ [g EXCEPT !.pc = p].seen = g.seen
         /\ [g EXCEPT !.pc = p].raced = g.raced
         /\ [g EXCEPT !.pc = p].context = g.context
         /\ DOMAIN [g EXCEPT !.pc = p, !.context = x] = DOMAIN g
         /\ [g EXCEPT !.pc = p, !.context = x].pc = p
         /\ [g EXCEPT !.pc = p, !.context = x].seen = g.seen
         /\ [g EXCEPT !.pc = p, !.context = x].raced = g.raced
         /\ [g EXCEPT !.pc = p, !.context = x].context = x
BY SMT

(* Two fields of one goroutine, updated in one go.                         *)
LEMMA TwoFields ==
  ASSUME NEW f, NEW c \in DOMAIN f, NEW p, NEW x
  PROVE  [f EXCEPT ![c].pc = p, ![c].context = x] =
           [f EXCEPT ![c] = [f[c] EXCEPT !.pc = p, !.context = x]]
<1> DEFINE a == [f EXCEPT ![c] = [f[c] EXCEPT !.pc = p]]
           h == [f[c] EXCEPT !.pc = p, !.context = x]
<1>1. DOMAIN a = DOMAIN f /\ a[c] = [f[c] EXCEPT !.pc = p] /\ \A d \in DOMAIN f : d # c => a[d] = f[d]
  OBVIOUS
<1>2. [a[c] EXCEPT !.context = x] = h
  BY <1>1
<1>3. [f EXCEPT ![c].pc = p, ![c].context = x] = [a EXCEPT ![c] = [a[c] EXCEPT !.context = x]]
  OBVIOUS
<1> HIDE DEF h, a
<1>4. [f EXCEPT ![c].pc = p, ![c].context = x] = [a EXCEPT ![c] = h]
  BY <1>2, <1>3
<1>5. [a EXCEPT ![c] = h] = [f EXCEPT ![c] = h]
  BY <1>1
<1> QED
  BY <1>4, <1>5 DEF h

(* The part about the cache, when it is not written and memory keeps what  *)
(* it has.                                                                 *)
LEMMA CacheStays ==
  ASSUME DetectInv, cache' = cache,
         \A d \in Changes : memory[d] # NoContext => memory'[d] # NoContext
  PROVE  \A k \in DOMAIN cache' : Cached(k, cache'[k]) /\ memory'[cache'[k].change] # NoContext
BY DEF DetectInv, Cached, IsContext

(* A step of an INIT goroutine.                                            *)
LEMMA DetectStep ==
  ASSUME DetectInv, NEW c \in Changes, InitStep(c)
  PROVE  DetectInv'
<1> DEFINE g == init[c]
           CacheOK == \A k \in DOMAIN cache : Cached(k, cache[k]) /\ memory[cache[k].change] # NoContext
           InitOK == DOMAIN init = Changes /\ \A d \in Changes : Good(d, init[d], repo, memory[d])
<1>1. Good(c, g, repo, memory[c]) /\ c \in DOMAIN init /\ c \in DOMAIN memory
  BY DEF DetectInv
<1>2. DOMAIN g = {"pc", "seen", "raced", "context"}
  BY <1>1 DEF Good
<1>3. DOMAIN memory = Changes /\ repo \in Repos
  BY DEF DetectInv
<1>4. CASE InitStart(c)
  <2>0. PICK git \in GitOutcomes :
          init' = [init EXCEPT ![c] = [ Idle EXCEPT !.pc = "lookup", !.seen = << repo, git >> ]]
    BY <1>4 DEF InitStart
  <2> DEFINE h == [ Idle EXCEPT !.pc = "lookup", !.seen = << repo, git >> ]
  <2>1. /\ DOMAIN h = {"pc", "seen", "raced", "context"} /\ h.pc = "lookup"
        /\ h.seen = << repo, git >>
    BY SMT DEF Idle
  <2>2. Head(h.seen) = repo
    BY SMT, <2>1
  <2> HIDE DEF h
  <2>3. Good(c, h, repo, memory'[c])
    BY <2>1, <2>2, <1>3 DEF Good
  <2>4. init' = [init EXCEPT ![c] = h] /\ repo' = repo /\ memory' = memory /\ cache' = cache
    BY <1>4, <2>0 DEF InitStart, h
  <2>5. InitOK'
    BY <2>3, <2>4, OneMoves
  <2>6. CacheOK'
    BY <2>4, CacheStays
  <2> QED
    BY <2>4, <2>5, <2>6, <1>3 DEF DetectInv
<1>5. CASE LookupHit(c)
  <2> DEFINE h == [ g EXCEPT !.pc = "served", !.context = cache[Key(c)] ]
  <2>1. init' = [init EXCEPT ![c] = h] /\ repo' = repo /\ memory' = memory /\ cache' = cache
    BY <1>1, <1>5, TwoFields DEF LookupHit
  <2>2. /\ DOMAIN h = {"pc", "seen", "raced", "context"} /\ h.pc = "served"
        /\ h.seen = g.seen /\ h.context = cache[Key(c)]
    BY <1>2, MovedFields
  <2> HIDE DEF h
  <2>3. g.pc = "lookup" /\ Key(c) \in DOMAIN cache
    BY <1>5 DEF LookupHit, Fresh
  <2>4. Head(g.seen) \in Repos /\ Cached(Key(c), cache[Key(c)]) /\ Key(c) = BuildKey(Head(g.seen), g.seen[2])
    BY <1>1, <2>3 DEF Good, DetectInv, Key
  <2>5. Good(c, h, repo, memory'[c])
    BY <2>2, <2>4 DEF Good, Cached
  <2>6. InitOK'
    BY <2>1, <2>5, OneMoves
  <2>7. CacheOK'
    BY <2>1, CacheStays
  <2> QED
    BY <2>1, <2>6, <2>7, <1>3 DEF DetectInv
<1>6. CASE LookupMiss(c)
  <2> DEFINE h == [ g EXCEPT !.pc = "detect" ]
  <2>1. init' = [init EXCEPT ![c] = h] /\ repo' = repo /\ memory' = memory /\ cache' = cache
    BY <1>6 DEF LookupMiss
  <2>2. /\ DOMAIN h = {"pc", "seen", "raced", "context"} /\ h.pc = "detect"
        /\ h.seen = g.seen /\ h.raced = g.raced
    BY <1>2, MovedFields
  <2> HIDE DEF h
  <2>3. g.pc = "lookup"
    BY <1>6 DEF LookupMiss
  <2>4. Good(c, h, repo, memory'[c])
    BY <1>1, <2>2, <2>3 DEF Good
  <2>5. InitOK'
    BY <2>1, <2>4, OneMoves
  <2>6. CacheOK'
    BY <2>1, CacheStays
  <2> QED
    BY <2>1, <2>5, <2>6, <1>3 DEF DetectInv
<1>7. CASE DetectAndSpawn(c)
  <2> DEFINE x == Assemble(c, repo.tree)
             h == [ g EXCEPT !.pc = "ingest", !.context = x ]
  <2>1. init' = [init EXCEPT ![c] = h] /\ repo' = repo /\ memory' = memory /\ cache' = cache
    BY <1>1, <1>7, TwoFields DEF DetectAndSpawn
  <2>2. /\ DOMAIN h = {"pc", "seen", "raced", "context"} /\ h.pc = "ingest"
        /\ h.seen = g.seen /\ h.context = x
    BY <1>2, MovedFields
  <2>3. IsContext(x) /\ x.change = c /\ x.raced = g.raced /\ x.frameworks = Frameworks(repo.tree)
    BY Assembled
  <2> HIDE DEF h, x
  <2>4. g.pc = "detect"
    BY <1>7 DEF DetectAndSpawn
  <2>5. Head(g.seen) \in Repos /\ (~g.raced => Head(g.seen) = repo)
    BY <1>1, <2>4 DEF Good
  <2>6. Good(c, h, repo, memory'[c])
    BY <2>2, <2>3, <2>5 DEF Good
  <2>7. InitOK'
    BY <2>1, <2>6, OneMoves
  <2>8. CacheOK'
    BY <2>1, CacheStays
  <2> QED
    BY <2>1, <2>7, <2>8, <1>3 DEF DetectInv

<1>8. CASE Ingest(c)
  <2>1. IsContext(g.context) /\ g.context.change = c /\ g.pc = "ingest"
    BY <1>1, <1>8 DEF Good, Ingest
  <2>2. repo' = repo /\ cache' = cache
    BY <1>8 DEF Ingest
  <2>3. CASE memory' = [memory EXCEPT ![c] = Record(g.context)] /\ init' = [init EXCEPT ![c].pc = "write"]
    <3> DEFINE h == [ g EXCEPT !.pc = "write" ]
    <3>1. init' = [init EXCEPT ![c] = h]
      BY <2>3
    <3>2. /\ DOMAIN h = {"pc", "seen", "raced", "context"} /\ h.pc = "write"
          /\ h.seen = g.seen /\ h.context = g.context
      BY <1>2, MovedFields
    <3> HIDE DEF h
    <3>3. /\ DOMAIN memory' = Changes /\ memory'[c] # NoContext
          /\ \A d \in Changes \ {c} : memory'[d] = memory[d]
      BY <2>1, <2>3, <1>3, RecordIsContext
    <3>4. Good(c, h, repo, memory'[c])
      BY <1>1, <2>1, <3>2, <3>3 DEF Good
    <3>5. InitOK'
      BY <2>2, <3>1, <3>3, <3>4, OneMoves
    <3>6. CacheOK'
      BY <2>2, <3>3, CacheStays
    <3> QED
      BY <2>2, <3>3, <3>5, <3>6, <1>3 DEF DetectInv
  <2>4. CASE memory' = memory /\ init' = [init EXCEPT ![c].pc = "complete"]
    <3> DEFINE h == [ g EXCEPT !.pc = "complete" ]
    <3>1. init' = [init EXCEPT ![c] = h]
      BY <2>4
    <3>2. /\ DOMAIN h = {"pc", "seen", "raced", "context"} /\ h.pc = "complete"
          /\ h.context = g.context
      BY <1>2, MovedFields
    <3> HIDE DEF h
    <3>3. Good(c, h, repo, memory'[c])
      BY <2>1, <3>2 DEF Good
    <3>4. InitOK'
      BY <2>2, <2>4, <3>1, <3>3, OneMoves
    <3>5. CacheOK'
      BY <2>2, <2>4, CacheStays
    <3> QED
      BY <2>2, <2>4, <3>4, <3>5, <1>3 DEF DetectInv
  <2> QED
    BY <1>8, <2>3, <2>4 DEF Ingest
<1>9. CASE WriteCache(c)
  <2> DEFINE h == [ g EXCEPT !.pc = "complete" ]
  <2>1. init' = [init EXCEPT ![c] = h] /\ repo' = repo /\ memory' = memory
    BY <1>9 DEF WriteCache
  <2>2. /\ DOMAIN h = {"pc", "seen", "raced", "context"} /\ h.pc = "complete"
        /\ h.context = g.context
    BY <1>2, MovedFields
  <2> HIDE DEF h
  <2>3. g.pc = "write"
    BY <1>9 DEF WriteCache
  <2>4. /\ IsContext(g.context) /\ g.context.change = c /\ memory[c] # NoContext
        /\ ~g.context.raced => g.context.frameworks = Frameworks(Head(g.seen).tree)
    BY <1>1, <2>3 DEF Good
  <2>5. Good(c, h, repo, memory'[c])
    BY <2>2, <2>4 DEF Good
  <2>6. InitOK'
    BY <2>1, <2>5, OneMoves
  <2>7. CASE cache' = cache
    <3>1. CacheOK'
      BY <2>1, <2>7, CacheStays
    <3> QED
      BY <2>1, <2>6, <3>1, <1>3 DEF DetectInv
  <2>8. CASE cache' = [ k \in DOMAIN cache \cup {Key(c)} |->
                          IF k = Key(c) THEN g.context ELSE cache[k] ]
    <3>1. Cached(Key(c), g.context)
      BY <2>4, KeyDetermines DEF Cached, Key
    <3>2. ASSUME NEW k \in DOMAIN cache'
          PROVE  Cached(k, cache'[k]) /\ memory'[cache'[k].change] # NoContext
      <4>1. CASE k = Key(c)
        <5>1. cache'[k] = g.context
          BY <2>8, <4>1
        <5> QED
          BY <5>1, <4>1, <3>1, <2>1, <2>4
      <4>2. CASE k # Key(c)
        <5>1. k \in DOMAIN cache /\ cache'[k] = cache[k]
          BY <2>8, <4>2
        <5> QED
          BY <5>1, <2>1 DEF DetectInv
      <4> QED
        BY <4>1, <4>2
    <3> QED
      BY <2>1, <2>6, <3>2, <1>3 DEF DetectInv
  <2> QED
    BY <1>9, <2>7, <2>8 DEF WriteCache
<1>10. CASE CompleteInit(c)
  <2> DEFINE h == [ Idle EXCEPT !.pc = "done" ]
  <2>1. init' = [init EXCEPT ![c] = h] /\ repo' = repo /\ memory' = memory /\ cache' = cache
    BY <1>10 DEF CompleteInit
  <2>2. Good(c, h, repo, memory'[c])
    BY IdleGood
  <2> HIDE DEF h
  <2>3. InitOK'
    BY <2>1, <2>2, OneMoves
  <2>4. CacheOK'
    BY <2>1, CacheStays
  <2> QED
    BY <2>1, <2>3, <2>4, <1>3 DEF DetectInv
<1> QED
  BY <1>4, <1>5, <1>6, <1>7, <1>8, <1>9, <1>10 DEF InitStep

(* The steps that are not of an INIT goroutine.  An edit marks every       *)
(* goroutine that has its key and has not detected yet; a restart starts   *)
(* the unfinished ones again.                                              *)
LEMMA DetectOther ==
  ASSUME DetectInv,
         \/ Edit \/ Restart \/ UNCHANGED << repo, cache, memory, init >>
  PROVE  DetectInv'
<1>1. CASE UNCHANGED << repo, cache, memory, init >>
  BY <1>1 DEF DetectInv
<1>2. CASE Edit
  <2>1. cache' = cache /\ memory' = memory /\ DOMAIN init' = Changes
    BY <1>2 DEF Edit
  <2>2. repo' \in Repos
    BY SMT, <1>2 DEF Edit, DetectInv, Repos
  <2>3. ASSUME NEW c \in Changes PROVE Good(c, init'[c], repo', memory'[c])
    <3>1. Good(c, init[c], repo, memory[c])
      BY DEF DetectInv
    <3>2. CASE init[c].pc \in {"lookup", "detect"}
      <4> DEFINE h == [ init[c] EXCEPT !.raced = TRUE ]
      <4>1. init'[c] = h
        BY <1>2, <3>2 DEF Edit
      <4>2. DOMAIN init[c] = {"pc", "seen", "raced", "context"}
        BY <3>1 DEF Good
      <4>3. /\ DOMAIN h = {"pc", "seen", "raced", "context"} /\ h.raced = TRUE
            /\ h.pc = init[c].pc /\ h.seen = init[c].seen
        BY <4>2
      <4> HIDE DEF h
      <4> QED
        BY <3>1, <3>2, <4>1, <4>3 DEF Good
    <3>3. CASE init[c].pc \notin {"lookup", "detect"}
      <4>1. init'[c] = init[c]
        BY <1>2, <3>3 DEF Edit
      <4> QED
        BY <2>1, <3>1, <3>3, <4>1 DEF Good
    <3> QED
      BY <3>2, <3>3
  <2>4. \A k \in DOMAIN cache' : Cached(k, cache'[k]) /\ memory'[cache'[k].change] # NoContext
    BY <2>1, CacheStays
  <2> QED
    BY <2>1, <2>2, <2>3, <2>4 DEF DetectInv
<1>3. CASE Restart
  <2>1. cache' = cache /\ memory' = memory /\ repo' = repo /\ DOMAIN init' = Changes
    BY <1>3 DEF Restart
  <2>2. ASSUME NEW c \in Changes PROVE Good(c, init'[c], repo', memory'[c])
    <3>1. init'[c] = init[c] \/ init'[c] = Idle
      BY <1>3 DEF Restart
    <3> QED
      BY <2>1, <3>1, IdleGood DEF DetectInv
  <2>3. \A k \in DOMAIN cache' : Cached(k, cache'[k]) /\ memory'[cache'[k].change] # NoContext
    BY <2>1, CacheStays
  <2> QED
    BY <2>1, <2>2, <2>3 DEF DetectInv
<1> QED
  BY <1>1, <1>2, <1>3

-----------------------------------------------------------------------------
(* The rate guard.                                                         *)

(* An empty window.                                                        *)
LEMMA EmptyWindow ==
  ASSUME NEW time
  PROVE  Window(<< >>, {}, time)
<1>1. << >> \in Seq(Nat) /\ 1 .. Len(<< >>) = {} /\ 0 <= Limit
  BY SMT, InitAssumption
<1> QED
  BY <1>1, FS_EmptySet DEF Window

(* The guard keeps finitely many times.                                    *)
LEMMA FiniteWindow ==
  ASSUME NEW a, NEW kept, NEW time, Window(a, kept, time)
  PROVE  IsFiniteSet(kept)
<1>1. 1 \in Int /\ Len(a) \in Int
  BY SMT DEF Window
<1>2. IsFiniteSet(1 .. Len(a))
  BY <1>1, FS_Interval
<1> QED
  BY <1>2, FS_Subset DEF Window

(* Time passes.                                                            *)
LEMMA WindowLater ==
  ASSUME NEW a, NEW kept, NEW time \in Nat, Window(a, kept, time)
  PROVE  Window(a, kept, time + 1)
<1>1. \A i \in 1 .. Len(a) : a[i] \in Nat
  BY SMT DEF Window
<1>2. \A i \in (1 .. Len(a)) \ kept : a[i] < (time + 1) - Day
  BY SMTT(20), <1>1, InitAssumption DEF Window
<1> QED
  BY <1>2 DEF Window

(* A goroutine that read the clock at now makes the guard forget what was  *)
(* out of the window then.                                                 *)
LEMMA WindowTrimmed ==
  ASSUME NEW a, NEW kept, NEW time \in Nat, Window(a, kept, time), NEW now \in Nat, now <= time
  PROVE  Window(a, { i \in kept : a[i] >= now - Day }, time)
<1> DEFINE valid == { i \in kept : a[i] >= now - Day }
<1>1. \A i \in 1 .. Len(a) : a[i] \in Nat
  BY SMT DEF Window
<1>2. valid \subseteq kept /\ kept \subseteq 1 .. Len(a)
  BY DEF Window
<1>3. ASSUME NEW i \in (1 .. Len(a)) \ valid PROVE a[i] < time - Day
  <2>1. CASE i \notin kept
    BY <2>1 DEF Window
  <2>2. CASE i \in kept
    <3>1. ~(a[i] >= now - Day)
      BY <2>2, <1>3
    <3> QED
      BY SMT, <3>1, <1>1, InitAssumption
  <2> QED
    BY <2>1, <2>2
<1> HIDE DEF valid
<1>4. Cardinality(valid) <= Limit
  <2>1. IsFiniteSet(kept) /\ Cardinality(kept) <= Limit
    BY FiniteWindow DEF Window
  <2>2. /\ Cardinality(valid) \in Nat /\ Cardinality(kept) \in Nat
        /\ Cardinality(valid) <= Cardinality(kept)
    BY <1>2, <2>1, FS_Subset, FS_CardinalityType
  <2> QED
    BY SMT, <2>1, <2>2, InitAssumption
<1>5. Window(a, valid, time)
  BY <1>2, <1>3, <1>4 DEF Window
<1> QED
  BY <1>5 DEF valid

(* The guard admits one more, with whatever time.                          *)
LEMMA WindowGrows ==
  ASSUME NEW a, NEW kept, NEW time, Window(a, kept, time), Cardinality(kept) < Limit,
         NEW now \in Nat
  PROVE  Window(Append(a, now), kept \cup {Len(a) + 1}, time)
<1> DEFINE n == Len(a)
           b == Append(a, now)
<1>1. /\ a \in Seq(Nat) /\ n \in Nat /\ b \in Seq(Nat) /\ Len(b) = n + 1 /\ b[n + 1] = now
      /\ Limit \in Nat
  BY SMT, InitAssumption DEF Window
<1>2. \A i \in 1 .. n : b[i] = a[i] /\ i \in 1 .. Len(b) /\ i # n + 1
  BY SMT, <1>1
<1>3. n + 1 \in 1 .. Len(b) /\ \A i \in 1 .. Len(b) : i \in 1 .. n \/ i = n + 1
  BY SMT, <1>1
<1>4. /\ kept \subseteq 1 .. n
      /\ \A i \in (1 .. n) \ kept : a[i] < time - Day
  BY DEF Window
<1> HIDE DEF b, n
<1>5. kept \cup {n + 1} \subseteq 1 .. Len(b)
  BY <1>2, <1>3, <1>4
<1>6. \A i \in (1 .. Len(b)) \ (kept \cup {n + 1}) : b[i] < time - Day
  BY <1>2, <1>3, <1>4
<1>7. Cardinality(kept \cup {n + 1}) <= Limit
  <2>1. IsFiniteSet(kept) /\ n + 1 \notin kept
    BY <1>2, <1>4, FiniteWindow
  <2>2. Cardinality(kept \cup {n + 1}) = Cardinality(kept) + 1 /\ Cardinality(kept) \in Nat
    BY <2>1, FS_AddElement, FS_CardinalityType
  <2> QED
    BY SMT, <1>1, <2>2
<1>8. Window(b, kept \cup {n + 1}, time)
  BY <1>1, <1>5, <1>6, <1>7 DEF Window
<1> QED
  BY <1>8 DEF b, n

(* What a bootstrap goroutine is after its framework is dealt with.        *)
LEMMA NextFrameworkBoot ==
  ASSUME GuardInv, NEW c \in Changes, NextFramework(c)
  PROVE  /\ DOMAIN boot' = Changes
         /\ \A d \in Changes : d # c => boot'[d] = boot[d]
         /\ DOMAIN boot'[c] = {"pc", "todo", "project", "now"}
         /\ boot'[c].pc \in {"none", "check"}
<1> DEFINE b == boot[c]
           h == [ b EXCEPT !.pc = "check", !.todo = Tail(b.todo) ]
<1>1. DOMAIN boot = Changes /\ DOMAIN b = {"pc", "todo", "project", "now"}
  BY DEF GuardInv, BootOK
<1>2. DOMAIN h = {"pc", "todo", "project", "now"} /\ h.pc = "check"
  BY <1>1
<1>3. boot' = [boot EXCEPT ![c] = IF Len(b.todo) = 1 THEN NoBoot ELSE h]
  BY <1>1 DEF NextFramework
<1>4. boot'[c] = NoBoot \/ boot'[c] = h
  BY <1>1, <1>3
<1>5. DOMAIN NoBoot = {"pc", "todo", "project", "now"} /\ NoBoot.pc = "none"
  BY DEF NoBoot
<1> HIDE DEF h
<1> QED
  BY <1>1, <1>2, <1>3, <1>4, <1>5

(* No bootstrap is running at the start, and nothing was admitted.         *)
LEMMA GuardInit ==
  Init => GuardInv
<1> SUFFICES ASSUME Init PROVE GuardInv
  OBVIOUS
<1>1. clock \in Nat /\ clock > 0
  BY SMT DEF Init
<1>2. DOMAIN NoBoot = {"pc", "todo", "project", "now"} /\ NoBoot.pc = "none"
  BY DEF NoBoot
<1>3. \A p \in Projects : Window(admitted[p], calls[p], clock)
  BY EmptyWindow DEF Init
<1> QED
  BY <1>1, <1>2, <1>3 DEF Init, GuardInv, BootOK

(* A bootstrap goroutine reads the clock.                                  *)
LEMMA GuardReadClock ==
  ASSUME GuardInv, NEW c \in Changes, ReadClock(c)
  PROVE  /\ GuardInv'
         /\ \A d \in Changes : d # c => boot'[d] = boot[d]
         /\ boot'[c].pc = "allow"
<1> DEFINE b == boot[c]
           h == [ b EXCEPT !.pc = "allow", !.now = clock ]
<1>1. /\ clock' = clock /\ calls' = calls /\ admitted' = admitted /\ clock \in Nat
      /\ b.project \in Projects /\ DOMAIN b = {"pc", "todo", "project", "now"}
  BY DEF ReadClock, GuardInv, BootOK
<1>2. boot' = [boot EXCEPT ![c] = h]
  BY <1>1 DEF ReadClock
<1>3. BootOK(h, clock) /\ h.pc = "allow"
  <2>1. /\ DOMAIN h = {"pc", "todo", "project", "now"} /\ h.pc = "allow" /\ h.now = clock
        /\ h.project = b.project
    BY <1>1
  <2>2. clock <= clock
    BY SMT, <1>1
  <2> HIDE DEF h
  <2> QED
    BY <1>1, <2>1, <2>2 DEF BootOK
<1> HIDE DEF h
<1>4. /\ DOMAIN boot' = Changes /\ boot'[c] = h
      /\ \A d \in Changes : d # c => boot'[d] = boot[d]
  BY <1>2 DEF GuardInv
<1>5. \A d \in Changes : BootOK(boot'[d], clock')
  BY <1>1, <1>3, <1>4 DEF GuardInv
<1>6. GuardInv'
  BY <1>1, <1>4, <1>5 DEF GuardInv
<1> QED
  BY <1>3, <1>4, <1>6

(* A bootstrap goroutine asks the rate guard.                              *)
LEMMA GuardAllow ==
  ASSUME GuardInv, NEW c \in Changes, Allow(c)
  PROVE  /\ GuardInv'
         /\ \A d \in Changes : d # c => boot'[d] = boot[d]
         /\ boot'[c].pc \in {"none", "check"}
<1> DEFINE p == boot[c].project
           a == admitted[p]
           b == boot[c]
           now == b.now
           valid == { i \in calls[p] : a[i] >= now - Day }
           h == [ b EXCEPT !.pc = "check", !.now = 0 ]
<1>1. /\ clock' = clock /\ p \in Projects /\ DOMAIN b = {"pc", "todo", "project", "now"}
      /\ Window(a, calls[p], clock) /\ clock \in Nat /\ now \in Nat /\ now <= clock
  BY DEF Allow, GuardInv, BootOK
<1>2. Window(a, valid, clock)
  BY <1>1, WindowTrimmed
<1>4. /\ calls' = [calls EXCEPT ![p] = IF Allows(valid) THEN valid \cup {Len(a) + 1} ELSE valid]
      /\ admitted' = [admitted EXCEPT ![p] = IF Allows(valid) THEN Append(a, now) ELSE a]
      /\ boot' = [boot EXCEPT ![c] = IF Allows(valid) /\ b.todo # << >> THEN h ELSE NoBoot]
  BY <1>1 DEF Allow, GuardInv, BootOK
<1>3. /\ DOMAIN NoBoot = {"pc", "todo", "project", "now"} /\ NoBoot.pc = "none"
      /\ DOMAIN h = {"pc", "todo", "project", "now"} /\ h.pc = "check"
  BY <1>1 DEF NoBoot
<1> HIDE DEF valid, h
<1>5. BootOK(NoBoot, clock) /\ BootOK(h, clock)
  BY <1>3 DEF BootOK
<1>6. Window(admitted'[p], calls'[p], clock)
  <2>1. CASE Allows(valid)
    <3>1. admitted'[p] = Append(a, now) /\ calls'[p] = valid \cup {Len(a) + 1}
      BY <1>1, <1>4, <2>1 DEF GuardInv
    <3>2. Cardinality(valid) < Limit
      BY <2>1 DEF Allows
    <3>3. Window(Append(a, now), valid \cup {Len(a) + 1}, clock)
      BY <1>1, <1>2, <3>2, WindowGrows
    <3> QED
      BY <3>1, <3>3
  <2>2. CASE ~Allows(valid)
    <3>1. admitted'[p] = a /\ calls'[p] = valid
      BY <1>1, <1>4, <2>2 DEF GuardInv
    <3> QED
      BY <3>1, <1>2
  <2> QED
    BY <2>1, <2>2
<1>7. \A q \in Projects : q # p => admitted'[q] = admitted[q] /\ calls'[q] = calls[q]
  BY <1>4 DEF GuardInv
<1>8. \A q \in Projects : Window(admitted'[q], calls'[q], clock')
  BY <1>1, <1>6, <1>7 DEF GuardInv
<1>9. boot'[c] = NoBoot \/ boot'[c] = h
  BY <1>4 DEF GuardInv
<1>10. \A d \in Changes : d # c => boot'[d] = boot[d]
  BY <1>4 DEF GuardInv
<1>11. DOMAIN boot' = Changes /\ DOMAIN calls' = Projects /\ DOMAIN admitted' = Projects
  BY <1>4 DEF GuardInv
<1>12. \A d \in Changes : BootOK(boot'[d], clock')
  BY <1>1, <1>5, <1>9, <1>10 DEF GuardInv
<1>13. GuardInv'
  BY <1>1, <1>8, <1>11, <1>12 DEF GuardInv
<1> QED
  BY <1>3, <1>9, <1>10, <1>13

(* What a step of a bootstrap goroutine past its trigger does to it: it is *)
(* done with its framework, or goes on with it.                            *)
LEMMA BootMoves ==
  ASSUME GuardInv, NEW c \in Changes,
         DriftFound(c) \/ NoDrift(c) \/ Resolve(c) \/ GetDocs(c) \/ Import(c)
  PROVE  /\ DOMAIN boot' = Changes
         /\ \A d \in Changes : d # c => boot'[d] = boot[d]
         /\ DOMAIN boot'[c] = {"pc", "todo", "project", "now"}
         /\ \/ boot'[c].pc \in {"none", "check"}
            \/ /\ boot'[c].pc \in {"resolve", "docs", "import"} /\ boot'[c].todo = boot[c].todo
               /\ boot[c].pc \in {"resolve", "docs"} \/ DriftFound(c)
<1> DEFINE Goes(p) == boot' = [boot EXCEPT ![c].pc = p]
<1>1. DOMAIN boot = Changes /\ DOMAIN boot[c] = {"pc", "todo", "project", "now"}
  BY DEF GuardInv, BootOK
<1>2. ASSUME NEW p, Goes(p)
      PROVE  /\ DOMAIN boot' = Changes
             /\ \A d \in Changes : d # c => boot'[d] = boot[d]
             /\ DOMAIN boot'[c] = {"pc", "todo", "project", "now"}
             /\ boot'[c].pc = p /\ boot'[c].todo = boot[c].todo
  <2> DEFINE h == [boot[c] EXCEPT !.pc = p]
  <2>1. DOMAIN h = {"pc", "todo", "project", "now"} /\ h.pc = p /\ h.todo = boot[c].todo
    BY <1>1
  <2>2. boot' = [boot EXCEPT ![c] = h]
    BY <1>2
  <2> HIDE DEF h
  <2> QED
    BY <1>1, <2>1, <2>2
<1>3. CASE NextFramework(c)
  BY <1>3, NextFrameworkBoot
<1>4. CASE DriftFound(c)
  <2>1. Goes("resolve")
    BY <1>4 DEF DriftFound
  <2> QED
    BY <1>2, <1>4, <2>1
<1>5. CASE Resolve(c)
  <2>1. boot[c].pc = "resolve" /\ (Goes("docs") \/ NextFramework(c))
    BY <1>5 DEF Resolve
  <2> QED
    BY <1>2, <1>3, <2>1
<1>6. CASE GetDocs(c)
  <2>1. boot[c].pc = "docs" /\ (Goes("import") \/ NextFramework(c))
    BY <1>6 DEF GetDocs
  <2> QED
    BY <1>2, <1>3, <2>1
<1> QED
  BY <1>3, <1>4, <1>5, <1>6 DEF NoDrift, Import

(* The rate guard keeps its windows whatever step is taken.                *)
LEMMA GuardStep ==
  ASSUME DetectInv, GuardInv, Next
  PROVE  GuardInv'
<1>1. CASE UNCHANGED << clock, boot, calls, admitted >>
  BY <1>1 DEF GuardInv
<1>2. ASSUME NEW c \in Changes, CompleteInit(c) PROVE GuardInv'
  <2> DEFINE x == init[c].context
             h == [ pc |-> "trigger", todo |-> x.frameworks, project |-> x.project, now |-> 0 ]
  <2>1. x.project \in Projects
    BY <1>2 DEF CompleteInit, DetectInv, Good, IsContext
  <2>2. /\ DOMAIN h = {"pc", "todo", "project", "now"} /\ h.project \in Projects
        /\ h.pc = "trigger"
    BY <2>1
  <2>3. boot' = [boot EXCEPT ![c] = h] /\ UNCHANGED << clock, calls, admitted >>
    BY <1>2 DEF CompleteInit
  <2> HIDE DEF h
  <2>4. ASSUME NEW d \in Changes
        PROVE  BootOK(boot'[d], clock')
    <3>1. CASE d = c
      <4>1. boot'[d] = h
        BY <2>3, <3>1 DEF GuardInv
      <4> QED
        BY <4>1, <2>2 DEF BootOK
    <3>2. CASE d # c
      <4>1. boot'[d] = boot[d]
        BY <2>3, <3>2 DEF GuardInv
      <4> QED
        BY <2>3, <4>1 DEF GuardInv
    <3> QED
      BY <3>1, <3>2
  <2>5. DOMAIN boot' = Changes
    BY <2>3 DEF GuardInv
  <2> QED
    BY <2>3, <2>4, <2>5 DEF GuardInv
<1>3. ASSUME NEW c \in Changes, ReadClock(c) \/ Allow(c) PROVE GuardInv'
  BY <1>3, GuardReadClock, GuardAllow
<1>4. ASSUME NEW c \in Changes,
             DriftFound(c) \/ NoDrift(c) \/ Resolve(c) \/ GetDocs(c) \/ Import(c)
      PROVE  GuardInv'
  <2>1. UNCHANGED << clock, calls, admitted >>
    BY <1>4 DEF DriftFound, NoDrift, Resolve, GetDocs, Import
  <2>2. /\ DOMAIN boot' = Changes
        /\ \A d \in Changes : d # c => boot'[d] = boot[d]
        /\ DOMAIN boot'[c] = {"pc", "todo", "project", "now"}
        /\ boot'[c].pc \notin {"trigger", "allow"}
    BY <1>4, BootMoves
  <2>3. BootOK(boot'[c], clock')
    BY <2>2 DEF BootOK
  <2>4. \A d \in Changes : BootOK(boot'[d], clock')
    BY <2>1, <2>2, <2>3 DEF GuardInv
  <2> QED
    BY <2>1, <2>2, <2>4 DEF GuardInv
<1>5. CASE Tick
  <2>1. clock' = clock + 1 /\ UNCHANGED << boot, calls, admitted >> /\ clock \in Nat
    BY <1>5 DEF Tick, GuardInv
  <2>2. clock' \in Nat /\ clock' > 0
    BY SMT, <2>1
  <2>3. \A p \in Projects : Window(admitted[p], calls[p], clock + 1)
    BY <2>1, WindowLater DEF GuardInv
  <2>4. \A t \in Nat : t <= clock => t <= clock + 1
    BY SMT, <2>1
  <2>5. \A c \in Changes : BootOK(boot[c], clock + 1)
    BY <2>4 DEF GuardInv, BootOK
  <2> QED
    BY <2>1, <2>2, <2>3, <2>5 DEF GuardInv
<1>6. CASE Restart
  <2>1. DOMAIN NoBoot = {"pc", "todo", "project", "now"} /\ NoBoot.pc = "none"
    BY DEF NoBoot
  <2>2. \A c \in Changes : boot'[c] = NoBoot
    BY <1>6 DEF Restart
  <2>3. \A p \in Projects : Window(admitted'[p], calls'[p], clock')
    BY <1>6, EmptyWindow DEF Restart
  <2>4. clock' = clock /\ DOMAIN boot' = Changes /\ DOMAIN calls' = Projects /\ DOMAIN admitted' = Projects
    BY <1>6 DEF Restart
  <2> QED
    BY <2>1, <2>2, <2>3, <2>4 DEF GuardInv, BootOK
<1>7. ASSUME NEW c \in Changes, InitStep(c) PROVE GuardInv'
  <2>1. CompleteInit(c) \/ UNCHANGED << clock, boot, calls, admitted >>
    BY <1>7 DEF InitStep, InitStart, LookupHit, LookupMiss, DetectAndSpawn, Ingest, WriteCache
  <2> QED
    BY <2>1, <1>1, <1>2
<1>8. ASSUME NEW c \in Changes, BootStep(c) PROVE GuardInv'
  BY <1>3, <1>4, <1>8 DEF BootStep
<1>9. ASSUME NEW d, PatchStatus(d.key, d.to) PROVE GuardInv'
  <2>1. UNCHANGED << clock, boot, calls, admitted >>
    BY <1>9 DEF PatchStatus
  <2> QED
    BY <2>1, <1>1
<1>10. CASE Edit
  <2>1. UNCHANGED << clock, boot, calls, admitted >>
    BY <1>10 DEF Edit
  <2> QED
    BY <2>1, <1>1
<1> QED
  BY <1>5, <1>6, <1>7, <1>8, <1>9, <1>10 DEF Next

-----------------------------------------------------------------------------
(* The skills table.                                                       *)

(* The table keeps its rows, and a row that was validated stays so.        *)
Keeps(old, new) ==
  /\ DOMAIN old \subseteq DOMAIN new
  /\ \A k \in DOMAIN old : old[k].validatedAt > 0 => new[k].validatedAt > 0

(* A skill that was followed by an import still is.                        *)
LEMMA FollowedStays ==
  ASSUME NEW name, NEW major, NEW old, NEW new, Keeps(old, new), Followed(name, major, old)
  PROVE  Followed(name, major, new)
BY DEF Keeps, Followed

(* SkillRepo.PatchStatus on one row: the id stays, and so does the time of *)
(* the validation unless this is one.                                      *)
LEMMA PatchedRow ==
  ASSUME NEW row, RowOK(row), NEW to \in AllowedTransitions(row.status), clock > 0
  PROVE  LET new == [ row EXCEPT !.status = to,
                                 !.validatedAt = IF to = "validated" THEN clock ELSE @ ]
         IN  /\ RowOK(new) /\ new.status = to /\ new.id = row.id
             /\ row.validatedAt > 0 => new.validatedAt > 0
<1> DEFINE at == IF to = "validated" THEN clock ELSE row.validatedAt
           mid == [ row EXCEPT !.status = to ]
           new == [ mid EXCEPT !.validatedAt = at ]
<1>1. /\ DOMAIN mid = DOMAIN row /\ mid.status = to /\ mid.id = row.id
      /\ mid.validatedAt = row.validatedAt
  BY DEF RowOK
<1>2. new = [ row EXCEPT !.status = to, !.validatedAt = IF to = "validated" THEN clock ELSE @ ]
  BY <1>1
<1> HIDE DEF mid, at
<1>3. DOMAIN new = DOMAIN row /\ new.status = to /\ new.id = row.id /\ new.validatedAt = at
  BY <1>1 DEF RowOK
<1>4. /\ row.validatedAt > 0 => at > 0
      /\ to = "validated" => at > 0
  BY DEF at
<1>5. to \in {"validated", "active", "deprecated"} => at > 0
  BY <1>4, Transitions DEF RowOK
<1> HIDE DEF new
<1>6. RowOK(new)
  BY <1>3, <1>5 DEF RowOK
<1> QED
  BY <1>2, <1>3, <1>4, <1>6

(* PATCH /skills/{id}/status changes one row.                              *)
LEMMA Patched ==
  ASSUME SkillInv, clock > 0, NEW k \in DOMAIN rows, NEW to, PatchStatus(k, to)
  PROVE  /\ DOMAIN rows' = DOMAIN rows
         /\ \A j \in DOMAIN rows : j # k => rows'[j] = rows[j]
         /\ rows[k].validatedAt > 0 => rows'[k].validatedAt > 0
         /\ RowOK(rows'[k]) /\ rows'[k].id = rows[k].id
         /\ rows'[k].status \in AllowedTransitions(rows[k].status)
<1> DEFINE new == [ rows[k] EXCEPT !.status = to,
                                   !.validatedAt = IF to = "validated" THEN clock ELSE @ ]
<1>1. RowOK(rows[k]) /\ to \in AllowedTransitions(rows[k].status)
  BY DEF SkillInv, PatchStatus
<1>2. /\ RowOK(new) /\ new.status = to /\ new.id = rows[k].id
      /\ rows[k].validatedAt > 0 => new.validatedAt > 0
  BY <1>1, PatchedRow
<1>3. rows'[k] = new /\ DOMAIN rows' = DOMAIN rows /\ \A j \in DOMAIN rows : j # k => rows'[j] = rows[j]
  BY SMT DEF PatchStatus
<1> HIDE DEF new
<1> QED
  BY <1>1, <1>2, <1>3

(* SkillRepo.InsertIfAbsent leaves the rows that exist alone.              *)
LEMMA Inserted ==
  ASSUME NEW k, NEW s, InsertIfAbsent(k, s)
  PROVE  /\ DOMAIN rows' = DOMAIN rows \cup {k}
         /\ \A j \in DOMAIN rows : rows'[j] = rows[j]
         /\ k \notin DOMAIN rows => rows'[k] = s
BY DEF InsertIfAbsent

(* The importer's skill is a candidate.                                    *)
LEMMA ImportedRow ==
  ASSUME NEW fw
  PROVE  RowOK(ImportedSkill(fw))
<1>1. /\ {"id", "status", "validatedAt"} \subseteq DOMAIN ImportedSkill(fw)
      /\ ImportedSkill(fw).status = "candidate"
  BY DEF ImportedSkill
<1> QED
  BY <1>1 DEF RowOK

(* No import has happened at the start.                                    *)
LEMMA SkillInit ==
  Init => SkillInv
<1>1. NoBoot.pc = "none"
  BY DEF NoBoot
<1> QED
  BY <1>1, RowsAssumption DEF Init, SkillInv, RowOK

(* What the part about the skills needs of a step: rows are kept, a new    *)
(* row follows an old one, and a goroutine that goes on with its framework *)
(* has the row it follows.                                                 *)
LEMMA SkillsKept ==
  ASSUME SkillInv, Keeps(rows, rows'), \A k \in DOMAIN rows' : RowOK(rows'[k]),
         \A k \in DOMAIN rows' \ DOMAIN rows : Followed(k.name[1], k.version.major, rows),
         \A c \in Changes :
           boot'[c].pc \in {"resolve", "docs", "import"} =>
             /\ boot'[c].todo = boot[c].todo
             /\ Followed(Current(c).name, Current(c).version.major, rows)
  PROVE  SkillInv'
<1>1. ASSUME NEW k \in DOMAIN rows' \ DOMAIN InitRows
      PROVE  Followed(k.name[1], k.version.major, rows')
  <2>1. Followed(k.name[1], k.version.major, rows)
    BY DEF SkillInv
  <2> QED
    BY <2>1, FollowedStays
<1>2. ASSUME NEW c \in Changes, boot'[c].pc \in {"resolve", "docs", "import"}
      PROVE  Followed(Current(c)'.name, Current(c)'.version.major, rows')
  <2>1. Current(c)' = Current(c)
    BY <1>2 DEF Current
  <2>2. Followed(Current(c).name, Current(c).version.major, rows)
    BY <1>2
  <2> QED
    BY <2>1, <2>2, FollowedStays
<1> QED
  BY <1>1, <1>2 DEF SkillInv

(* runDriftCheck found an active skill of the preceding major.             *)
LEMMA DriftFollows ==
  ASSUME SkillInv, NEW c \in Changes, DriftFound(c)
  PROVE  Followed(Current(c).name, Current(c).version.major, rows)
<1>1. PICK k \in Baselines(Current(c)) : TRUE
  BY DEF DriftFound
<1>2. /\ k \in DOMAIN rows /\ rows[k].status = "active"
      /\ k.name = StackName(Current(c).name, Bare(Current(c).version.major - 1))
  BY <1>1 DEF Baselines, ActiveByName
<1>3. rows[k].validatedAt > 0
  BY <1>2 DEF SkillInv, RowOK
<1> QED
  BY <1>2, <1>3 DEF Followed

(* The skills table keeps its part of the invariant.                       *)
LEMMA SkillStep ==
  ASSUME GuardInv, SkillInv, Next
  PROVE  SkillInv'
<1> DEFINE Busy(b) == b.pc \in {"resolve", "docs", "import"}
<1>1. Keeps(rows, rows) /\ \A k \in DOMAIN rows : RowOK(rows[k])
  BY DEF Keeps, SkillInv
<1>2. \A c \in Changes :
        Busy(boot[c]) => Followed(Current(c).name, Current(c).version.major, rows)
  BY DEF SkillInv
<1>3. ASSUME rows' = rows,
             \A c \in Changes :
               Busy(boot'[c]) =>
                 /\ boot'[c].todo = boot[c].todo
                 /\ Followed(Current(c).name, Current(c).version.major, rows)
      PROVE  SkillInv'
  BY <1>1, <1>3, SkillsKept
<1>4. ASSUME NEW c \in Changes, InitStep(c) PROVE SkillInv'
  <2>1. \A d \in Changes : Busy(boot'[d]) => boot'[d] = boot[d]
    <3>1. CASE boot' = boot
      BY <3>1
    <3>2. CASE CompleteInit(c)
      BY <3>2 DEF CompleteInit, GuardInv
    <3> QED
      BY <1>4, <3>1, <3>2
      DEF InitStep, InitStart, LookupHit, LookupMiss, DetectAndSpawn, Ingest, WriteCache
  <2>2. rows' = rows
    BY <1>4 DEF InitStep, InitStart, LookupHit, LookupMiss, DetectAndSpawn, Ingest, WriteCache,
                CompleteInit
  <2> QED
    BY <1>2, <1>3, <2>1, <2>2
<1>5. ASSUME NEW c \in Changes, ReadClock(c) \/ Allow(c) PROVE SkillInv'
  <2>1. rows' = rows
    BY <1>5 DEF ReadClock, Allow
  <2>2. \A d \in Changes : Busy(boot'[d]) => boot'[d] = boot[d]
    BY <1>5, GuardReadClock, GuardAllow
  <2> QED
    BY <1>2, <1>3, <2>1, <2>2
<1>6. ASSUME NEW c \in Changes,
             DriftFound(c) \/ NoDrift(c) \/ Resolve(c) \/ GetDocs(c) \/ Import(c)
      PROVE  SkillInv'
  <2>1. /\ \A d \in Changes : d # c => boot'[d] = boot[d]
        /\ Busy(boot'[c]) =>
             boot'[c].todo = boot[c].todo /\ (Busy(boot[c]) \/ DriftFound(c))
    BY <1>6, BootMoves
  <2>2. \A d \in Changes :
          Busy(boot'[d]) =>
            /\ boot'[d].todo = boot[d].todo
            /\ Followed(Current(d).name, Current(d).version.major, rows)
    BY <2>1, <1>2, DriftFollows
  <2>3. CASE rows' = rows
    BY <1>3, <2>2, <2>3
  <2>4. CASE Import(c) /\ rows' # rows
    <3> DEFINE fw == Current(c)
               k == ImportKey(fw)
    <3>1. boot[c].pc = "import" /\ InsertIfAbsent(k, ImportedSkill(fw))
      BY <2>4 DEF Import
    <3>2. Followed(fw.name, fw.version.major, rows)
      BY <3>1, <1>2
    <3>3. k.name[1] = fw.name /\ k.version = fw.version
      BY DEF ImportKey, StackName
    <3>4. /\ DOMAIN rows' = DOMAIN rows \cup {k}
          /\ \A j \in DOMAIN rows : rows'[j] = rows[j]
          /\ k \notin DOMAIN rows => rows'[k] = ImportedSkill(fw)
      BY <3>1, Inserted
    <3>5. Keeps(rows, rows')
      BY <3>4 DEF Keeps
    <3>6. \A j \in DOMAIN rows' : RowOK(rows'[j])
      BY <3>4, <1>1, ImportedRow
    <3>7. \A j \in DOMAIN rows' \ DOMAIN rows : Followed(j.name[1], j.version.major, rows)
      BY <3>2, <3>3, <3>4
    <3> QED
      BY <2>2, <3>5, <3>6, <3>7, SkillsKept
  <2> QED
    BY <1>6, <2>3, <2>4 DEF DriftFound, NoDrift, Resolve, GetDocs
<1>7. ASSUME NEW k \in DOMAIN rows, NEW to, PatchStatus(k, to) PROVE SkillInv'
  <2>1. /\ DOMAIN rows' = DOMAIN rows
        /\ \A j \in DOMAIN rows : j # k => rows'[j] = rows[j]
        /\ rows[k].validatedAt > 0 => rows'[k].validatedAt > 0
        /\ RowOK(rows'[k])
    BY <1>7, Patched DEF GuardInv
  <2>2. boot' = boot
    BY <1>7 DEF PatchStatus
  <2>3. Keeps(rows, rows')
    BY <2>1 DEF Keeps
  <2>4. \A j \in DOMAIN rows' : RowOK(rows'[j])
    BY <2>1, <1>1
  <2> QED
    BY <1>2, <2>1, <2>2, <2>3, <2>4, SkillsKept
<1>8. CASE Edit \/ Tick
  <2>1. rows' = rows /\ boot' = boot
    BY <1>8 DEF Edit, Tick
  <2> QED
    BY <1>2, <1>3, <2>1
<1>9. CASE Restart
  <2>1. rows' = rows /\ \A c \in Changes : ~Busy(boot'[c])
    BY <1>9 DEF Restart, NoBoot
  <2> QED
    BY <1>3, <2>1
<1> QED
  BY <1>4, <1>5, <1>6, <1>7, <1>8, <1>9 DEF Next, BootStep

-----------------------------------------------------------------------------
(* The inductive invariant holds in every reachable state.                 *)
THEOREM IInvCorrect == Spec => []IInv
<1>1. Init => IInv
  BY DetectInit, GuardInit, SkillInit DEF IInv
<1>2. IInv /\ [Next]_vars => IInv'
  <2> SUFFICES ASSUME IInv, [Next]_vars PROVE IInv'
    OBVIOUS
  <2>1. CASE UNCHANGED vars
    BY <2>1 DEF vars, IInv, DetectInv, GuardInv, SkillInv, Current
  <2>2. CASE Next
    <3>1. GuardInv' /\ SkillInv'
      BY <2>2, GuardStep, SkillStep DEF IInv
    <3>2. (\E c \in Changes : InitStep(c)) \/ Edit \/ Restart
            \/ UNCHANGED << repo, cache, memory, init >>
      BY <2>2 DEF Next, BootStep, ReadClock, Allow, DriftFound, NoDrift, Resolve, GetDocs, Import,
                  PatchStatus, Tick
    <3>3. DetectInv'
      BY <3>2, DetectStep, DetectOther DEF IInv
    <3> QED
      BY <3>1, <3>3 DEF IInv
  <2> QED
    BY <2>1, <2>2
<1> QED
  BY <1>1, <1>2, PTL DEF Spec

(* The structural cache never serves the frameworks of another tree: an    *)
(* entry made without a race has those of every repository with its key,   *)
(* whatever was edited, ingested and restarted since (FileCache.Lookup).   *)
THEOREM ServedIsCurrentCorrect == Spec => []ServedIsCurrent
<1>1. IInv => ServedIsCurrent
  BY DEF IInv, DetectInv, Good, ServedIsCurrent
<1> QED
  BY <1>1, IInvCorrect, PTL

(* Whatever fails or restarts between the two writes of DualPersister, a   *)
(* cache entry never stands for a record that memory-engine lacks.         *)
THEOREM IngestedBeforeCachedCorrect == Spec => []IngestedBeforeCached
<1>1. IInv => IngestedBeforeCached
  BY DEF IInv, DetectInv, IngestedBeforeCached
<1> QED
  BY <1>1, IInvCorrect, PTL

(* Of the bootstraps MemoryRateGuard has admitted for a project, at most   *)
(* Limit are of the last day, however the goroutines that read the clock   *)
(* and take its lock interleave, for every limit, window and number of     *)
(* projects and changes.                                                   *)
THEOREM RateLimitedCorrect == Spec => []RateLimited
<1>1. IInv => RateLimited
  <2> SUFFICES ASSUME IInv, NEW p \in Projects
               PROVE  Cardinality({ i \in DOMAIN admitted[p] : admitted[p][i] >= clock - Day }) <= Limit
    BY DEF RateLimited
  <2> DEFINE a == admitted[p]
             recent == { i \in DOMAIN a : a[i] >= clock - Day }
  <2>1. Window(a, calls[p], clock) /\ clock \in Nat
    BY DEF IInv, GuardInv
  <2>2. /\ DOMAIN a = 1 .. Len(a)
        /\ \A i \in 1 .. Len(a) : a[i] \in Nat
    BY SMT, <2>1 DEF Window
  <2>3. \A i \in 1 .. Len(a) : ~(a[i] < clock - Day /\ a[i] >= clock - Day)
    BY SMT, <2>1, <2>2, InitAssumption
  <2>4. recent \subseteq calls[p]
    BY <2>1, <2>2, <2>3 DEF Window
  <2> HIDE DEF recent
  <2>5. IsFiniteSet(calls[p]) /\ Cardinality(calls[p]) <= Limit
    BY <2>1, FiniteWindow DEF Window
  <2>6. /\ Cardinality(recent) \in Nat /\ Cardinality(calls[p]) \in Nat
        /\ Cardinality(recent) <= Cardinality(calls[p])
    BY <2>4, <2>5, FS_Subset, FS_CardinalityType
  <2>7. Cardinality(recent) <= Limit
    BY SMT, <2>5, <2>6, InitAssumption
  <2> QED
    BY <2>7 DEF recent
<1> QED
  BY <1>1, IInvCorrect, PTL

(* Every skill the bootstrap imported rests on one of the preceding major  *)
(* that an operator once validated (runDriftCheck, ImportFromDocs).        *)
THEOREM ImportFollowsActiveCorrect == Spec => []ImportFollowsActive
<1>1. IInv => ImportFollowsActive
  BY DEF IInv, SkillInv, Followed, ImportFollowsActive
<1> QED
  BY <1>1, IInvCorrect, PTL

(* No step loses a row or changes one except by an allowed transition of   *)
(* its status: bootstraps never touch a row (SkillRepo.InsertIfAbsent).    *)
THEOREM ImportKeepsRowCorrect == Spec => ImportKeepsRow
<1> DEFINE Kept(k) ==
             /\ k \in DOMAIN rows'
             /\ rows'[k] # rows[k] =>
                  rows'[k].status \in AllowedTransitions(rows[k].status) /\ rows'[k].id = rows[k].id
<1>1. IInv /\ [Next]_vars => [\A k \in DOMAIN rows : Kept(k)]_vars
  <2> SUFFICES ASSUME IInv, Next, NEW k \in DOMAIN rows PROVE Kept(k)
    OBVIOUS
  <2>1. CASE rows' = rows
    BY <2>1
  <2>2. ASSUME NEW c \in Changes, Import(c) PROVE Kept(k)
    <3>1. InsertIfAbsent(ImportKey(Current(c)), ImportedSkill(Current(c))) \/ rows' = rows
      BY <2>2 DEF Import
    <3> QED
      BY <2>1, <3>1, Inserted
  <2>3. ASSUME NEW j \in DOMAIN rows, NEW to, PatchStatus(j, to) PROVE Kept(k)
    <3>1. /\ DOMAIN rows' = DOMAIN rows
          /\ \A i \in DOMAIN rows : i # j => rows'[i] = rows[i]
          /\ rows'[j].status \in AllowedTransitions(rows[j].status) /\ rows'[j].id = rows[j].id
      BY <2>3, Patched DEF IInv, GuardInv
    <3> QED
      BY <3>1
  <2> QED
    BY <2>1, <2>2, <2>3
    DEF Next, InitStep, BootStep, InitStart, LookupHit, LookupMiss, DetectAndSpawn, Ingest,
        WriteCache, CompleteInit, ReadClock, Allow, DriftFound, NoDrift, Resolve, GetDocs, Edit, Tick,
        Restart
<1> QED
  BY <1>1, IInvCorrect, PTL DEF Spec, ImportKeepsRow

-----------------------------------------------------------------------------
(* Loops.  A recursive definition stands for a function that satisfies its *)
(* equation once there is one; the lemmas of this part find it and carry a *)
(* fact along its values.                                                  *)

(* A set of numbers has a least one.                                       *)
LEMMA Least ==
  ASSUME NEW T, T \subseteq Nat, T # {}
  PROVE  \E x \in T : \A y \in T : x <= y
<1> DEFINE R == OpToRel(<, Nat)
<1>1. IsWellFoundedOn(R, Nat)
  BY NatLessThanWellFounded, Zenon
<1>2. \A x, y \in Nat : x < y => << x, y >> \in R
  BY Zenon DEF OpToRel
<1> HIDE DEF R
<1>3. PICK x \in T : \A y \in T : ~ (<< y, x >> \in R)
  BY <1>1, WFMin, Zenon
<1>4. \A y \in T : ~ (y < x)
  BY <1>2, <1>3, Zenon
<1>5. \A y \in T : x <= y
  BY <1>4, SMT
<1> QED
  BY <1>5

(* The numbers up to n, one after the other: induction with a set for the  *)
(* predicate.                                                              *)
LEMMA Induction ==
  ASSUME NEW n \in Nat, NEW T, 0 \in T, \A k \in 1 .. n : k - 1 \in T => k \in T
  PROVE  \A k \in 0 .. n : k \in T
<1> DEFINE M == { k \in 0 .. n : k \notin T }
<1>1. M \subseteq Nat
  BY SMT
<1>2. ASSUME M # {} PROVE FALSE
  <2>1. PICK m \in M : \A y \in M : m <= y
    BY <1>1, <1>2, Least
  <2>2. m \in 1 .. n /\ m \notin T
    <3>1. m \in 0 .. n /\ m # 0
      BY <2>1
    <3> QED
      BY <2>1, <3>1, SMT
  <2>3. m - 1 \in 0 .. n /\ ~(m <= m - 1)
    BY <2>2, SMT
  <2>4. m - 1 \in T
    BY <2>1, <2>3
  <2> QED
    BY <2>2, <2>4
<1> QED
  BY <1>2

(* g is the run of a loop of n turns from x: turn k applies F[k], and the  *)
(* state after it is in P[k].                                              *)
Chain(g, n, P, x, F) ==
  /\ DOMAIN g = 0 .. n /\ g = [ k \in 0 .. n |-> g[k] ]
  /\ \A k \in 0 .. n : g[k] \in P[k]
  /\ g[0] = x
  /\ \A k \in 1 .. n : g[k] = F[k][g[k - 1]]

(* Every turn leads from one set of states to the next.                    *)
Leads(n, P, F) == \A k \in 1 .. n : \A s \in P[k - 1] : F[k][s] \in P[k]

(* A loop whose turns stay in their sets has a run.  It is the function a  *)
(* recursive definition of the model chooses.                              *)
LEMMA Steps ==
  ASSUME NEW n \in Nat, NEW P, NEW F, Leads(n, P, F), NEW x \in P[0]
  PROVE  \E g : Chain(g, n, P, x, F)
<1> DEFINE T == { k \in 0 .. n : \E g : Chain(g, k, P, x, F) }
<1>1. 0 \in T
  <2> DEFINE g == [ k \in 0 .. 0 |-> x ]
  <2>1. 0 \in 0 .. n /\ 0 \in 0 .. 0 /\ (\A k \in 0 .. 0 : k = 0) /\ \A k \in 1 .. 0 : FALSE
    BY SMT
  <2>2. Chain(g, 0, P, x, F)
    BY <2>1 DEF Chain
  <2> QED
    BY <2>1, <2>2
<1>2. ASSUME NEW k \in 1 .. n, k - 1 \in T PROVE k \in T
  <2>1. PICK g : Chain(g, k - 1, P, x, F)
    BY <1>2
  <2> DEFINE y == F[k][g[k - 1]]
             h == [ j \in 0 .. k |-> IF j = k THEN y ELSE g[j] ]
  <2>2. /\ k \in 0 .. k /\ k - 1 \in 0 .. k - 1 /\ 0 \in 0 .. k /\ 0 # k /\ k \in 0 .. n
        /\ \A j \in 0 .. k : j = k \/ j \in 0 .. k - 1
        /\ \A j \in 1 .. k : j - 1 \in 0 .. k /\ j - 1 # k /\ j \in 0 .. k
        /\ \A j \in 1 .. k : j = k \/ j \in 1 .. k - 1
    BY SMT
  <2>3. y \in P[k]
    BY <2>1, <2>2 DEF Chain, Leads
  <2> HIDE DEF y
  <2>4. /\ h[k] = y /\ (\A j \in 0 .. k : j # k => h[j] = g[j]) /\ DOMAIN h = 0 .. k
        /\ h = [ j \in 0 .. k |-> h[j] ]
    BY <2>2
  <2> HIDE DEF h
  <2>5. \A j \in 0 .. k : h[j] \in P[j]
    BY <2>1, <2>2, <2>3, <2>4 DEF Chain
  <2>6. ASSUME NEW j \in 1 .. k PROVE h[j] = F[j][h[j - 1]]
    <3>1. h[j - 1] = g[j - 1]
      BY <2>2, <2>4
    <3>2. CASE j = k
      BY <2>4, <3>1, <3>2 DEF y
    <3>3. CASE j \in 1 .. k - 1 /\ j # k
      <4>1. h[j] = g[j]
        BY <2>2, <2>4, <3>3
      <4>2. g[j] = F[j][g[j - 1]]
        BY <2>1, <3>3 DEF Chain
      <4> QED
        BY <3>1, <4>1, <4>2
    <3> QED
      BY <2>2, <3>2, <3>3
  <2>7. h[0] = x
    BY <2>1, <2>2, <2>4 DEF Chain
  <2>8. Chain(h, k, P, x, F)
    BY <2>4, <2>5, <2>6, <2>7 DEF Chain
  <2> QED
    BY <2>2, <2>8
<1>3. n \in 0 .. n
  BY SMT
<1> HIDE DEF T
<1>4. n \in T
  BY <1>1, <1>2, <1>3, Induction
<1> QED
  BY <1>4 DEF T

(* A list without repetitions.                                             *)
Once(s) == \A i, j \in DOMAIN s : s[i] = s[j] => i = j

(* s has the wanted ones of the first k entries of the list.               *)
Sifted(list, wanted, k, s) ==
  /\ \A j \in DOMAIN s : \E i \in 1 .. k : s[j] = list[i] /\ list[i] \in wanted
  /\ \A i \in 1 .. k : list[i] \in wanted => \E j \in DOMAIN s : s[j] = list[i]
  /\ Once(list) => Once(s)

(* The entries of a list with one more at the end.                         *)
LEMMA AppendParts ==
  ASSUME NEW X, NEW s \in Seq(X), NEW x \in X
  PROVE  /\ Append(s, x) \in Seq(X) /\ Len(Append(s, x)) = Len(s) + 1
         /\ \A j \in DOMAIN s : j \in DOMAIN Append(s, x) /\ Append(s, x)[j] = s[j]
         /\ Len(s) + 1 \in DOMAIN Append(s, x) /\ Append(s, x)[Len(s) + 1] = x
         /\ \A j \in DOMAIN Append(s, x) : j \in DOMAIN s \/ j = Len(s) + 1
         /\ Len(s) + 1 \notin DOMAIN s
  BY SMT

(* One entry more, as the loop over the rows looks at it.                  *)
LEMMA SiftOne ==
  ASSUME NEW X, NEW list \in Seq(X), NEW wanted, NEW k \in 1 .. Len(list),
         NEW s \in Seq(X), Sifted(list, wanted, k - 1, s)
  PROVE  LET t == IF list[k] \in wanted THEN Append(s, list[k]) ELSE s
         IN  t \in Seq(X) /\ Sifted(list, wanted, k, t)
<1>0. /\ list[k] \in X /\ k \in 1 .. k /\ k \in DOMAIN list
      /\ \A i \in 1 .. k : i = k \/ i \in 1 .. k - 1
      /\ \A i \in 1 .. k - 1 : i \in 1 .. k /\ i # k /\ i \in DOMAIN list
  BY SMT
<1>1. CASE list[k] \notin wanted
  <2>1. Sifted(list, wanted, k, s)
    BY <1>0, <1>1 DEF Sifted
  <2> QED
    BY <1>1, <2>1
<1>2. CASE list[k] \in wanted
  <2> DEFINE t == Append(s, list[k])
             l == Len(s) + 1
  <2>1. /\ t \in Seq(X) /\ l \in DOMAIN t /\ t[l] = list[k] /\ l \notin DOMAIN s
        /\ \A j \in DOMAIN s : j \in DOMAIN t /\ t[j] = s[j]
        /\ \A j \in DOMAIN t : j \in DOMAIN s \/ j = l
    BY <1>0, AppendParts
  <2> HIDE DEF t, l
  <2>2. ASSUME NEW j \in DOMAIN t
        PROVE  \E i \in 1 .. k : t[j] = list[i] /\ list[i] \in wanted
    <3>1. CASE j \in DOMAIN s
      <4>1. PICK i \in 1 .. k - 1 : s[j] = list[i] /\ list[i] \in wanted
        BY <3>1 DEF Sifted
      <4> QED
        BY <1>0, <2>1, <3>1, <4>1
    <3>2. CASE j = l
      BY <1>0, <1>2, <2>1, <3>2
    <3> QED
      BY <2>1, <3>1, <3>2
  <2>3. \A i \in 1 .. k : list[i] \in wanted => \E j \in DOMAIN t : t[j] = list[i]
    BY <1>0, <1>2, <2>1 DEF Sifted
  <2>4. ASSUME Once(list) PROVE Once(t)
    <3>1. Once(s)
      BY <2>4 DEF Sifted
    <3>2. \A j \in DOMAIN s : s[j] # list[k]
      <4>1. SUFFICES ASSUME NEW j \in DOMAIN s, s[j] = list[k] PROVE FALSE
        OBVIOUS
      <4>2. PICK i \in 1 .. k - 1 : s[j] = list[i]
        BY DEF Sifted
      <4> QED
        BY <1>0, <2>4, <4>1, <4>2 DEF Once
    <3>3. ASSUME NEW i \in DOMAIN t, NEW j \in DOMAIN t, t[i] = t[j] PROVE i = j
      <4>1. CASE i \in DOMAIN s /\ j \in DOMAIN s
        BY <2>1, <3>1, <3>3, <4>1 DEF Once
      <4>2. CASE i = l /\ j \in DOMAIN s
        BY <2>1, <3>2, <3>3, <4>2
      <4>3. CASE i \in DOMAIN s /\ j = l
        BY <2>1, <3>2, <3>3, <4>3
      <4> QED
        BY <2>1, <4>1, <4>2, <4>3
    <3> QED
      BY <3>3 DEF Once
  <2>5. Sifted(list, wanted, k, t)
    BY <2>2, <2>3, <2>4 DEF Sifted
  <2> QED
    BY <1>2, <2>1, <2>5 DEF t
<1> QED
  BY <1>1, <1>2

(* What a filtering loop returns for any list.                             *)
LEMMA Selected ==
  ASSUME NEW X, NEW list \in Seq(X), NEW wanted
  PROVE  Select(list, wanted) \in Seq(X) /\ Sifted(list, wanted, Len(list), Select(list, wanted))
<1> DEFINE n == Len(list)
           next(k, s) == IF list[k] \in wanted THEN Append(s, list[k]) ELSE s
           Eq(f) == f = [ k \in 0 .. n |-> IF k = 0 THEN << >> ELSE next(k, f[k - 1]) ]
           kept == CHOOSE f : Eq(f)
           P == [ k \in 0 .. n |-> { s \in Seq(X) : Sifted(list, wanted, k, s) } ]
           F == [ k \in 1 .. n |-> [ s \in Seq(X) |-> next(k, s) ] ]
<1>1. /\ n \in Nat /\ n \in 0 .. n /\ 0 \in 0 .. n
      /\ \A k \in 1 .. n : k - 1 \in 0 .. n /\ k \in 0 .. n /\ k # 0
      /\ \A k \in 0 .. n : k = 0 \/ k \in 1 .. n
  BY SMT
<1>2. << >> \in Seq(X) /\ Sifted(list, wanted, 0, << >>)
  <2>1. << >> \in Seq(X) /\ (\A i \in 1 .. 0 : FALSE) /\ \A i \in DOMAIN << >> : FALSE
    BY SMT
  <2> QED
    BY <2>1 DEF Sifted, Once
<1>3. \A k \in 1 .. n : \A s \in Seq(X) :
        Sifted(list, wanted, k - 1, s) =>
          next(k, s) \in Seq(X) /\ Sifted(list, wanted, k, next(k, s))
  BY SiftOne
<1> HIDE DEF next, n
<1>4. \A k \in 1 .. n : \A s \in Seq(X) : F[k][s] = next(k, s)
  OBVIOUS
<1>5. \A k \in 0 .. n : \A s : s \in P[k] <=> s \in Seq(X) /\ Sifted(list, wanted, k, s)
  OBVIOUS
<1> HIDE DEF F, P
<1>6. Leads(n, P, F)
  BY <1>1, <1>3, <1>4, <1>5 DEF Leads
<1>7. << >> \in P[0]
  BY <1>1, <1>2, <1>5
<1>8. PICK g : Chain(g, n, P, << >>, F)
  BY <1>1, <1>6, <1>7, Steps
<1>9. Eq(g)
  <2>1. \A k \in 1 .. n : g[k] = next(k, g[k - 1])
    BY <1>1, <1>4, <1>5, <1>8 DEF Chain
  <2>2. ASSUME NEW k \in 0 .. n PROVE g[k] = IF k = 0 THEN << >> ELSE next(k, g[k - 1])
    <3>1. CASE k = 0
      BY <1>8, <3>1 DEF Chain
    <3>2. CASE k \in 1 .. n
      BY <1>1, <2>1, <3>2
    <3>3. k = 0 \/ k \in 1 .. n
      BY <1>1
    <3> QED
      BY <3>1, <3>2, <3>3
  <2>3. g = [ k \in 0 .. n |-> g[k] ]
    BY <1>8 DEF Chain
  <2> QED
    BY <2>2, <2>3
<1>10. Eq(kept)
  BY <1>9
<1> HIDE DEF kept
<1>11. kept[0] = << >> /\ \A k \in 1 .. n : kept[k] = next(k, kept[k - 1])
  BY <1>1, <1>10
<1> DEFINE T == { k \in 0 .. n : kept[k] \in Seq(X) /\ Sifted(list, wanted, k, kept[k]) }
<1>12. 0 \in T
  BY <1>1, <1>2, <1>11
<1>13. \A k \in 1 .. n : k - 1 \in T => k \in T
  BY <1>1, <1>3, <1>11
<1>14. n \in T
  <2> HIDE DEF T
  <2> QED
    BY <1>1, <1>12, <1>13, Induction
<1> QED
  BY <1>14 DEF Select, kept, next, n

(* Less is a strict total order on R.                                      *)
Ordered(R) ==
  /\ \A a, b \in R : Less(a, b) => ~Less(b, a)
  /\ \A a, b \in R : a # b => Less(a, b) \/ Less(b, a)
  /\ \A a, b, c \in R : Less(a, b) /\ Less(b, c) => Less(a, c)

(* The columns the order looks at have values that can be compared.        *)
Sortable(s) ==
  s.risk \in Risks /\ s.validatedAt \in Nat /\ s.usage \in Nat /\ s.id \in Nat

(* Risk, validation time, usage and identifier, in this order, decide      *)
(* between any two skills with different identifiers (sortSkills).         *)
LEMMA LessOrders ==
  ASSUME NEW R, \A s \in R : Sortable(s), \A a, b \in R : a.id = b.id => a = b
  PROVE  Ordered(R)
<1>1. \A s \in R :
        RiskOrder(s.risk) \in Int /\ s.validatedAt \in Int /\ s.usage \in Int /\ s.id \in Int
  <2>1. \A r \in Risks : RiskOrder(r) \in Int
    BY SMT DEF Risks, RiskOrder
  <2>2. \A m \in Nat : m \in Int
    BY SMT
  <2> QED
    BY <2>1, <2>2 DEF Sortable
<1>2. \A a, b \in R : Less(a, b) => ~Less(b, a)
  BY <1>1, SMT DEF Less
<1>3. \A a, b \in R : a # b => Less(a, b) \/ Less(b, a)
  <2> SUFFICES ASSUME NEW a \in R, NEW b \in R, a # b PROVE Less(a, b) \/ Less(b, a)
    OBVIOUS
  <2>1. a.id # b.id
    OBVIOUS
  <2> QED
    BY <1>1, <2>1, SMT DEF Less
<1>4. \A a, b, c \in R : Less(a, b) /\ Less(b, c) => Less(a, c)
  BY <1>1, SMT DEF Less
<1> QED
  BY <1>2, <1>3, <1>4 DEF Ordered

(* The place of x in R is one more than the number of those before it.     *)
Below(R, x) == { y \in R : Less(y, x) }

Place(R, x) == 1 + Cardinality(Below(R, x))

(* Of two skills, the later one has more before it.                        *)
LEMMA BelowGrows ==
  ASSUME NEW R, IsFiniteSet(R), Ordered(R), NEW x \in R, NEW y \in R, Less(x, y)
  PROVE  Place(R, x) # Place(R, y)
<1>1. Below(R, x) \cup {x} \subseteq Below(R, y) /\ x \notin Below(R, x) /\ Below(R, x) \in SUBSET R
      /\ Below(R, y) \in SUBSET R
  BY DEF Below, Ordered
<1>2. IsFiniteSet(Below(R, x)) /\ IsFiniteSet(Below(R, y))
  BY <1>1, FS_Subset
<1>3. Cardinality(Below(R, x) \cup {x}) = Cardinality(Below(R, x)) + 1
  BY <1>1, <1>2, FS_AddElement
<1>4. Cardinality(Below(R, x) \cup {x}) <= Cardinality(Below(R, y))
  BY <1>1, <1>2, FS_Subset
<1>5. Cardinality(Below(R, x)) \in Nat /\ Cardinality(Below(R, y)) \in Nat
  BY <1>2, FS_CardinalityType
<1> QED
  BY <1>3, <1>4, <1>5, SMT DEF Place

(* Every place up to the number of skills is taken by exactly one of them. *)
LEMMA Places ==
  ASSUME NEW R, IsFiniteSet(R), Ordered(R)
  PROVE  /\ \A x, y \in R : Place(R, x) = Place(R, y) => x = y
         /\ \A m \in 1 .. Cardinality(R) : \E x \in R : Place(R, x) = m
<1>1. \A x, y \in R : Place(R, x) = Place(R, y) => x = y
  BY BelowGrows DEF Ordered
<1>2. ASSUME NEW x \in R PROVE Place(R, x) \in 1 .. Cardinality(R)
  <2>1. Below(R, x) \in SUBSET (R \ {x})
    BY DEF Below, Ordered
  <2>2. IsFiniteSet(R \ {x}) /\ Cardinality(R \ {x}) = Cardinality(R) - 1
    BY FS_RemoveElement
  <2>3. IsFiniteSet(Below(R, x)) /\ Cardinality(Below(R, x)) <= Cardinality(R \ {x})
    BY <2>1, <2>2, FS_Subset
  <2>4. Cardinality(Below(R, x)) \in Nat /\ Cardinality(R) \in Nat
    BY <2>3, FS_CardinalityType
  <2> QED
    BY <2>2, <2>3, <2>4, SMT DEF Place
<1> DEFINE I == 1 .. Cardinality(R)
           g == [ x \in R |-> Place(R, x) ]
<1>3. g \in Injection(R, I)
  <2>1. g \in [ R -> I ]
    BY <1>2
  <2>2. IsInjective(g)
    BY <1>1 DEF IsInjective
  <2> QED
    BY <2>1, <2>2 DEF Injection
<1>4. Cardinality(R) \in Nat
  BY FS_CardinalityType
<1>5. IsFiniteSet(I) /\ Cardinality(I) = Cardinality(R)
  <2>1. 1 \in Int /\ Cardinality(R) \in Int
    BY <1>4, SMT
  <2>2. IsFiniteSet(I) /\ Cardinality(I) = IF 1 > Cardinality(R) THEN 0 ELSE Cardinality(R) - 1 + 1
    BY <2>1, FS_Interval
  <2> QED
    BY <1>4, <2>2, SMT
<1> HIDE DEF I
<1>6. g \in Surjection(R, I)
  <2> HIDE DEF g
  <2> QED
    BY <1>3, <1>5, FS_Injection
<1>7. \A m \in I : \E x \in R : g[x] = m
  <2> HIDE DEF g
  <2> QED
    BY <1>6 DEF Surjection
<1> QED
  BY <1>1, <1>7 DEF I

(* A list without repetitions has as many members as entries.              *)
LEMMA ListRange ==
  ASSUME NEW X, NEW L \in Seq(X), Once(L)
  PROVE  IsFiniteSet(Range(L)) /\ Cardinality(Range(L)) = Len(L)
<1>1. /\ Len(L) \in Nat /\ DOMAIN L = 1 .. Len(L) /\ L \in [ 1 .. Len(L) -> X ]
      /\ 1 \in Int /\ Len(L) \in Int
  BY SMT
<1> DEFINE D == 1 .. Len(L)
<1>2. IsFiniteSet(D) /\ Cardinality(D) = IF 1 > Len(L) THEN 0 ELSE Len(L) - 1 + 1
  BY <1>1, FS_Interval
<1>3. Cardinality(D) = Len(L)
  BY <1>1, <1>2, SMT
<1>4. L \in [ D -> Range(L) ]
  BY <1>1 DEF Range
<1>5. L \in Surjection(D, Range(L))
  BY <1>1, <1>4 DEF Surjection, Range
<1>6. L \in Injection(D, Range(L))
  BY <1>1, <1>4 DEF Injection, IsInjective, Once
<1> HIDE DEF D
<1>7. IsFiniteSet(Range(L)) /\ Cardinality(Range(L)) = Cardinality(D)
  BY <1>2, <1>5, <1>6, FS_Surjection
<1> QED
  BY <1>3, <1>7

(* sort.SliceStable puts each skill in its place.                          *)
LEMMA SortPlaces ==
  ASSUME NEW X, NEW L \in Seq(X), Once(L), Ordered(Range(L))
  PROVE  /\ DOMAIN SortSkills(L) = 1 .. Len(L)
         /\ SortSkills(L) = [ m \in 1 .. Len(L) |-> SortSkills(L)[m] ]
         /\ \A m \in 1 .. Len(L) :
              SortSkills(L)[m] \in Range(L) /\ Place(Range(L), SortSkills(L)[m]) = m
<1> DEFINE R == Range(L)
           before(i, j) == Less(L[i], L[j]) \/ (~Less(L[j], L[i]) /\ i < j)
           J(i) == { j \in DOMAIN L : before(j, i) }
           rank(i) == 1 + Cardinality(J(i))
<1>1. IsFiniteSet(R) /\ Cardinality(R) = Len(L)
  BY ListRange
<1>2. DOMAIN L = 1 .. Len(L) /\ (\A i \in DOMAIN L : ~(i < i)) /\ IsFiniteSet(DOMAIN L)
  <2>1. DOMAIN L = 1 .. Len(L) /\ (\A i \in DOMAIN L : ~(i < i)) /\ 1 \in Int /\ Len(L) \in Int
    BY SMT
  <2> QED
    BY <2>1, FS_Interval
<1>3. ASSUME NEW i \in DOMAIN L PROVE rank(i) = Place(R, L[i])
  <2>1. \A j \in DOMAIN L : before(j, i) <=> Less(L[j], L[i])
    <3> SUFFICES ASSUME NEW j \in DOMAIN L PROVE before(j, i) <=> Less(L[j], L[i])
      OBVIOUS
    <3>1. L[i] \in R /\ L[j] \in R
      BY DEF Range
    <3>2. CASE i = j
      BY <1>2, <3>1, <3>2 DEF Ordered
    <3>3. CASE i # j
      <4>1. L[i] # L[j]
        BY <3>3 DEF Once
      <4>2. Less(L[i], L[j]) \/ Less(L[j], L[i])
        BY <3>1, <4>1 DEF Ordered
      <4>3. Less(L[i], L[j]) => ~Less(L[j], L[i])
        BY <3>1 DEF Ordered
      <4> QED
        BY <4>2, <4>3
    <3> QED
      BY <3>2, <3>3
  <2>2. J(i) = { j \in DOMAIN L : Less(L[j], L[i]) }
    BY <2>1
  <2> DEFINE K == { j \in DOMAIN L : Less(L[j], L[i]) }
             b == [ j \in K |-> L[j] ]
             B == Below(R, L[i])
  <2>3. b \in [ K -> B ]
    BY DEF Below, Range
  <2>4. \A x \in B : \E j \in K : b[j] = x
    BY DEF Below, Range
  <2>5. \A j, k \in K : b[j] = b[k] => j = k
    BY DEF Once
  <2>6. IsFiniteSet(K)
    BY <1>2, FS_Subset
  <2> HIDE DEF b, B, K
  <2>7. b \in Surjection(K, B) /\ b \in Injection(K, B)
    BY <2>3, <2>4, <2>5 DEF Surjection, Injection, IsInjective
  <2>8. Cardinality(B) = Cardinality(K)
    BY <2>6, <2>7, FS_Surjection
  <2> QED
    BY <2>2, <2>8 DEF K, B, Place
<1> DEFINE v(m) == L[CHOOSE i \in DOMAIN L : rank(i) = m]
           S == [ m \in 1 .. Len(L) |-> v(m) ]
<1>4. ASSUME NEW m \in 1 .. Len(L) PROVE S[m] \in R /\ Place(R, S[m]) = m
  <2>1. PICK x \in R : Place(R, x) = m
    BY <1>1, Places
  <2>2. PICK i \in DOMAIN L : L[i] = x
    BY <2>1 DEF Range
  <2>3. rank(i) = m
    BY <1>3, <2>1, <2>2
  <2> HIDE DEF rank
  <2> DEFINE c == CHOOSE h \in DOMAIN L : rank(h) = m
  <2>4. c \in DOMAIN L /\ rank(c) = m
    BY <2>3
  <2>5. S[m] = L[c]
    OBVIOUS
  <2> HIDE DEF c, S
  <2>6. L[c] \in R
    BY <2>4 DEF Range
  <2> QED
    BY <1>3, <2>4, <2>5, <2>6
<1>5. SortSkills(L) = S
  BY DEF SortSkills
<1>6. DOMAIN S = 1 .. Len(L) /\ S = [ m \in 1 .. Len(L) |-> S[m] ]
  <2> HIDE DEF v
  <2> QED
    OBVIOUS
<1> HIDE DEF S
<1> QED
  BY <1>4, <1>5, <1>6

(* So two orders of the same skills are sorted into the same list.         *)
LEMMA SortSame ==
  ASSUME NEW X, NEW L \in Seq(X), NEW M \in Seq(X), Once(L), Once(M),
         Range(L) = Range(M), Ordered(Range(L))
  PROVE  SortSkills(L) = SortSkills(M)
<1>1. Len(L) = Len(M) /\ IsFiniteSet(Range(L))
  BY ListRange
<1> DEFINE s == SortSkills(L)
           t == SortSkills(M)
           n == Len(L)
<1>2. /\ s = [ m \in 1 .. n |-> s[m] ]
      /\ \A m \in 1 .. n : s[m] \in Range(L) /\ Place(Range(L), s[m]) = m
  BY SortPlaces
<1>3. /\ t = [ m \in 1 .. n |-> t[m] ]
      /\ \A m \in 1 .. n : t[m] \in Range(L) /\ Place(Range(L), t[m]) = m
  <2>1. Ordered(Range(M))
    OBVIOUS
  <2>2. /\ t = [ m \in 1 .. Len(M) |-> t[m] ]
        /\ \A m \in 1 .. Len(M) : t[m] \in Range(M) /\ Place(Range(M), t[m]) = m
    BY <2>1, SortPlaces
  <2> HIDE DEF t
  <2> QED
    BY <1>1, <2>2
<1> HIDE DEF s, t
<1>4. \A m \in 1 .. n : s[m] = t[m]
  <2>1. \A x, y \in Range(L) : Place(Range(L), x) = Place(Range(L), y) => x = y
    BY <1>1, Places
  <2> SUFFICES ASSUME NEW m \in 1 .. n PROVE s[m] = t[m]
    OBVIOUS
  <2>2. s[m] \in Range(L) /\ Place(Range(L), s[m]) = m
    BY <1>2
  <2>3. t[m] \in Range(L) /\ Place(Range(L), t[m]) = m
    BY <1>3
  <2> QED
    BY <2>1, <2>2, <2>3
<1>5. s = t
  BY <1>2, <1>3, <1>4
<1> QED
  BY <1>5 DEF s, t

(* The same in sets: exactly the wanted entries, and none twice if the list *)
(* has none twice (the loops of SkillsForContext and renderSkills).        *)
LEMMA SelectedRange ==
  ASSUME NEW X, NEW L \in Seq(X), NEW w
  PROVE  /\ Select(L, w) \in Seq(X)
         /\ Range(Select(L, w)) = Range(L) \cap w
         /\ Once(L) => Once(Select(L, w))
<1>1. Select(L, w) \in Seq(X) /\ Sifted(L, w, Len(L), Select(L, w))
  BY Selected
<1>2. DOMAIN L = 1 .. Len(L)
  BY SMT
<1>3. PICK s : s = Select(L, w)
  OBVIOUS
<1>4. Sifted(L, w, Len(L), s)
  BY <1>1, <1>3
<1>5. ASSUME NEW x \in Range(s) PROVE x \in Range(L) /\ x \in w
  <2>1. PICK j \in DOMAIN s : x = s[j]
    BY <1>5 DEF Range
  <2>2. PICK i \in 1 .. Len(L) : s[j] = L[i] /\ L[i] \in w
    BY <1>4 DEF Sifted
  <2> QED
    BY <1>2, <2>1, <2>2 DEF Range
<1>6. ASSUME NEW x \in Range(L), x \in w PROVE x \in Range(s)
  <2>1. PICK i \in 1 .. Len(L) : x = L[i]
    BY <1>2, <1>6 DEF Range
  <2>2. PICK j \in DOMAIN s : s[j] = L[i]
    BY <1>4, <1>6, <2>1 DEF Sifted
  <2> QED
    BY <2>1, <2>2 DEF Range
<1>7. Range(s) = Range(L) \cap w
  BY <1>5, <1>6
<1>8. Once(L) => Once(s)
  BY <1>4 DEF Sifted
<1> QED
  BY <1>1, <1>3, <1>7, <1>8

(* Skills that can be compared and are told apart by their identifiers.    *)
Keyed(R) == (\A s \in R : Sortable(s)) /\ \A a, b \in R : a.id = b.id => a = b

(* Any selection of such skills is ordered.                                *)
LEMMA KeyedPart ==
  ASSUME NEW R, Keyed(R), NEW T, T \subseteq R
  PROVE  Ordered(T)
<1>1. (\A s \in T : Sortable(s)) /\ \A a, b \in T : a.id = b.id => a = b
  BY DEF Keyed
<1> QED
  BY <1>1, LessOrders

(* SkillsForContext returns one list for all orders of the same rows.      *)
LEMMA ContextSame ==
  ASSUME NEW X, NEW L \in Seq(X), NEW M \in Seq(X), Once(L), Once(M),
         Range(L) = Range(M), Keyed(Range(L)), NEW q
  PROVE  SkillsForContext(L, q) = SkillsForContext(M, q)
<1> DEFINE w == { s \in Range(L) : Matches(s, q) }
<1>1. w = { s \in Range(M) : Matches(s, q) }
  OBVIOUS
<1>2. PICK l, m : l = Select(L, w) /\ m = Select(M, w)
  OBVIOUS
<1> HIDE DEF w
<1>3. l \in Seq(X) /\ Once(l) /\ Range(l) = Range(L) \cap w
  BY <1>2, SelectedRange
<1>4. m \in Seq(X) /\ Once(m) /\ Range(m) = Range(M) \cap w
  BY <1>2, SelectedRange
<1>5. Range(l) = Range(m) /\ Range(l) \subseteq Range(L)
  BY <1>3, <1>4
<1>6. Ordered(Range(l))
  BY <1>5, KeyedPart
<1>7. SortSkills(l) = SortSkills(m)
  BY <1>3, <1>4, <1>5, <1>6, SortSame
<1> QED
  BY <1>1, <1>2, <1>7 DEF SkillsForContext, w

(* Every skill SkillsForContext returns is a row that passed every filter. *)
LEMMA ContextFilters ==
  ASSUME NEW X, NEW L \in Seq(X), Once(L), Keyed(Range(L)), NEW q
  PROVE  /\ SkillsForContext(L, q) \in Seq(Range(L))
         /\ \A s \in Range(SkillsForContext(L, q)) : s \in Range(L) /\ Matches(s, q)
<1> DEFINE w == { x \in Range(L) : Matches(x, q) }
<1>1. PICK l : l = Select(L, w)
  OBVIOUS
<1>2. l \in Seq(X) /\ Once(l) /\ Range(l) = Range(L) \cap w
  <2> HIDE DEF w
  <2> QED
    BY <1>1, SelectedRange
<1>3. Ordered(Range(l))
  BY <1>2, KeyedPart
<1>4. PICK t : t = SortSkills(l)
  OBVIOUS
<1>5. /\ DOMAIN t = 1 .. Len(l) /\ t = [ m \in 1 .. Len(l) |-> t[m] ]
      /\ \A m \in 1 .. Len(l) : t[m] \in Range(l)
  BY <1>2, <1>3, <1>4, SortPlaces
<1>6. t \in Seq(Range(L))
  <2>1. Len(l) \in Nat
    BY <1>2, SMT
  <2>2. \A m \in 1 .. Len(l) : t[m] \in Range(L)
    BY <1>2, <1>5
  <2> QED
    BY <1>5, <2>1, <2>2, SMT
<1>7. t = SkillsForContext(L, q)
  BY <1>1, <1>4 DEF SkillsForContext
<1>8. ASSUME NEW s \in Range(t) PROVE s \in Range(L) /\ Matches(s, q)
  <2>1. s \in Range(l)
    BY <1>5 DEF Range
  <2> QED
    BY <1>2, <2>1
<1> QED
  BY <1>6, <1>7, <1>8

(* So is every skill of the rendered prompt.                               *)
LEMMA ContextMatches ==
  ASSUME NEW X, NEW L \in Seq(X), Once(L), Keyed(Range(L)), NEW q,
         NEW s \in Range(RenderSkills(SkillsForContext(L, q)))
  PROVE  s \in Range(L) /\ Matches(s, q)
<1>1. PICK t : t = SkillsForContext(L, q)
  OBVIOUS
<1>2. t \in Seq(Range(L)) /\ \A x \in Range(t) : x \in Range(L) /\ Matches(x, q)
  BY <1>1, ContextFilters
<1> DEFINE a == { x \in Range(t) : x.status = "active" }
<1>3. Range(Select(t, a)) = Range(t) \cap a
  <2> HIDE DEF a
  <2> QED
    BY <1>2, SelectedRange
<1>4. s \in Range(t)
  BY <1>1, <1>3 DEF RenderSkills
<1> QED
  BY <1>2, <1>4

-----------------------------------------------------------------------------
(* The budget of a prompt.                                                 *)

(* A layer enforceBudget kept, as it was or cut.                           *)
KeptLayer == [ name : LayerNames, len : Nat, cut : BOOLEAN ]

(* f has the sums of the first lengths.                                    *)
Sums(f, s) ==
  /\ \A k \in 0 .. Len(s) : f[k] \in Nat
  /\ f[0] = 0 /\ \A k \in 1 .. Len(s) : f[k] = f[k - 1] + s[k].len

(* TotalLen is the last of these sums.                                     *)
LEMMA TotalSums ==
  ASSUME NEW s \in Seq(KeptLayer)
  PROVE  \E f : Sums(f, s) /\ TotalLen(s) = f[Len(s)]
<1> DEFINE n == Len(s)
           next(k, x) == x + s[k].len
           Eq(f) == f = [ k \in 0 .. n |-> IF k = 0 THEN 0 ELSE next(k, f[k - 1]) ]
           sum == CHOOSE f : Eq(f)
           P == [ k \in 0 .. n |-> Nat ]
           F == [ k \in 1 .. n |-> [ x \in Nat |-> next(k, x) ] ]
<1>1. /\ n \in Nat /\ n \in 0 .. n /\ 0 \in 0 .. n
      /\ \A k \in 1 .. n : k - 1 \in 0 .. n /\ k \in 0 .. n /\ k # 0
      /\ \A k \in 0 .. n : k = 0 \/ k \in 1 .. n
      /\ 0 \in Nat
  BY SMT
<1>2. \A k \in 1 .. n : \A x \in Nat : next(k, x) \in Nat
  <2>1. \A k \in 1 .. n : s[k] \in KeptLayer
    BY SMT
  <2>2. \A l \in KeptLayer : l.len \in Nat
    BY DEF KeptLayer
  <2>3. \A k \in 1 .. n : s[k].len \in Nat
    BY <2>1, <2>2
  <2> QED
    BY <2>3, SMT
<1> HIDE DEF n, next
<1>3. \A k \in 1 .. n : \A x \in Nat : F[k][x] = next(k, x)
  OBVIOUS
<1>4. \A k \in 0 .. n : \A x : x \in P[k] <=> x \in Nat
  OBVIOUS
<1> HIDE DEF F, P
<1>5. Leads(n, P, F)
  <2>1. ASSUME NEW k \in 1 .. n, NEW x \in P[k - 1] PROVE F[k][x] \in P[k]
    <3>1. x \in Nat
      BY <1>1, <1>4
    <3>2. F[k][x] \in Nat
      BY <1>2, <1>3, <3>1
    <3> QED
      BY <1>1, <1>4, <3>2
  <2> QED
    BY <2>1 DEF Leads
<1>6. PICK g : Chain(g, n, P, 0, F)
  <2>1. 0 \in P[0]
    BY <1>1, <1>4
  <2> QED
    BY <1>1, <1>5, <2>1, Steps
<1>7. Eq(g)
  <2>1. \A k \in 1 .. n : g[k] = next(k, g[k - 1])
    BY <1>1, <1>3, <1>4, <1>6 DEF Chain
  <2>2. ASSUME NEW k \in 0 .. n PROVE g[k] = IF k = 0 THEN 0 ELSE next(k, g[k - 1])
    <3>1. CASE k = 0
      BY <1>6, <3>1 DEF Chain
    <3>2. CASE k \in 1 .. n
      BY <1>1, <2>1, <3>2
    <3>3. k = 0 \/ k \in 1 .. n
      BY <1>1
    <3> QED
      BY <3>1, <3>2, <3>3
  <2>3. g = [ k \in 0 .. n |-> g[k] ]
    BY <1>6 DEF Chain
  <2> QED
    BY <2>2, <2>3
<1>8. Eq(sum)
  BY <1>7
<1> HIDE DEF sum
<1>9. sum[0] = 0 /\ \A k \in 1 .. n : sum[k] = next(k, sum[k - 1])
  BY <1>1, <1>8
<1> DEFINE T == { k \in 0 .. n : sum[k] \in Nat }
<1>10. 0 \in T /\ \A k \in 1 .. n : k - 1 \in T => k \in T
  BY <1>1, <1>2, <1>9
<1> HIDE DEF T
<1>11. \A k \in 0 .. n : k \in T
  BY <1>1, <1>10, Induction
<1>12. Sums(sum, s)
  BY <1>9, <1>11 DEF Sums, T, n, next
<1>13. TotalLen(s) = sum[Len(s)]
  BY DEF TotalLen, sum, n, next
<1> QED
  BY <1>12, <1>13

(* Nothing kept, no byte used.                                             *)
LEMMA TotalEmpty == TotalLen(<< >>) = 0
<1>1. << >> \in Seq(KeptLayer) /\ Len(<< >>) = 0
  BY SMT
<1> QED
  BY <1>1, TotalSums DEF Sums

(* One layer more adds its length.                                         *)
LEMMA TotalAppend ==
  ASSUME NEW s \in Seq(KeptLayer), NEW x \in KeptLayer
  PROVE  TotalLen(s) \in Nat /\ TotalLen(Append(s, x)) = TotalLen(s) + x.len
<1> DEFINE t == Append(s, x)
           n == Len(s)
<1>1. t \in Seq(KeptLayer)
  BY SMT
<1>2. PICK f : Sums(f, s) /\ TotalLen(s) = f[n]
  BY TotalSums
<1>3. PICK g : Sums(g, t) /\ TotalLen(t) = g[Len(t)]
  BY <1>1, TotalSums
<1>4. /\ n \in Nat /\ Len(t) = n + 1 /\ t[n + 1] = x /\ \A k \in 1 .. n : t[k] = s[k]
      /\ n + 1 - 1 = n /\ n + 1 \in 1 .. n + 1 /\ n \in 0 .. n
      /\ \A k \in 1 .. n : k \in 1 .. n + 1 /\ k - 1 \in 0 .. n /\ k \in 0 .. n
      /\ 0 \in 0 .. n
  BY SMT
<1>0. \A m : m = n + 1 => m \in 1 .. Len(t) /\ m - 1 = n /\ t[m] = x
  BY SMT
<1> HIDE DEF t, n
<1> DEFINE T == { k \in 0 .. n : f[k] = g[k] }
<1>5. 0 \in T
  BY <1>2, <1>3, <1>4 DEF Sums
<1>6. ASSUME NEW k \in 1 .. n, k - 1 \in T PROVE k \in T
  <2>1. f[k] = f[k - 1] + s[k].len
    BY <1>2 DEF Sums, n
  <2>2. g[k] = g[k - 1] + t[k].len
    BY <1>3, <1>4 DEF Sums
  <2>3. t[k] = s[k] /\ f[k - 1] = g[k - 1] /\ k \in 0 .. n
    BY <1>4, <1>6
  <2> QED
    BY <2>1, <2>2, <2>3
<1> HIDE DEF T
<1>7. n \in T
  BY <1>4, <1>5, <1>6, Induction
<1>8. g[n] = f[n]
  BY <1>7 DEF T
<1>9. g[n + 1] = g[n] + x.len
  <2>1. \A k \in 1 .. Len(t) : g[k] = g[k - 1] + t[k].len
    BY <1>3 DEF Sums
  <2>2. PICK m : m = n + 1
    OBVIOUS
  <2>3. m \in 1 .. Len(t) /\ m - 1 = n /\ t[m] = x
    BY <1>0, <2>2
  <2> QED
    BY <2>1, <2>2, <2>3
<1>10. g[n + 1] = f[n] + x.len
  BY <1>4, <1>8, <1>9
<1>11. f[n] \in Nat
  BY <1>2, <1>4 DEF Sums, n
<1> QED
  BY <1>2, <1>3, <1>4, <1>10, <1>11 DEF t

(* The state of enforceBudget's loop.                                      *)
BudgetState == [ kept : Seq(KeptLayer), remaining : Nat, out : BOOLEAN ]

(* After k turns every byte of the budget is used or left, and the layers  *)
(* kept are the first ones, none longer than it was.                       *)
Spent(layers, budget, k, b) ==
  /\ Len(b.kept) <= k /\ (~b.out => Len(b.kept) = k)
  /\ TotalLen(b.kept) + b.remaining = budget
  /\ \A i \in DOMAIN b.kept :
       b.kept[i].name = layers[i].name /\ b.kept[i].len <= layers[i].len

(* A layer is never given more than what is left.                          *)
LEMMA AllocFits ==
  ASSUME NEW name, NEW budget \in Nat, NEW remaining \in Nat
  PROVE  Alloc(name, budget, remaining) \in Nat /\ Alloc(name, budget, remaining) <= remaining
<1> DEFINE share == LayerBudgetShare(name)
<1>1. share \in {40, 20, 15, 10, 100}
  BY SMT DEF LayerBudgetShare
<1> HIDE DEF share
<1>2. (budget * share) \div 100 \in Nat
  <2>1. \A s \in {40, 20, 15, 10, 100} : (budget * s) \div 100 \in Nat
    BY SMT
  <2> QED
    BY <1>1, <2>1
<1>3. PICK x \in Nat : x = (budget * share) \div 100
  BY <1>2
<1>4. Alloc(name, budget, remaining) = IF x > remaining THEN remaining ELSE x
  BY <1>3 DEF Alloc, share
<1> QED
  BY <1>4, SMT

(* One turn of enforceBudget's loop.                                       *)
LEMMA SpendOne ==
  ASSUME NEW layers \in Seq(Layer), NEW budget \in Nat, NEW k \in 1 .. Len(layers),
         NEW b \in BudgetState, Spent(layers, budget, k - 1, b)
  PROVE  LET c == BudgetStep(budget, b, layers[k])
         IN  c \in BudgetState /\ Spent(layers, budget, k, c)
<1>1. b.kept \in Seq(KeptLayer) /\ b.remaining \in Nat /\ b.out \in BOOLEAN
  BY DEF BudgetState
<1>2. PICK l : l = layers[k]
  OBVIOUS
<1>3. l.name \in LayerNames /\ l.len \in Nat
  <2>1. l \in Layer
    BY <1>2, SMT
  <2> QED
    BY <2>1 DEF Layer
<1>4. CASE b.out
  <2>1. BudgetStep(budget, b, layers[k]) = b
    BY <1>4 DEF BudgetStep
  <2>2. Len(b.kept) <= k
    <3>1. Len(b.kept) <= k - 1
      BY DEF Spent
    <3>2. Len(b.kept) \in Nat
      BY <1>1, SMT
    <3> QED
      BY <3>1, <3>2, SMT
  <2>3. Spent(layers, budget, k, b)
    BY <1>4, <2>2 DEF Spent
  <2> QED
    BY <2>1, <2>3
<1>5. CASE ~b.out
  <2> DEFINE alloc == Alloc(l.name, budget, b.remaining)
             fits == l.len <= alloc
             used == IF fits THEN l.len ELSE alloc
             e == [ name |-> l.name, len |-> used, cut |-> ~fits ]
             kept == Append(b.kept, e)
             over == ~fits /\ b.remaining - used <= 0
             c == [ kept |-> kept, remaining |-> b.remaining - used, out |-> over ]
  <2>1. BudgetStep(budget, b, layers[k]) = c
    BY <1>2, <1>5 DEF BudgetStep
  <2>2. alloc \in Nat /\ alloc <= b.remaining
    BY <1>1, <1>3, AllocFits
  <2>3. /\ used \in Nat /\ used <= b.remaining /\ used <= l.len
        /\ b.remaining - used \in Nat
    <3> HIDE DEF alloc
    <3> QED
      BY <1>1, <1>3, <2>2, SMT
  <2>4. over \in BOOLEAN /\ (~fits) \in BOOLEAN
    <3> DEFINE none == b.remaining - used <= 0
    <3> HIDE DEF fits, none
    <3>1. (~fits) = TRUE \/ (~fits) = FALSE
      OBVIOUS
    <3>2. (~fits /\ none) = TRUE \/ (~fits /\ none) = FALSE
      OBVIOUS
    <3>3. (~fits /\ none) \in BOOLEAN /\ (~fits) \in BOOLEAN
      BY <3>1, <3>2
    <3> QED
      BY <3>3 DEF none
  <2> HIDE DEF fits, used, over
  <2>5. e \in KeptLayer /\ e.name = l.name /\ e.len = used
    BY <1>3, <2>3, <2>4 DEF KeptLayer
  <2> HIDE DEF e
  <2>6. /\ kept \in Seq(KeptLayer) /\ Len(kept) = Len(b.kept) + 1
        /\ \A i \in DOMAIN b.kept : kept[i] = b.kept[i]
        /\ kept[Len(b.kept) + 1] = e
        /\ \A i \in DOMAIN kept : i \in DOMAIN b.kept \/ i = Len(b.kept) + 1
    <3>1. PICK p : p = b.kept
      OBVIOUS
    <3>2. p \in Seq(KeptLayer)
      BY <1>1, <3>1
    <3>3. /\ Append(p, e) \in Seq(KeptLayer) /\ Len(Append(p, e)) = Len(p) + 1
          /\ \A i \in DOMAIN p : Append(p, e)[i] = p[i]
          /\ Append(p, e)[Len(p) + 1] = e
          /\ \A i \in DOMAIN Append(p, e) : i \in DOMAIN p \/ i = Len(p) + 1
      BY <2>5, <3>2, AppendParts
    <3> QED
      BY <3>1, <3>3
  <2>7. TotalLen(b.kept) \in Nat /\ TotalLen(kept) = TotalLen(b.kept) + used
    BY <1>1, <2>5, TotalAppend
  <2> HIDE DEF kept
  <2>8. c \in BudgetState
    BY <2>3, <2>4, <2>6 DEF BudgetState
  <2>9. c.kept = kept /\ c.remaining = b.remaining - used
    OBVIOUS
  <2> HIDE DEF c
  <2>10. Len(b.kept) = k - 1
    BY <1>5 DEF Spent
  <2>11. Len(kept) = k /\ Len(b.kept) + 1 = k /\ k <= k
    BY <2>6, <2>10, SMT
  <2>12. TotalLen(kept) + (b.remaining - used) = budget
    <3>1. TotalLen(b.kept) + b.remaining = budget
      BY DEF Spent
    <3> QED
      BY <1>1, <2>3, <2>7, <3>1, SMT
  <2>13. ASSUME NEW i \in DOMAIN kept
         PROVE  kept[i].name = layers[i].name /\ kept[i].len <= layers[i].len
    <3>1. CASE i \in DOMAIN b.kept
      BY <2>6, <3>1 DEF Spent
    <3>2. CASE i = Len(b.kept) + 1
      <4>1. i = k /\ kept[i] = e
        BY <2>6, <2>11, <3>2
      <4> QED
        BY <1>2, <2>3, <2>5, <4>1
    <3> QED
      BY <2>6, <3>1, <3>2
  <2>14. Spent(layers, budget, k, c)
    BY <2>9, <2>11, <2>12, <2>13 DEF Spent
  <2> QED
    BY <2>1, <2>8, <2>14
<1> QED
  BY <1>4, <1>5

(* Render keeps any list of layers, of any lengths, within any budget a    *)
(* caller sets, in their order and without making one longer.              *)
THEOREM BudgetForAnyLayers ==
  ASSUME NEW layers \in Seq(Layer), NEW budget \in Nat, budget > 0
  PROVE  WithinBudget(layers, budget)
<1> DEFINE n == Len(layers)
           x0 == [ kept |-> << >>, remaining |-> budget, out |-> FALSE ]
           next(k, b) == BudgetStep(budget, b, layers[k])
           Eq(f) == f = [ k \in 0 .. n |-> IF k = 0 THEN x0 ELSE next(k, f[k - 1]) ]
           after == CHOOSE f : Eq(f)
           P == [ k \in 0 .. n |-> { b \in BudgetState : Spent(layers, budget, k, b) } ]
           F == [ k \in 1 .. n |-> [ b \in BudgetState |-> next(k, b) ] ]
<1>1. /\ n \in Nat /\ n \in 0 .. n /\ 0 \in 0 .. n
      /\ \A k \in 1 .. n : k - 1 \in 0 .. n /\ k \in 0 .. n /\ k # 0
      /\ \A k \in 0 .. n : k = 0 \/ k \in 1 .. n
  BY SMT
<1>2. x0 \in BudgetState /\ Spent(layers, budget, 0, x0)
  <2>1. << >> \in Seq(KeptLayer) /\ Len(<< >>) = 0 /\ 0 <= 0 /\ 0 + budget = budget
        /\ \A i \in DOMAIN << >> : FALSE
    BY SMT
  <2>2. x0 \in BudgetState
    BY <2>1 DEF BudgetState
  <2> QED
    BY <2>1, <2>2, TotalEmpty DEF Spent
<1>3. \A k \in 1 .. n : \A b \in BudgetState :
        Spent(layers, budget, k - 1, b) =>
          next(k, b) \in BudgetState /\ Spent(layers, budget, k, next(k, b))
  BY SpendOne
<1> HIDE DEF next, n, x0
<1>4. \A k \in 1 .. n : \A b \in BudgetState : F[k][b] = next(k, b)
  OBVIOUS
<1>5. \A k \in 0 .. n : \A b : b \in P[k] <=> b \in BudgetState /\ Spent(layers, budget, k, b)
  OBVIOUS
<1> HIDE DEF F, P
<1>6. Leads(n, P, F)
  BY <1>1, <1>3, <1>4, <1>5 DEF Leads
<1>7. x0 \in P[0]
  BY <1>1, <1>2, <1>5
<1>8. PICK g : Chain(g, n, P, x0, F)
  BY <1>1, <1>6, <1>7, Steps
<1>9. Eq(g)
  <2>1. \A k \in 1 .. n : g[k] = next(k, g[k - 1])
    BY <1>1, <1>4, <1>5, <1>8 DEF Chain
  <2>2. ASSUME NEW k \in 0 .. n PROVE g[k] = IF k = 0 THEN x0 ELSE next(k, g[k - 1])
    <3>1. CASE k = 0
      BY <1>8, <3>1 DEF Chain
    <3>2. CASE k \in 1 .. n
      BY <1>1, <2>1, <3>2
    <3>3. k = 0 \/ k \in 1 .. n
      BY <1>1
    <3> QED
      BY <3>1, <3>2, <3>3
  <2>3. g = [ k \in 0 .. n |-> g[k] ]
    BY <1>8 DEF Chain
  <2> QED
    BY <2>2, <2>3
<1>10. Eq(after)
  BY <1>9
<1> HIDE DEF after
<1>11. after[0] = x0 /\ \A k \in 1 .. n : after[k] = next(k, after[k - 1])
  BY <1>1, <1>10
<1> DEFINE T == { k \in 0 .. n : after[k] \in BudgetState /\ Spent(layers, budget, k, after[k]) }
<1>12. 0 \in T
  BY <1>1, <1>2, <1>11
<1>13. \A k \in 1 .. n : k - 1 \in T => k \in T
  BY <1>1, <1>3, <1>11
<1>14. n \in T
  <2> HIDE DEF T
  <2> QED
    BY <1>1, <1>12, <1>13, Induction
<1>15. EnforceBudget(layers, budget) = after[n].kept
  BY DEF EnforceBudget, after, n, x0, next
<1>16. PICK b : b = after[n]
  OBVIOUS
<1>17. b \in BudgetState /\ Spent(layers, budget, n, b)
  BY <1>14, <1>16
<1>18. b.kept \in Seq(KeptLayer) /\ b.remaining \in Nat
  BY <1>17 DEF BudgetState
<1>19. TotalLen(b.kept) <= budget
  <2>1. TotalLen(b.kept) + b.remaining = budget
    BY <1>17 DEF Spent
  <2>2. TotalLen(b.kept) \in Nat
    <3>1. Len(b.kept) \in 0 .. Len(b.kept)
      BY <1>18, SMT
    <3> QED
      BY <1>18, <3>1, TotalSums DEF Sums
  <2> QED
    BY <1>18, <2>1, <2>2, SMT
<1>20. Render(layers, budget) = EnforceBudget(layers, budget)
  BY DEF Render
<1> QED
  BY <1>15, <1>16, <1>17, <1>19, <1>20 DEF WithinBudget, Spent

-----------------------------------------------------------------------------
(* The skills table as the prompts read it.                                *)

TableRow(row) ==
  /\ {"risk", "usage", "minVersion"} \subseteq DOMAIN row
  /\ Sortable(row)
  /\ \A f \in DOMAIN row.minVersion : Parses(row.minVersion[f])

(* The identifiers number the rows of a table.                             *)
Numbered(table) ==
  /\ IsFiniteSet(DOMAIN table)
  /\ \A k \in DOMAIN table : table[k].id \in 1 .. Cardinality(DOMAIN table)
  /\ \A i \in 1 .. Cardinality(DOMAIN table) : \E k \in DOMAIN table : table[k].id = i
  /\ \A j, k \in DOMAIN table : table[j].id = table[k].id => j = k

(* The second inductive invariant, on top of IInv: an import under way has *)
(* a version that could be compared.                                       *)
TableInv ==
  /\ Numbered(rows)
  /\ \A k \in DOMAIN rows : TableRow(rows[k])
  /\ \A c \in Changes :
       boot[c].pc \in {"resolve", "docs", "import"} => Parses(Current(c).version)

(* A new row takes the next number.                                        *)
LEMMA NumberedGrows ==
  ASSUME NEW s, NEW t, NEW k, Numbered(s), k \notin DOMAIN s, DOMAIN t = DOMAIN s \cup {k},
         \A j \in DOMAIN s : t[j].id = s[j].id, t[k].id = Cardinality(DOMAIN s) + 1
  PROVE  Numbered(t)
<1> DEFINE n == Cardinality(DOMAIN s)
<1>1. n \in Nat
  BY FS_CardinalityType DEF Numbered
<1>2. IsFiniteSet(DOMAIN t) /\ Cardinality(DOMAIN t) = n + 1
  <2>1. IsFiniteSet(DOMAIN s)
    BY DEF Numbered
  <2>2. /\ IsFiniteSet(DOMAIN s \cup {k})
        /\ Cardinality(DOMAIN s \cup {k}) =
             IF k \in DOMAIN s THEN Cardinality(DOMAIN s) ELSE Cardinality(DOMAIN s) + 1
    BY <2>1, FS_AddElement
  <2> QED
    BY <2>2
<1>3. PICK m : m = n + 1
  OBVIOUS
<1> HIDE DEF n
<1>4. /\ m \in 1 .. m /\ m \notin 1 .. n
      /\ \A i \in 1 .. n : i \in 1 .. m
      /\ \A i \in 1 .. m : i \in 1 .. n \/ i = m
  BY <1>1, <1>3, SMT
<1>5. t[k].id = m /\ Cardinality(DOMAIN t) = m
  BY <1>2, <1>3 DEF n
<1>6. /\ \A j \in DOMAIN s : s[j].id \in 1 .. n
      /\ \A i \in 1 .. n : \E j \in DOMAIN s : s[j].id = i
      /\ \A i, j \in DOMAIN s : s[i].id = s[j].id => i = j
  BY DEF Numbered, n
<1>7. \A j \in DOMAIN t : t[j].id \in 1 .. m
  BY <1>4, <1>5, <1>6
<1>8. \A i \in 1 .. m : \E j \in DOMAIN t : t[j].id = i
  BY <1>4, <1>5, <1>6
<1>9. ASSUME NEW i \in DOMAIN t, NEW j \in DOMAIN t, t[i].id = t[j].id PROVE i = j
  <2>0. ASSUME NEW h \in DOMAIN s PROVE t[h].id # m
    <3>1. t[h].id = s[h].id /\ s[h].id \in 1 .. n
      BY <1>6
    <3> QED
      BY <1>4, <3>1
  <2>1. CASE i \in DOMAIN s /\ j \in DOMAIN s
    <3>1. t[i].id = s[i].id /\ t[j].id = s[j].id
      BY <2>1
    <3> QED
      BY <1>6, <1>9, <2>1, <3>1
  <2>2. CASE i = k /\ j \in DOMAIN s
    BY <1>5, <1>9, <2>0, <2>2
  <2>3. CASE i \in DOMAIN s /\ j = k
    BY <1>5, <1>9, <2>0, <2>3
  <2>4. (i \in DOMAIN s \/ i = k) /\ (j \in DOMAIN s \/ j = k)
    OBVIOUS
  <2> QED
    BY <2>1, <2>2, <2>3, <2>4
<1> QED
  BY <1>2, <1>5, <1>7, <1>8, <1>9 DEF Numbered

(* A table with the same keys and identifiers is numbered like the old one. *)
LEMMA NumberedStays ==
  ASSUME NEW s, NEW t, Numbered(s), DOMAIN t = DOMAIN s, \A j \in DOMAIN s : t[j].id = s[j].id
  PROVE  Numbered(t)
  BY DEF Numbered

(* The importer's row can be compared, and its minimum version parses when *)
(* the detected version does (ImportFromDocs).                             *)
LEMMA ImportedTableRow ==
  ASSUME NEW fw, Parses(fw.version), Numbered(rows)
  PROVE  TableRow(ImportedSkill(fw)) /\ ImportedSkill(fw).id = Cardinality(DOMAIN rows) + 1
<1>1. Cardinality(DOMAIN rows) \in Nat
  BY FS_CardinalityType DEF Numbered
<1>2. Cardinality(DOMAIN rows) + 1 \in Nat /\ 0 \in Nat
  BY <1>1, SMT
<1>3. PICK s : s = ImportedSkill(fw)
  OBVIOUS
<1>4. /\ {"risk", "usage", "minVersion"} \subseteq DOMAIN s
      /\ s.id = Cardinality(DOMAIN rows) + 1 /\ s.risk = "medium" /\ s.validatedAt = 0 /\ s.usage = 0
      /\ s.minVersion = [ f \in {fw.name} |-> ExtractMajor(fw.version) ]
  BY <1>3 DEF ImportedSkill
<1>5. Sortable(s)
  BY <1>2, <1>4 DEF Sortable, Risks
<1>6. Parses(ExtractMajor(fw.version))
  BY DEF ExtractMajor, Parses
<1>7. \A f \in DOMAIN s.minVersion : Parses(s.minVersion[f])
  BY <1>4, <1>6
<1> QED
  BY <1>3, <1>4, <1>5, <1>7 DEF TableRow

(* A patched row keeps what the order and the version gate read, except    *)
(* for the time of its validation.                                         *)
LEMMA PatchedTableRow ==
  ASSUME NEW row, RowOK(row), TableRow(row), NEW to, clock \in Nat
  PROVE  TableRow([ row EXCEPT !.status = to,
                               !.validatedAt = IF to = "validated" THEN clock ELSE @ ])
<1> DEFINE at == IF to = "validated" THEN clock ELSE row.validatedAt
           mid == [ row EXCEPT !.status = to ]
           new == [ mid EXCEPT !.validatedAt = at ]
<1>1. /\ DOMAIN mid = DOMAIN row /\ mid.id = row.id /\ mid.validatedAt = row.validatedAt
      /\ mid.risk = row.risk /\ mid.usage = row.usage /\ mid.minVersion = row.minVersion
  BY DEF RowOK, TableRow
<1>2. new = [ row EXCEPT !.status = to, !.validatedAt = IF to = "validated" THEN clock ELSE @ ]
  BY <1>1
<1>3. at \in Nat
  BY DEF TableRow, Sortable
<1> HIDE DEF mid, at
<1>4. /\ DOMAIN new = DOMAIN row /\ new.id = row.id /\ new.validatedAt = at
      /\ new.risk = row.risk /\ new.usage = row.usage /\ new.minVersion = row.minVersion
  BY <1>1 DEF RowOK, TableRow
<1> HIDE DEF new
<1>5. TableRow(new)
  BY <1>3, <1>4 DEF TableRow, Sortable
<1> QED
  BY <1>2, <1>5

(* The table at the start.                                                 *)
LEMMA TableInit ==
  Init => TableInv
<1>1. NoBoot.pc = "none"
  BY DEF NoBoot
<1>2. Numbered(InitRows)
  BY TableAssumption DEF Numbered
<1>3. ASSUME NEW k \in DOMAIN InitRows PROVE TableRow(InitRows[k])
  <2>1. InitRows[k].id \in Nat
    <3>1. InitRows[k].id \in 1 .. Cardinality(DOMAIN InitRows)
      BY TableAssumption
    <3> QED
      BY <3>1, SMT
  <2> QED
    BY <2>1, TableAssumption DEF TableRow, Sortable
<1> QED
  BY <1>1, <1>2, <1>3 DEF Init, TableInv

(* runDriftCheck compared the version of the framework it goes on with.    *)
LEMMA DriftParses ==
  ASSUME NEW c \in Changes, DriftFound(c)
  PROVE  Parses(Current(c).version)
  BY DEF DriftFound, DriftsForward

(* Every step keeps the table.                                             *)
LEMMA TableStep ==
  ASSUME GuardInv, SkillInv, TableInv, Next
  PROVE  TableInv'
<1> DEFINE Busy(b) == b.pc \in {"resolve", "docs", "import"}
           TableOK == Numbered(rows') /\ \A k \in DOMAIN rows' : TableRow(rows'[k])
<1>1. \A c \in Changes : Busy(boot[c]) => Parses(Current(c).version)
  BY DEF TableInv
<1>2. rows' = rows => TableOK
  BY DEF TableInv
<1>3. ASSUME TableOK,
             \A c \in Changes :
               Busy(boot'[c]) => boot'[c].todo = boot[c].todo /\ Parses(Current(c).version)
      PROVE  TableInv'
  <2>1. ASSUME NEW c \in Changes, Busy(boot'[c]) PROVE Parses(Current(c)'.version)
    <3>1. Current(c)' = Current(c)
      BY <1>3, <2>1 DEF Current
    <3> QED
      BY <1>3, <2>1, <3>1
  <2> QED
    BY <1>3, <2>1 DEF TableInv
<1>4. ASSUME NEW c \in Changes, InitStep(c) PROVE TableInv'
  <2>1. \A d \in Changes : Busy(boot'[d]) => boot'[d] = boot[d]
    <3>1. CASE boot' = boot
      BY <3>1
    <3>2. CASE CompleteInit(c)
      BY <3>2 DEF CompleteInit, GuardInv
    <3> QED
      BY <1>4, <3>1, <3>2
      DEF InitStep, InitStart, LookupHit, LookupMiss, DetectAndSpawn, Ingest, WriteCache
  <2>2. rows' = rows
    BY <1>4 DEF InitStep, InitStart, LookupHit, LookupMiss, DetectAndSpawn, Ingest, WriteCache,
                CompleteInit
  <2> QED
    BY <1>1, <1>2, <1>3, <2>1, <2>2
<1>5. ASSUME NEW c \in Changes, ReadClock(c) \/ Allow(c) PROVE TableInv'
  <2>1. rows' = rows
    BY <1>5 DEF ReadClock, Allow
  <2>2. \A d \in Changes : Busy(boot'[d]) => boot'[d] = boot[d]
    BY <1>5, GuardReadClock, GuardAllow
  <2> QED
    BY <1>1, <1>2, <1>3, <2>1, <2>2
<1>6. ASSUME NEW c \in Changes,
             DriftFound(c) \/ NoDrift(c) \/ Resolve(c) \/ GetDocs(c) \/ Import(c)
      PROVE  TableInv'
  <2>1. /\ \A d \in Changes : d # c => boot'[d] = boot[d]
        /\ Busy(boot'[c]) =>
             boot'[c].todo = boot[c].todo /\ (Busy(boot[c]) \/ DriftFound(c))
    BY <1>6, BootMoves
  <2>2. \A d \in Changes :
          Busy(boot'[d]) => boot'[d].todo = boot[d].todo /\ Parses(Current(d).version)
    BY <2>1, <1>1, DriftParses
  <2>3. CASE rows' = rows
    BY <1>2, <1>3, <2>2, <2>3
  <2>4. CASE Import(c) /\ rows' # rows
    <3> DEFINE fw == Current(c)
               k == ImportKey(fw)
    <3>1. boot[c].pc = "import" /\ InsertIfAbsent(k, ImportedSkill(fw))
      BY <2>4 DEF Import
    <3>2. Parses(fw.version)
      BY <3>1, <1>1
    <3>3. Numbered(rows) /\ \A j \in DOMAIN rows : TableRow(rows[j])
      BY DEF TableInv
    <3>4. /\ DOMAIN rows' = DOMAIN rows \cup {k}
          /\ \A j \in DOMAIN rows : rows'[j] = rows[j]
          /\ k \notin DOMAIN rows => rows'[k] = ImportedSkill(fw)
      BY <3>1, Inserted
    <3>5. TableRow(ImportedSkill(fw)) /\ ImportedSkill(fw).id = Cardinality(DOMAIN rows) + 1
      BY <3>2, <3>3, ImportedTableRow
    <3>6. \A j \in DOMAIN rows' : TableRow(rows'[j])
      BY <3>3, <3>4, <3>5
    <3>7. Numbered(rows')
      <4>1. CASE k \in DOMAIN rows
        <5>1. DOMAIN rows' = DOMAIN rows
          BY <3>4, <4>1
        <5> QED
          BY <3>3, <3>4, <5>1, NumberedStays
      <4>2. CASE k \notin DOMAIN rows
        <5>1. rows'[k].id = Cardinality(DOMAIN rows) + 1
          BY <3>4, <3>5, <4>2
        <5>2. \A j \in DOMAIN rows : rows'[j].id = rows[j].id
          BY <3>4
        <5> HIDE DEF k, fw
        <5> QED
          BY <3>3, <3>4, <4>2, <5>1, <5>2, NumberedGrows
      <4> QED
        BY <4>1, <4>2
    <3> QED
      BY <1>3, <2>2, <3>6, <3>7
  <2> QED
    BY <1>6, <2>3, <2>4 DEF DriftFound, NoDrift, Resolve, GetDocs
<1>7. ASSUME NEW k \in DOMAIN rows, NEW to, PatchStatus(k, to) PROVE TableInv'
  <2> DEFINE new == [ rows[k] EXCEPT !.status = to,
                                     !.validatedAt = IF to = "validated" THEN clock ELSE @ ]
  <2>1. /\ DOMAIN rows' = DOMAIN rows
        /\ \A j \in DOMAIN rows : j # k => rows'[j] = rows[j]
        /\ rows'[k].id = rows[k].id
    BY <1>7, Patched DEF GuardInv
  <2>2. boot' = boot
    BY <1>7 DEF PatchStatus
  <2>3. rows'[k] = new
    BY <1>7, SMT DEF PatchStatus
  <2>4. TableRow(new)
    BY PatchedTableRow DEF SkillInv, TableInv, GuardInv
  <2> HIDE DEF new
  <2>5. \A j \in DOMAIN rows' : TableRow(rows'[j])
    BY <2>1, <2>3, <2>4 DEF TableInv
  <2>6. \A j \in DOMAIN rows : rows'[j].id = rows[j].id
    BY <2>1
  <2>7. Numbered(rows')
    BY <2>1, <2>6, NumberedStays DEF TableInv
  <2> QED
    BY <1>1, <1>3, <2>2, <2>5, <2>7
<1>8. CASE Edit \/ Tick
  <2>1. rows' = rows /\ boot' = boot
    BY <1>8 DEF Edit, Tick
  <2> QED
    BY <1>1, <1>2, <1>3, <2>1
<1>9. CASE Restart
  <2>1. rows' = rows /\ \A c \in Changes : ~Busy(boot'[c])
    BY <1>9 DEF Restart, NoBoot
  <2> QED
    BY <1>2, <1>3, <2>1
<1> QED
  BY <1>4, <1>5, <1>6, <1>7, <1>8, <1>9 DEF Next, BootStep

(* The table is as the prompts need it in every reachable state.           *)
THEOREM TableInvCorrect == Spec => []TableInv
<1>1. Init => TableInv
  BY TableInit
<1>2. IInv /\ TableInv /\ [Next]_vars => TableInv'
  <2> SUFFICES ASSUME IInv, TableInv, [Next]_vars PROVE TableInv'
    OBVIOUS
  <2>1. CASE UNCHANGED vars
    BY <2>1 DEF vars, TableInv, Current
  <2>2. CASE Next
    BY <2>2, TableStep DEF IInv
  <2> QED
    BY <2>1, <2>2
<1> QED
  BY <1>1, <1>2, IInvCorrect, PTL DEF Spec

-----------------------------------------------------------------------------
(* The skills of a prompt.                                                 *)

(* L has every row of the table once, as a query without ORDER BY might    *)
(* return them.                                                            *)
ListsTable(L) == L \in Seq(Range(rows)) /\ Once(L) /\ Range(L) = Range(rows)

(* SkillRepo.List returns every row once.                                  *)
LEMMA ListIsTable ==
  ASSUME Numbered(rows), NEW up
  PROVE  ListsTable(List(up))
<1> DEFINE n == Cardinality(DOMAIN rows)
           id(i) == IF up THEN i ELSE n + 1 - i
           key(i) == CHOOSE k \in DOMAIN rows : rows[k].id = id(i)
           L == [ i \in 1 .. n |-> rows[key(i)] ]
<1>1. n \in Nat
  BY FS_CardinalityType DEF Numbered
<1> HIDE DEF n
<1>2. /\ \A i \in 1 .. n : id(i) \in 1 .. n /\ id(id(i)) = i
      /\ \A i, j \in 1 .. n : id(i) = id(j) => i = j
  BY <1>1, SMT
<1> HIDE DEF id
<1>3. /\ \A k \in DOMAIN rows : rows[k].id \in 1 .. n
      /\ \A i \in 1 .. n : \E k \in DOMAIN rows : rows[k].id = i
      /\ \A j, k \in DOMAIN rows : rows[j].id = rows[k].id => j = k
  BY DEF Numbered, n
<1>4. \A i \in 1 .. n : key(i) \in DOMAIN rows /\ rows[key(i)].id = id(i)
  BY <1>2, <1>3
<1> HIDE DEF key
<1>5. /\ DOMAIN L = 1 .. n /\ L = [ i \in 1 .. n |-> L[i] ]
      /\ \A i \in 1 .. n : L[i] = rows[key(i)] /\ L[i] \in Range(rows)
  BY <1>4 DEF Range
<1> HIDE DEF L
<1>6. L \in Seq(Range(rows))
  BY <1>1, <1>5, SMT
<1>7. Once(L)
  <2>1. ASSUME NEW i \in 1 .. n, NEW j \in 1 .. n, L[i] = L[j] PROVE i = j
    <3>1. L[i].id = id(i) /\ L[j].id = id(j)
      BY <1>4, <1>5
    <3>2. id(i) = id(j)
      BY <2>1, <3>1
    <3> QED
      BY <1>2, <3>2
  <2> QED
    BY <1>5, <2>1 DEF Once
<1>8. ASSUME NEW x \in Range(rows) PROVE x \in Range(L)
  <2>1. PICK k \in DOMAIN rows : x = rows[k]
    BY <1>8 DEF Range
  <2>2. PICK i \in 1 .. n : id(i) = rows[k].id
    BY <1>2, <1>3
  <2>3. key(i) = k
    BY <1>3, <1>4, <2>2
  <2> QED
    BY <1>5, <2>1, <2>3 DEF Range
<1>9. ASSUME NEW x \in Range(L) PROVE x \in Range(rows)
  BY <1>5 DEF Range
<1>10. Range(L) = Range(rows)
  BY <1>8, <1>9
<1>11. List(up) = L
  BY DEF List, L, key, id, n
<1> QED
  BY <1>6, <1>7, <1>10, <1>11 DEF ListsTable

(* The rows can be compared and are told apart by their identifiers.       *)
LEMMA TableKeyed ==
  ASSUME TableInv
  PROVE  Keyed(Range(rows))
<1>1. \A k \in DOMAIN rows : Sortable(rows[k])
  BY DEF TableInv, TableRow
<1>2. \A j, k \in DOMAIN rows : rows[j].id = rows[k].id => rows[j] = rows[k]
  BY DEF TableInv, Numbered
<1> QED
  BY <1>1, <1>2 DEF Keyed, Range

(* Whatever order the database returns the rows in.                        *)
AnyOrder == \A L : ListsTable(L) => TaskSkills(L) = TaskSkills(List(TRUE))

(* A task prompt gets the same skills in the same order for every order of *)
(* the rows that SkillRepo.List leaves open, not only for two opposite     *)
(* ones (sortSkills).                                                      *)
THEOREM AnyOrderSamePrompt == Spec => []AnyOrder
<1>1. TableInv => AnyOrder
  <2> SUFFICES ASSUME TableInv, NEW L, ListsTable(L)
               PROVE  TaskSkills(L) = TaskSkills(List(TRUE))
    BY DEF AnyOrder
  <2>1. PICK M : M = List(TRUE)
    OBVIOUS
  <2>2. ListsTable(M)
    BY <2>1, ListIsTable DEF TableInv
  <2>3. Keyed(Range(L))
    BY TableKeyed DEF ListsTable
  <2>4. \A q : SkillsForContext(L, q) = SkillsForContext(M, q)
    <3>1. L \in Seq(Range(rows)) /\ M \in Seq(Range(rows)) /\ Once(L) /\ Once(M)
      BY <2>2 DEF ListsTable
    <3>2. Range(L) = Range(M)
      BY <2>2 DEF ListsTable
    <3> QED
      BY <2>3, <3>1, <3>2, ContextSame
  <2> QED
    BY <2>1, <2>4 DEF TaskSkills
<1> QED
  BY <1>1, TableInvCorrect, PTL

(* So the prompt of a task, and its hash, do not depend on the database's  *)
(* order of rows with one name.                                            *)
THEOREM PromptOrderIsFixedCorrect == Spec => []PromptOrderIsFixed
<1>1. TableInv /\ AnyOrder => PromptOrderIsFixed
  BY ListIsTable DEF TableInv, AnyOrder, PromptOrderIsFixed
<1> QED
  BY <1>1, TableInvCorrect, AnyOrderSamePrompt, PTL

(* A phase never gets a skill for a framework the change was not detected  *)
(* to use, or for a later major of it, whatever was imported, approved and *)
(* withdrawn meanwhile (structuralMatches).                                *)
THEOREM InjectedFitsStackCorrect == Spec => []InjectedFitsStack
<1>1. TableInv => InjectedFitsStack
  <2> SUFFICES ASSUME TableInv, NEW c \in Changes, memory[c] # NoContext,
                      NEW s \in Range(PhaseSkills(c, "explore", List(TRUE))), s.frameworks # {}
               PROVE  \E fw \in Range(memory[c].frameworks) :
                        /\ fw.name \in s.frameworks
                        /\ Parses(fw.version) /\ fw.name \in DOMAIN s.minVersion =>
                             s.minVersion[fw.name].major <= fw.version.major
    BY DEF InjectedFitsStack
  <2> DEFINE q == [ NoFilter EXCEPT !.phase = "explore", !.project = ProjectOf[c],
                                    !.context = memory[c] ]
  <2>1. q.context = memory[c]
    BY DEF NoFilter
  <2>2. PICK L : L = List(TRUE)
    OBVIOUS
  <2>3. ListsTable(L)
    BY <2>2, ListIsTable DEF TableInv
  <2>4. Keyed(Range(L))
    BY <2>3, TableKeyed DEF ListsTable
  <2>5. s \in Range(RenderSkills(SkillsForContext(L, q)))
    BY <2>2 DEF PhaseSkills
  <2> HIDE DEF q
  <2>6. s \in Range(L) /\ Matches(s, q)
    BY <2>3, <2>4, <2>5, ContextMatches DEF ListsTable
  <2>7. AnyFrameworkMatches(s, memory[c].frameworks)
    BY <2>1, <2>6 DEF Matches, StructuralMatches
  <2>8. PICK i \in DOMAIN memory[c].frameworks :
          /\ memory[c].frameworks[i].name \in s.frameworks
          /\ VersionGate(s, memory[c].frameworks[i])
    BY <2>7 DEF AnyFrameworkMatches
  <2>9. PICK fw : fw = memory[c].frameworks[i]
    OBVIOUS
  <2>10. fw \in Range(memory[c].frameworks)
    BY <2>9 DEF Range
  <2>11. \A f \in DOMAIN s.minVersion : Parses(s.minVersion[f])
    BY <2>3, <2>6 DEF ListsTable, Range, TableInv, TableRow
  <2>12. ASSUME Parses(fw.version), fw.name \in DOMAIN s.minVersion
         PROVE  s.minVersion[fw.name].major <= fw.version.major
    <3>1. fw.version.major >= s.minVersion[fw.name].major
      BY <2>8, <2>9, <2>11, <2>12 DEF VersionGate
    <3> QED
      BY <3>1, SMT
  <2> QED
    BY <2>8, <2>9, <2>10, <2>12
<1> QED
  BY <1>1, TableInvCorrect, PTL

(* A prompt gets an imported skill only once an operator has validated and *)
(* activated it (PGSkillMatcher.SkillsForContext).                         *)
THEOREM ImportedNeedsApprovalCorrect == Spec => []ImportedNeedsApproval
<1>1. IInv /\ TableInv => ImportedNeedsApproval
  <2> SUFFICES ASSUME IInv, TableInv, NEW s \in Range(SkillsForContext(List(TRUE), NoFilter))
               PROVE  s.status = "active" /\ s.validatedAt > 0
    BY DEF ImportedNeedsApproval
  <2>1. PICK L : L = List(TRUE)
    OBVIOUS
  <2>2. ListsTable(L)
    BY <2>1, ListIsTable DEF TableInv
  <2>3. Keyed(Range(L))
    BY <2>2, TableKeyed DEF ListsTable
  <2>4. s \in Range(L) /\ Matches(s, NoFilter)
    BY <2>1, <2>2, <2>3, ContextFilters DEF ListsTable
  <2>5. PICK k \in DOMAIN rows : s = rows[k]
    BY <2>2, <2>4 DEF ListsTable, Range
  <2> QED
    BY <2>4, <2>5 DEF Matches, IInv, SkillInv, RowOK
<1> QED
  BY <1>1, IInvCorrect, TableInvCorrect, PTL

-----------------------------------------------------------------------------
(* What the detector lists.                                                *)

UniqueLists(S) == { s \in Seq(S) : Distinct(s) }

(* appendUniq adds a name that is new.                                     *)
LEMMA UniqueGrows ==
  ASSUME NEW S, NEW s \in UniqueLists(S), NEW x \in S
  PROVE  AppendUniq(s, x) \in UniqueLists(S)
<1>1. s \in Seq(S) /\ Distinct(s)
  BY DEF UniqueLists
<1>2. CASE \E i \in DOMAIN s : s[i].name = x.name
  BY <1>2 DEF AppendUniq
<1>3. CASE \A i \in DOMAIN s : s[i].name # x.name
  <2> DEFINE t == Append(s, x)
             l == Len(s) + 1
  <2>1. /\ t \in Seq(S) /\ t[l] = x
        /\ \A j \in DOMAIN s : t[j] = s[j]
        /\ \A j \in DOMAIN t : j \in DOMAIN s \/ j = l
    BY <1>1, AppendParts
  <2>2. AppendUniq(s, x) = t
    BY <1>3 DEF AppendUniq
  <2> HIDE DEF t, l
  <2>3. Distinct(t)
    <3>1. ASSUME NEW i \in DOMAIN t, NEW j \in DOMAIN t, i # j PROVE t[i].name # t[j].name
      <4>1. CASE i \in DOMAIN s /\ j \in DOMAIN s
        BY <1>1, <2>1, <3>1, <4>1 DEF Distinct
      <4>2. CASE i = l /\ j \in DOMAIN s
        BY <1>3, <2>1, <4>2
      <4>3. CASE i \in DOMAIN s /\ j = l
        BY <1>3, <2>1, <4>3
      <4> QED
        BY <2>1, <3>1, <4>1, <4>2, <4>3
    <3> QED
      BY <3>1 DEF Distinct
  <2> QED
    BY <2>1, <2>2, <2>3 DEF UniqueLists
<1> QED
  BY <1>2, <1>3

(* The lists of the parsers, one entry after the other.                    *)
LEMMA AllUnique ==
  ASSUME NEW S, NEW s \in UniqueLists(S), NEW new \in Seq(S)
  PROVE  AppendAll(s, new) \in UniqueLists(S)
<1> DEFINE n == Len(new)
           next(k, x) == AppendUniq(x, new[k])
           Eq(f) == f = [ k \in 0 .. n |-> IF k = 0 THEN s ELSE next(k, f[k - 1]) ]
           after == CHOOSE f : Eq(f)
           U == UniqueLists(S)
           P == [ k \in 0 .. n |-> U ]
           F == [ k \in 1 .. n |-> [ x \in U |-> next(k, x) ] ]
<1>1. /\ n \in Nat /\ n \in 0 .. n /\ 0 \in 0 .. n
      /\ \A k \in 1 .. n : k - 1 \in 0 .. n /\ k \in 0 .. n /\ k # 0
      /\ \A k \in 0 .. n : k = 0 \/ k \in 1 .. n
      /\ \A k \in 1 .. n : new[k] \in S
  BY SMT
<1>2. s \in U /\ \A k \in 1 .. n : \A x \in U : next(k, x) \in U
  BY <1>1, UniqueGrows
<1> HIDE DEF n, next, U
<1>3. \A k \in 1 .. n : \A x \in U : F[k][x] = next(k, x)
  OBVIOUS
<1>4. \A k \in 0 .. n : \A x : x \in P[k] <=> x \in U
  OBVIOUS
<1> HIDE DEF F, P
<1>5. Leads(n, P, F)
  <2>1. ASSUME NEW k \in 1 .. n, NEW x \in P[k - 1] PROVE F[k][x] \in P[k]
    <3>1. x \in U
      BY <1>1, <1>4
    <3>2. F[k][x] \in U
      BY <1>2, <1>3, <3>1
    <3> QED
      BY <1>1, <1>4, <3>2
  <2> QED
    BY <2>1 DEF Leads
<1>6. PICK g : Chain(g, n, P, s, F)
  <2>1. s \in P[0]
    BY <1>1, <1>2, <1>4
  <2> QED
    BY <1>1, <1>5, <2>1, Steps
<1>7. Eq(g)
  <2>1. \A k \in 1 .. n : g[k] = next(k, g[k - 1])
    BY <1>1, <1>3, <1>4, <1>6 DEF Chain
  <2>2. ASSUME NEW k \in 0 .. n PROVE g[k] = IF k = 0 THEN s ELSE next(k, g[k - 1])
    <3>1. CASE k = 0
      BY <1>6, <3>1 DEF Chain
    <3>2. CASE k \in 1 .. n
      BY <1>1, <2>1, <3>2
    <3> QED
      BY <1>1, <3>1, <3>2
  <2>3. g = [ k \in 0 .. n |-> g[k] ]
    BY <1>6 DEF Chain
  <2> QED
    BY <2>2, <2>3
<1>8. Eq(after)
  BY <1>7
<1> HIDE DEF after
<1>9. after[0] = s /\ \A k \in 1 .. n : after[k] = next(k, after[k - 1])
  BY <1>1, <1>8
<1> DEFINE T == { k \in 0 .. n : after[k] \in U }
<1>10. 0 \in T /\ \A k \in 1 .. n : k - 1 \in T => k \in T
  BY <1>1, <1>2, <1>9
<1> HIDE DEF T
<1>11. after[n] \in U
  <2>1. n \in T
    BY <1>1, <1>10, Induction
  <2> QED
    BY <2>1 DEF T
<1>12. AppendAll(s, new) = after[Len(new)]
  BY DEF AppendAll, after, n, next
<1> QED
  BY <1>11, <1>12 DEF n, U

(* Two lists in a row.                                                     *)
LEMMA JoinParts ==
  ASSUME NEW S, NEW a \in Seq(S), NEW b \in Seq(S)
  PROVE  /\ a \o b \in Seq(S)
         /\ \A j \in DOMAIN (a \o b) :
              \/ j \in DOMAIN a /\ (a \o b)[j] = a[j]
              \/ j - Len(a) \in DOMAIN b /\ (a \o b)[j] = b[j - Len(a)]
         /\ \A i, j \in DOMAIN (a \o b) : i - Len(a) = j - Len(a) => i = j
BY SMT

(* Entries with the names N and the versions V, no name twice.             *)
Infos(N, V) == [ name : N, version : V ]

LEMMA InfosGrow ==
  ASSUME NEW N, NEW M, NEW V, N \subseteq M, NEW s \in Seq(Infos(N, V))
  PROVE  s \in Seq(Infos(M, V))
<1>1. Infos(N, V) \subseteq Infos(M, V)
  BY DEF Infos
<1> HIDE DEF Infos
<1> QED
  BY <1>1, SMT

(* What two parsers list that know different names.                        *)
LEMMA UniqueJoin ==
  ASSUME NEW N, NEW M, NEW V, N \cap M = {},
         NEW a \in UniqueLists(Infos(N, V)), NEW b \in UniqueLists(Infos(M, V))
  PROVE  a \o b \in UniqueLists(Infos(N \cup M, V))
<1> DEFINE S == Infos(N \cup M, V)
           t == a \o b
           l == Len(a)
<1>1. a \in Seq(S) /\ b \in Seq(S) /\ Distinct(a) /\ Distinct(b)
  BY InfosGrow DEF UniqueLists
<1>2. (\A i \in DOMAIN a : a[i].name \in N) /\ (\A i \in DOMAIN b : b[i].name \in M)
  <2>1. a \in Seq(Infos(N, V)) /\ b \in Seq(Infos(M, V))
    BY DEF UniqueLists
  <2>2. (\A i \in DOMAIN a : a[i] \in Infos(N, V)) /\ (\A i \in DOMAIN b : b[i] \in Infos(M, V))
    BY <2>1, SMT
  <2> QED
    BY <2>2 DEF Infos
<1> HIDE DEF S
<1>3. /\ t \in Seq(S)
      /\ \A j \in DOMAIN t : \/ j \in DOMAIN a /\ t[j] = a[j]
                             \/ j - l \in DOMAIN b /\ t[j] = b[j - l]
      /\ \A i, j \in DOMAIN t : i - l = j - l => i = j
  BY <1>1, JoinParts
<1> HIDE DEF t, l
<1>4. ASSUME NEW i \in DOMAIN t, NEW j \in DOMAIN t, i # j PROVE t[i].name # t[j].name
  <2>1. CASE i \in DOMAIN a /\ t[i] = a[i] /\ j \in DOMAIN a /\ t[j] = a[j]
    BY <1>1, <1>4, <2>1 DEF Distinct
  <2>2. CASE i - l \in DOMAIN b /\ t[i] = b[i - l] /\ j - l \in DOMAIN b /\ t[j] = b[j - l]
    BY <1>1, <1>3, <1>4, <2>2 DEF Distinct
  <2>3. CASE i \in DOMAIN a /\ t[i] = a[i] /\ j - l \in DOMAIN b /\ t[j] = b[j - l]
    BY <1>2, <2>3
  <2>4. CASE i - l \in DOMAIN b /\ t[i] = b[i - l] /\ j \in DOMAIN a /\ t[j] = a[j]
    BY <1>2, <2>4
  <2> QED
    BY <1>3, <2>1, <2>2, <2>3, <2>4
<1> QED
  BY <1>3, <1>4 DEF UniqueLists, Distinct, S, t

(* At most one entry.                                                      *)
LEMMA UniqueOne ==
  ASSUME NEW N, NEW V, NEW name \in N, NEW v, NEW cond, cond => v \in V
  PROVE  If(cond, Framework(name, v)) \in UniqueLists(Infos(N, V))
<1> DEFINE x == Framework(name, v)
<1>1. << >> \in Seq(Infos(N, V)) /\ \A i \in DOMAIN << >> : FALSE
  BY SMT
<1>2. cond => x \in Infos(N, V)
  BY DEF Framework, Infos
<1> HIDE DEF x
<1>3. cond => << x >> \in Seq(Infos(N, V)) /\ \A i, j \in DOMAIN << x >> : i = j
  <2> HIDE DEF Infos
  <2> QED
    BY <1>2, SMT
<1>4. CASE cond
  BY <1>3, <1>4 DEF If, UniqueLists, Distinct, x
<1>5. CASE ~cond
  BY <1>1, <1>5 DEF If, UniqueLists, Distinct
<1> QED
  BY <1>4, <1>5

LEMMA UniqueNone ==
  ASSUME NEW N, NEW V
  PROVE  << >> \in UniqueLists(Infos(N, V))
<1>1. << >> \in Seq(Infos(N, V)) /\ \A i \in DOMAIN << >> : FALSE
  BY SMT
<1> QED
  BY <1>1 DEF UniqueLists, Distinct

NodeKeys == {"@angular/core", "@ngrx/store", "react", "next", "vue"}

(* package.json: the parser itself lists a framework once.                 *)
LEMMA NodeUnique ==
  ASSUME NEW words, NEW V, \A d \in NodeKeys : words[d] \in V
  PROVE  ParseNodeManifest(words)
           \in UniqueLists(Infos({"angular", "ngrx", "next.js", "react", "vue"}, V))
<1> DEFINE fw(name, d) == If(d \in DOMAIN words, Framework(name, words[d]))
           L(N) == UniqueLists(Infos(N, V))
           ngrx == IF "@angular/core" \in DOMAIN words THEN fw("ngrx", "@ngrx/store") ELSE << >>
           react == IF ~("react" \in DOMAIN words) THEN << >>
                    ELSE IF "next" \in DOMAIN words THEN fw("next.js", "next") ELSE fw("react", "react")
<1>1. ASSUME NEW N, NEW name \in N, NEW d \in NodeKeys PROVE fw(name, d) \in L(N)
  BY UniqueOne
<1>2. PICK a \in L({"angular"}) : a = fw("angular", "@angular/core")
  BY <1>1 DEF NodeKeys
<1>3. PICK b \in L({"ngrx"}) : b = ngrx
  BY <1>1, UniqueNone DEF NodeKeys
<1>4. PICK c \in L({"next.js", "react"}) : c = react
  BY <1>1, UniqueNone DEF NodeKeys
<1>5. PICK d \in L({"vue"}) : d = fw("vue", "vue")
  BY <1>1 DEF NodeKeys
<1>6. ParseNodeManifest(words) = a \o b \o c \o d
  BY <1>2, <1>3, <1>4, <1>5 DEF ParseNodeManifest
<1>7. a \o b \in L({"angular"} \cup {"ngrx"})
  BY UniqueJoin
<1>8. a \o b \o c \in L(({"angular"} \cup {"ngrx"}) \cup {"next.js", "react"})
  BY <1>7, UniqueJoin
<1>9. a \o b \o c \o d \in L((({"angular"} \cup {"ngrx"}) \cup {"next.js", "react"}) \cup {"vue"})
  BY <1>8, UniqueJoin
<1>10. (({"angular"} \cup {"ngrx"}) \cup {"next.js", "react"}) \cup {"vue"}
         = {"angular", "ngrx", "next.js", "react", "vue"}
  OBVIOUS
<1> QED
  BY <1>6, <1>9, <1>10

FrameworkNames ==
  { "angular", "ngrx", "next.js", "react", "vue", "fastapi", "django", "flask",
    "spring boot", "micronaut" }

(* The other parsers list entries of these names.                          *)
LEMMA ListedInfos ==
  ASSUME NEW words, NEW V, NoVersion \in V, words["parent"] \in V
  PROVE  /\ ParsePython(words) \in Seq(Infos(FrameworkNames, V))
         /\ ParseBuildGradle(words) \in Seq(Infos(FrameworkNames, V))
         /\ ParsePomXML(words) \in Seq(Infos(FrameworkNames, V))
<1> DEFINE S == Infos(FrameworkNames, V)
           fw(name, v, d) == If(d \in DOMAIN words, Framework(name, v))
<1>1. ASSUME NEW name \in FrameworkNames, NEW v \in V, NEW cond
      PROVE  If(cond, Framework(name, v)) \in Seq(S)
  BY <1>1, UniqueOne DEF UniqueLists
<1>2. PICK a \in Seq(S), b \in Seq(S), c \in Seq(S), d \in Seq(S), e \in Seq(S), f \in Seq(S) :
        /\ a = fw("fastapi", NoVersion, "fastapi") /\ b = fw("django", NoVersion, "django")
        /\ c = fw("flask", NoVersion, "flask")
        /\ d = fw("spring boot", NoVersion, "spring-boot-starter")
        /\ e = fw("micronaut", NoVersion, "micronaut")
        /\ f = fw("spring boot", NoVersion, "spring-boot")
  BY <1>1 DEF FrameworkNames
<1>3. a \o b \in Seq(S) /\ d \o e \in Seq(S)
  BY JoinParts
<1>4. a \o b \o c \in Seq(S)
  BY <1>3, JoinParts
<1>5. << Framework("spring boot", words["parent"]) >> \in Seq(S)
  <2>1. If(TRUE, Framework("spring boot", words["parent"])) \in Seq(S)
    BY <1>1 DEF FrameworkNames
  <2> QED
    BY <2>1 DEF If
<1>6. ParsePython(words) = a \o b \o c
  BY <1>2 DEF ParsePython
<1>7. ParseBuildGradle(words) = d \o e
  BY <1>2 DEF ParseBuildGradle
<1>8. ParsePomXML(words) \in Seq(S)
  BY <1>2, <1>5 DEF ParsePomXML
<1> QED
  BY <1>3, <1>4, <1>6, <1>7, <1>8

(* The frameworks of a tree, whatever its manifests mention.               *)
LEMMA FrameworksOnce ==
  ASSUME NEW t
  PROVE  Distinct(Frameworks(t))
<1> DEFINE in(n) == t.manifests[n].words
           keys == NodeKeys \cup {"parent"}
           V == {NoVersion} \cup UNION { { in(n)[d] : d \in keys } : n \in ManifestNames }
           S == Infos(FrameworkNames, V)
           node  == ParseNodeManifest(in("package.json"))
           py    == AppendAll(node, ParsePython(in("pyproject.toml")))
           req   == AppendAll(py, ParsePython(in("requirements.txt")))
           jvm   == AppendAll(req, ParseBuildGradle(in("build.gradle")))
<1>1. NoVersion \in V
  OBVIOUS
<1>2. ASSUME NEW n \in ManifestNames
      PROVE  in(n)["parent"] \in V /\ \A d \in NodeKeys : in(n)[d] \in V
  <2>1. ASSUME NEW d \in keys PROVE in(n)[d] \in V
    <3> HIDE DEF keys
    <3>1. in(n)[d] \in { in(n)[e] : e \in keys }
      OBVIOUS
    <3>2. { in(n)[e] : e \in keys } \subseteq V
      OBVIOUS
    <3> QED
      BY <3>1, <3>2
  <2> QED
    BY <2>1
<1> HIDE DEF V
<1>3. node \in UniqueLists(S)
  <2>1. "package.json" \in ManifestNames
    BY DEF ManifestNames
  <2>2. node \in UniqueLists(Infos({"angular", "ngrx", "next.js", "react", "vue"}, V))
    BY <1>2, <2>1, NodeUnique
  <2>3. {"angular", "ngrx", "next.js", "react", "vue"} \subseteq FrameworkNames
    BY DEF FrameworkNames
  <2> HIDE DEF node
  <2>4. PICK N : N = {"angular", "ngrx", "next.js", "react", "vue"}
    OBVIOUS
  <2>5. node \in Seq(Infos(N, V)) /\ Distinct(node) /\ N \subseteq FrameworkNames
    BY <2>2, <2>3, <2>4 DEF UniqueLists
  <2>6. node \in Seq(S)
    BY <2>5, InfosGrow
  <2> QED
    BY <2>5, <2>6 DEF UniqueLists
<1>4. /\ ParsePython(in("pyproject.toml")) \in Seq(S)
      /\ ParsePython(in("requirements.txt")) \in Seq(S)
      /\ ParseBuildGradle(in("build.gradle")) \in Seq(S)
      /\ ParsePomXML(in("pom.xml")) \in Seq(S)
  <2>1. /\ "pyproject.toml" \in ManifestNames /\ "requirements.txt" \in ManifestNames
        /\ "build.gradle" \in ManifestNames /\ "pom.xml" \in ManifestNames
    BY DEF ManifestNames
  <2> QED
    BY <1>1, <1>2, <2>1, ListedInfos
<1> HIDE DEF S, node
<1>5. py \in UniqueLists(S)
  BY <1>3, <1>4, AllUnique
<1>6. req \in UniqueLists(S)
  BY <1>4, <1>5, AllUnique
<1>7. jvm \in UniqueLists(S)
  BY <1>4, <1>6, AllUnique
<1>8. AppendAll(jvm, ParsePomXML(in("pom.xml"))) \in UniqueLists(S)
  BY <1>4, <1>7, AllUnique
<1>9. Frameworks(t) = AppendAll(jvm, ParsePomXML(in("pom.xml")))
  BY DEF Frameworks, node
<1> QED
  BY <1>8, <1>9 DEF UniqueLists

Tongues == [ name : {"go", "typescript", "python", "rust", "kotlin", "java"} ]

(* The languages of a tree.                                                *)
LEMMA LanguagesOnce ==
  ASSUME NEW t
  PROVE  Distinct(Languages(t))
<1> DEFINE lang(cond, name) == If(cond, [ name |-> name ])
           kotlin == "kotlin" \in Words(t, "build.gradle")
<1>1. ASSUME NEW cond, NEW x \in Tongues PROVE If(cond, x) \in Seq(Tongues)
  <2>1. << >> \in Seq(Tongues) /\ << x >> \in Seq(Tongues)
    BY SMT
  <2> QED
    BY <2>1 DEF If
<1>2. ASSUME NEW name \in {"go", "typescript", "python", "rust", "kotlin", "java"}, NEW cond
      PROVE  lang(cond, name) \in Seq(Tongues)
  <2>1. [ name |-> name ] \in Tongues
    BY DEF Tongues
  <2> QED
    BY <1>1, <2>1
<1>3. PICK a \in Seq(Tongues), b \in Seq(Tongues), c \in Seq(Tongues), d \in Seq(Tongues) :
        /\ a = lang(Exists(t, "go.mod"), "go")
        /\ b = lang(Exists(t, "package.json") /\ "tsconfig.json" \in t.files, "typescript")
        /\ c = lang(Exists(t, "pyproject.toml"), "python")
        /\ d = lang(Exists(t, "requirements.txt"), "python")
  BY <1>2
<1>4. PICK e \in Seq(Tongues), f \in Seq(Tongues), g \in Seq(Tongues) :
        /\ e = lang(Exists(t, "Cargo.toml"), "rust")
        /\ f = lang(Exists(t, "build.gradle"), IF kotlin THEN "kotlin" ELSE "java")
        /\ g = lang(Exists(t, "pom.xml"), "java")
  <2>1. (IF kotlin THEN "kotlin" ELSE "java") \in {"go", "typescript", "python", "rust", "kotlin", "java"}
    OBVIOUS
  <2> QED
    BY <1>2, <2>1
<1>5. a \o b \in Seq(Tongues)
  BY JoinParts
<1>6. a \o b \o c \in Seq(Tongues)
  BY <1>5, JoinParts
<1>7. a \o b \o c \o d \in Seq(Tongues)
  BY <1>6, JoinParts
<1>8. a \o b \o c \o d \o e \in Seq(Tongues)
  BY <1>7, JoinParts
<1>9. a \o b \o c \o d \o e \o f \in Seq(Tongues)
  BY <1>8, JoinParts
<1>10. PICK all \in Seq(Tongues) : all = a \o b \o c \o d \o e \o f \o g
  BY <1>9, JoinParts
<1>11. Languages(t) = AppendAll(<< >>, all)
  BY <1>3, <1>4, <1>10 DEF Languages
<1>12. << >> \in UniqueLists(Tongues)
  <2>1. << >> \in Seq(Tongues) /\ \A i \in DOMAIN << >> : FALSE
    BY SMT
  <2> QED
    BY <2>1 DEF UniqueLists, Distinct
<1> QED
  BY <1>11, <1>12, AllUnique DEF UniqueLists

(* A framework or a language is listed once, in any working tree and       *)
(* however many manifests mention it, so INIT bootstraps it once.          *)
THEOREM ListedOnceCorrect == Spec => []ListedOnce
<1>1. ListedOnce
  BY FrameworksOnce, LanguagesOnce DEF ListedOnce, SamplesListedOnce
<1> QED
  BY <1>1, PTL
=============================================================================
