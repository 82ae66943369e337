------------------------- MODULE StructuralDetector -------------------------
(***************************************************************************)
(* What the INIT phase reads off a repository, as pure operators: versions *)
(* (internal/domain/skill/semver.go), the manifest parsers and the layout  *)
(* heuristics (internal/application/init/detector), and the key under      *)
(* which a detection is cached (internal/application/init/key_builder.go). *)
(*                                                                         *)
(* A working tree has a content per manifest and the set of the other      *)
(* files and directories the detector looks for.  A manifest is the        *)
(* function from the words a parser searches it for (a dependency, a       *)
(* fingerprint) to the version written next to the word; a text parser     *)
(* that keeps no version reads only the domain.  Frameworks found by a     *)
(* text scan are listed in the order of the fingerprints, not of the lines.*)
(***************************************************************************)
EXTENDS Integers, Sequences

-----------------------------------------------------------------------------
(* Versions.  A version text is its leading integer and what follows it:   *)
(* nothing, a dot and more, or anything else ("19-rc").  A text without a  *)
(* leading integer ("", "latest", "workspace:*") has major NoMajor.        *)

NoMajor == -1

Version == [ major : Nat \cup {NoMajor}, rest : {"bare", ".0", ".1", "tag"} ]

NoVersion == [ major |-> NoMajor, rest |-> "bare" ]

(* MajorOf: the second result of the code's pair.                          *)
Parses(v) == v.major # NoMajor

DriftsForward(detected, activeMin) ==
  Parses(detected) /\ Parses(activeMin) /\ detected.major > activeMin.major

(* extractMajor: the text before the first dot, or all of it.              *)
ExtractMajor(v) ==
  [ major |-> v.major, rest |-> IF v.rest \in {".0", ".1"} THEN "bare" ELSE v.rest ]

-----------------------------------------------------------------------------
(* The parsers.                                                            *)

ManifestNames ==
  { "Cargo.toml", "build.gradle", "go.mod", "package.json", "pom.xml",
    "pyproject.toml", "requirements.txt" }

(* A manifest that is missing or empty: no parser looks at it.             *)
NoManifest == [ exists |-> FALSE, words |-> << >> ]

Exists(t, n) == t.manifests[n].exists

Words(t, n) == DOMAIN t.manifests[n].words

Framework(name, version) == [ name |-> name, version |-> version ]

(* The one-element list when the condition holds.                          *)
If(cond, x) == IF cond THEN << x >> ELSE << >>

ParseNodeManifest(words) ==
  LET has(d) == d \in DOMAIN words
      fw(name, d) == If(has(d), Framework(name, words[d]))
  IN  fw("angular", "@angular/core")
        \o (IF has("@angular/core") THEN fw("ngrx", "@ngrx/store") ELSE << >>)
        \o (IF ~has("react") THEN << >>
            ELSE IF has("next") THEN fw("next.js", "next") ELSE fw("react", "react"))
        \o fw("vue", "vue")

(* parsePyprojectToml and parseRequirementsTxt: the same fingerprints.     *)
ParsePython(words) ==
  LET named(w) == If(w \in DOMAIN words, Framework(w, NoVersion))
  IN  named("fastapi") \o named("django") \o named("flask")

ParseBuildGradle(words) ==
  If("spring-boot-starter" \in DOMAIN words, Framework("spring boot", NoVersion))
    \o If("micronaut" \in DOMAIN words, Framework("micronaut", NoVersion))

(* The parent's version when the parent is Spring Boot's, otherwise a scan *)
(* of the text.                                                            *)
ParsePomXML(words) ==
  IF "parent" \in DOMAIN words THEN << Framework("spring boot", words["parent"]) >>
  ELSE If("spring-boot" \in DOMAIN words, Framework("spring boot", NoVersion))

ConventionHints(t) ==
  IF "@angular/core" \notin Words(t, "package.json") THEN << >>
  ELSE IF "@ngrx/store" \in Words(t, "package.json") THEN << "NgRx variant" >>
  ELSE If("app.config.ts" \in t.files, "Angular Signals variant")

(* appendUniq, appendLangUniq, appendFwUniq: the first evidence stays.     *)
AppendUniq(s, x) == IF \E i \in DOMAIN s : s[i].name = x.name THEN s ELSE Append(s, x)

AppendAll(s, new) ==
  LET after[n \in 0 .. Len(new)] == IF n = 0 THEN s ELSE AppendUniq(after[n - 1], new[n])
  IN  after[Len(new)]

-----------------------------------------------------------------------------
(* Detector.Detect.  A manifest that cannot be read is skipped like a      *)
(* missing one, so Detect never fails.                                     *)

Frameworks(t) ==
  LET in(n) == t.manifests[n].words
      node  == ParseNodeManifest(in("package.json"))
      py    == AppendAll(node, ParsePython(in("pyproject.toml")))
      req   == AppendAll(py, ParsePython(in("requirements.txt")))
      jvm   == AppendAll(req, ParseBuildGradle(in("build.gradle")))
  IN  AppendAll(jvm, ParsePomXML(in("pom.xml")))

Languages(t) ==
  LET lang(cond, name) == If(cond, [ name |-> name ])
      kotlin == "kotlin" \in Words(t, "build.gradle")
  IN  AppendAll(<< >>,
        lang(Exists(t, "go.mod"), "go")
          \o lang(Exists(t, "package.json") /\ "tsconfig.json" \in t.files, "typescript")
          \o lang(Exists(t, "pyproject.toml"), "python")
          \o lang(Exists(t, "requirements.txt"), "python")
          \o lang(Exists(t, "Cargo.toml"), "rust")
          \o lang(Exists(t, "build.gradle"), IF kotlin THEN "kotlin" ELSE "java")
          \o lang(Exists(t, "pom.xml"), "java"))

PackageManagers(t) ==
  LET node == IF "pnpm-lock.yaml" \in t.files THEN "pnpm"
              ELSE IF "yarn.lock" \in t.files THEN "yarn" ELSE "npm"
  IN  If(Exists(t, "go.mod"), "go modules") \o If(Exists(t, "package.json"), node)
        \o If(Exists(t, "pyproject.toml"), "uv/pip") \o If(Exists(t, "Cargo.toml"), "cargo")
        \o If(Exists(t, "build.gradle"), "gradle") \o If(Exists(t, "pom.xml"), "maven")

(* "cmd/*" stands for two subdirectories of cmd or of services.            *)
ArchStyle(t) ==
  LET styles == If({"pnpm-workspace.yaml", "go.work"} \cap t.files # {}, "monorepo")
                  \o If({"domain", "application", "infrastructure"} \subseteq t.files, "hexagonal")
                  \o If("cmd/*" \in t.files, "microservices")
  IN  IF styles = << >> THEN << "monolith" >> ELSE styles

Detect(t) ==
  [ languages |-> Languages(t), frameworks |-> Frameworks(t), managers |-> PackageManagers(t),
    arch |-> ArchStyle(t), hints |-> ConventionHints(t),
    greenfield |-> Frameworks(t) = << >> /\ Languages(t) = << >> ]

(* DetectorAdapter.Detect: the result has no greenfield field, and the     *)
(* context INIT assembles from it leaves the flag at its zero value.       *)
DetectorResult(t) == [ Detect(t) EXCEPT !.greenfield = FALSE ]

-----------------------------------------------------------------------------
(* The cache key.  A repository is a commit and a working tree.            *)

(* What KeyBuilder asks git for, and the head in the key when it fails.    *)
GitCommands == {"head", "status"}

NoHead == [ manifests |-> << >> ]

(* git status --porcelain: which paths differ from the commit, not how.    *)
StatusPorcelain(r) ==
  { n \in ManifestNames : r.tree.manifests[n] # r.head.manifests[n] }
    \cup (r.tree.files \ r.head.files) \cup (r.head.files \ r.tree.files)

(* Mutant: the content of the manifests is not part of the key.            *)
BuildKeySeven(r, git) ==
  [ head |-> IF "head" \in git THEN r.head ELSE NoHead,
    dirty |-> IF "status" \in git THEN StatusPorcelain(r) ELSE {}, manifests |-> "none" ]

(* The key when the commands in git succeed: without a HEAD it has "", and *)
(* without a status that of a clean tree.  The hashes are taken to be      *)
(* collision free; the graphify version, the root, the globs, .sophia.yaml *)
(* and the detector version are constant.                                  *)
BuildKey(r, git) ==
  [ head |-> IF "head" \in git THEN r.head ELSE NoHead,
    dirty |-> IF "status" \in git THEN StatusPorcelain(r) ELSE {},
    manifests |-> r.tree.manifests ]
=============================================================================
