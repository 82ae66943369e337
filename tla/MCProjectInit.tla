--------------------------- MODULE MCProjectInit ----------------------------
(***************************************************************************)
(* Instances of ProjectInit for TLC: a repository that moves between an    *)
(* Angular 2 tree, an Angular 3 tree and one with Vue and an unreadable    *)
(* version, and a skills table with a skill for Angular 2 in use.          *)
(***************************************************************************)
EXTENDS ProjectInit, TLC

V(major, rest) == [ major |-> major, rest |-> rest ]

Manifest(deps) == [ exists |-> TRUE, words |-> deps ]

Tree(manifests, files) ==
  [ manifests |-> [ n \in ManifestNames |->
                      IF n \in DOMAIN manifests THEN manifests[n] ELSE NoManifest ],
    files |-> files ]

Node(deps, files) ==
  Tree([ n \in {"package.json"} |-> Manifest(deps) ], files)

Angular2 == Node([ d \in {"@angular/core"} |-> V(2, ".0") ], {})

Angular3 == Node([ d \in {"@angular/core"} |-> V(3, ".0") ], {})

WithVue ==
  Node([ d \in {"@angular/core", "vue"} |-> IF d = "vue" THEN V(3, "tag") ELSE V(3, ".1") ],
       {})

MCTrees == {Angular2, Angular3, WithVue}

MCInitRepos == { [ head |-> Angular2, tree |-> Angular3 ] }

MCProjectOf == [ c \in Changes |-> "p" ]

Skill(id, status, frameworks, min, validatedAt) ==
  [ id |-> id, status |-> status, source |-> "imported", phases |-> {"explore", "apply"},
    project |-> Unset, repo |-> Unset, features |-> {}, touchedPaths |-> {}, excludePaths |-> {},
    languages |-> {}, frameworks |-> frameworks, minVersion |-> min, risk |-> "medium",
    validatedAt |-> validatedAt, usage |-> 0 ]

MinOf(fw, major) == [ f \in {fw} |-> Bare(major) ]

RowKey(fw, major, v) == [ name |-> StackName(fw, Bare(major)), version |-> v ]

MCInitRows ==
  LET angular == RowKey("angular", 2, V(2, ".0"))
      later   == RowKey("angular", 2, V(2, ".1"))
      vue     == RowKey("vue", 2, V(2, ".0"))
  IN  [ k \in {angular, later, vue} |->
          IF k = angular THEN Skill(1, "active", {"angular"}, MinOf("angular", 2), 1)
          ELSE IF k = later THEN Skill(2, "active", {"angular"}, MinOf("angular", 2), 1)
          ELSE Skill(3, "candidate", {"vue"}, MinOf("vue", 2), 0) ]

(* An operator approves the import for Angular 3, or withdraws a skill     *)
(* that was in use.                                                        *)
MCDecisions ==
  { [ key |-> RowKey("angular", 3, V(3, ".0")), to |-> "validated" ],
    [ key |-> RowKey("angular", 3, V(3, ".0")), to |-> "active" ],
    [ key |-> RowKey("angular", 2, V(2, ".0")), to |-> "deprecated" ] }

Entry(main, score, snippets) == [ main |-> main, score |-> score, snippets |-> snippets ]

MCLibraries == { << >>, << Entry(FALSE, 2, 1), Entry(TRUE, 1, 3) >> }

-----------------------------------------------------------------------------
Symmetric == Permutations(Changes)

(* Inputs of the pure operators.                                           *)

WordsOf(ws) == Manifest([ w \in ws |-> V(1, ".0") ])

MCSampleTrees ==
  { Tree([ n \in {"package.json", "pyproject.toml", "requirements.txt", "build.gradle", "pom.xml"} |->
             CASE n = "package.json" -> WordsOf(node)
               [] n = "pyproject.toml" -> WordsOf(py)
               [] n = "requirements.txt" -> WordsOf(req)
               [] n = "build.gradle" -> WordsOf(gradle)
               [] OTHER -> WordsOf(pom) ], {"tsconfig.json"}) :
      node \in SUBSET {"@angular/core", "@ngrx/store", "react", "next"},
      py \in SUBSET {"django", "flask"}, req \in SUBSET {"django", "fastapi"},
      gradle \in {{"spring-boot-starter"}, {"kotlin"}}, pom \in {{"parent"}, {"spring-boot"}} }
=============================================================================
