----------------------------- MODULE BlastRadius -----------------------------
(***************************************************************************)
(* `aetronyx spec blast-radius`, and the blast radius phase of a run: the  *)
(* spec's dependency patterns are validated against the workspace, a graph *)
(* of its source files is built, and the files and tests around those the  *)
(* patterns name are reported.                                             *)
(*                                                                         *)
(* A path, an import (as it is written in the file) and a pattern are      *)
(* sequences of components, and a slash at the end is a last component "". *)
(* What the code does to their text is in Stem, EndsWith and Tests.        *)
(* Absolute patterns and those with ".." are left out.                     *)
(* Go iterates over a map in no particular order, so an import that        *)
(* matches several nodes resolves to any of them, in each build anew.      *)
(* Symbols are left out: nothing makes a "calls" edge.                     *)
(***************************************************************************)
EXTENDS Integers, Sequences, FiniteSets, SequencesExt

CONSTANTS Workspaces,  \* the workspaces tried: path |-> [imports, parses]
          Specs,       \* the dependencies.files tried: sets of patterns
          Modules,     \* the module names tried; <<>>: there is no go.mod
          skipDirs,    \* names of directories that Build does not enter
          Sources,     \* file names with the extension of a language it knows
          Tests,       \* file names with "_test" in them or "test_" before them
          Stem,        \* file name |-> the name without its extension
          EndsWith     \* pairs <<n, m>> of names where the text of n ends in m

AnyName == "*"   \* the one wildcard tried: a component of any text

ASSUME BlastAssumption ==
  /\ \A w \in Workspaces : DOMAIN w \subseteq Seq(STRING) \ {<<>>}
  /\ \A S \in Specs : S \subseteq Seq(STRING) \ {<<>>}

VARIABLES
  ws,         \* the workspace, fixed
  files,      \* the patterns, fixed
  moduleName, \* readModuleName, fixed
  at,         \* "validate", "build", "resolve", "report", "done", "invalid"
  nodes,      \* g.Nodes
  unresolved, \* pairs <<path, import>> that addImportEdges has still to do
  edges,      \* g.Edges
  report      \* [direct, importers, importees, tests]

blastVars == <<ws, files, moduleName, at, nodes, unresolved, edges, report>>

NoReport == [direct |-> {}, importers |-> {}, importees |-> {}, tests |-> {}]

\* A spec is validated by the command; a run does not validate its own.
BlastInit ==
  /\ ws \in Workspaces /\ files \in Specs /\ moduleName \in Modules
  /\ at \in {"validate", "build"}
  /\ nodes = {} /\ unresolved = {} /\ edges = {} /\ report = NoReport

-----------------------------------------------------------------------------
(* Patterns                                                                *)

\* filepath.Match: component by component.
Match(pattern, path) ==
  /\ Len(pattern) = Len(path)
  /\ \A i \in DOMAIN path : pattern[i] \in {path[i], AnyName}

\* strings.HasSuffix of the texts.
HasSuffix(path, pattern) ==
  LET k == Len(path) - Len(pattern)
  IN  /\ k >= 0
      /\ <<path[k + 1], pattern[1]>> \in EndsWith
      /\ \A i \in 2..Len(pattern) : path[k + i] = pattern[i]

\* filepath.Join.
Clean(pattern) == SelectSeq(pattern, LAMBDA c : c \notin {".", ""})

\* filepath.Glob: files, directories and the workspace itself.
Glob(pattern) ==
  {f \in {<<>>} \cup UNION {{SubSeq(w, 1, k) : k \in 1..Len(w)} : w \in DOMAIN ws} :
     Match(Clean(pattern), f)}

\* Rule 9 of the validator: every pattern finds something in the workspace.
Validate ==
  /\ at = "validate"
  /\ at' = IF \A p \in files : Glob(p) # {}
             THEN "build" ELSE "invalid"
  /\ UNCHANGED <<ws, files, moduleName, nodes, unresolved, edges, report>>

-----------------------------------------------------------------------------
(* Build                                                                   *)

\* DetectLanguage and ParseFile: a file of a language it knows that can be read.
\* Its imports are those its queries capture, each once.
Parsed(f) == Last(f) \in Sources /\ ws[f].parses

Skipped(f) == \E i \in 1..(Len(f) - 1) : f[i] \in skipDirs

\* The walk; a file that cannot be parsed is passed over.
Build ==
  /\ at = "build" /\ at' = "resolve"
  /\ nodes' = {f \in DOMAIN ws : Parsed(f) /\ ~Skipped(f)}
  /\ unresolved' = UNION {{f} \X ws[f].imports : f \in nodes'}
  /\ UNCHANGED <<ws, files, moduleName, edges, report>>

\* An import of this module without the module's name.
Suffix(imp) ==
  IF moduleName # <<>> /\ IsStrictPrefix(moduleName, imp)
    THEN SubSeq(imp, Len(moduleName) + 1, Len(imp)) ELSE imp

\* The nodes an import may resolve to: the one its suffix names, or else any
\* below the directory that names, or else any whose name without the extension
\* is the import as it stands.
Candidates(imp) ==
  LET suffix == Suffix(imp)
      below  == {n \in nodes : \/ IsStrictPrefix(suffix, n)
                               \/ suffix = <<".">> /\ Len(n) = 1}
      byName == {n \in nodes : imp = <<Stem[Last(n)]>>}
  IN  IF suffix \in nodes THEN {suffix} ELSE IF below # {} THEN below ELSE byName

\* Mutant of AddImportEdge: the edge goes the other way.
AddEdgeReversed ==
  /\ at = "resolve"
  /\ \E u \in unresolved :
       /\ unresolved' = unresolved \ {u}
       /\ \/ \E to \in Candidates(u[2]) \ {u[1]} : edges' = edges \cup {<<to, u[1]>>}
          \/ /\ Candidates(u[2]) = {} \/ u[1] \in Candidates(u[2])
             /\ UNCHANGED edges
  /\ UNCHANGED <<ws, files, moduleName, at, nodes, report>>

\* One import of addImportEdges; none to itself.
AddImportEdge ==
  /\ at = "resolve"
  /\ \E u \in unresolved :
       /\ unresolved' = unresolved \ {u}
       /\ \/ \E to \in Candidates(u[2]) \ {u[1]} : edges' = edges \cup {<<u[1], to>>}
          \/ /\ Candidates(u[2]) = {} \/ u[1] \in Candidates(u[2])
             /\ UNCHANGED edges
  /\ UNCHANGED <<ws, files, moduleName, at, nodes, report>>

Built ==
  /\ at = "resolve" /\ unresolved = {} /\ at' = "report"
  /\ UNCHANGED <<ws, files, moduleName, nodes, unresolved, edges, report>>

-----------------------------------------------------------------------------
(* ComputeBlastRadius                                                      *)

\* Mutant of expandGlobs: patterns are only looked for at the end of a path.
expandSuffixes(patterns) ==
  {n \in nodes : \E p \in patterns : HasSuffix(n, p)}

expandGlobs(patterns) ==
  {n \in nodes : \E p \in patterns : Match(p, n) \/ HasSuffix(n, p)}

findImporters(direct) == {n \in nodes : \E d \in direct : <<n, d>> \in edges}
findImportees(direct) == {n \in nodes : \E d \in direct : <<d, n>> \in edges}

findRelevantTests(impacted) ==
  {t \in nodes : /\ Last(t) \in Tests
                 /\ t \in impacted \/ \E n \in impacted : <<t, n>> \in edges}

ComputeBlastRadius ==
  LET direct    == expandGlobs(files)
      importers == findImporters(direct)
      importees == findImportees(direct)
  IN  /\ at = "report" /\ at' = "done"
      /\ report' = [direct    |-> direct,
                    importers |-> importers \ direct,
                    importees |-> importees \ direct,
                    tests     |-> findRelevantTests(direct \cup importers \cup importees)]
      /\ UNCHANGED <<ws, files, moduleName, nodes, unresolved, edges>>

BlastNext == Validate \/ Build \/ AddImportEdge \/ Built \/ ComputeBlastRadius

BlastSpec == BlastInit /\ [][BlastNext]_blastVars

-----------------------------------------------------------------------------
\* What the imports of f may resolve to.
Targets(f) == {Candidates(imp) : imp \in ws[f].imports}

\* Whatever an ambiguous import resolves to in this build, the importers reported
\* include each file with an import that can only lead to files the spec names,
\* and no file without an import that can lead to one.  So a spec that names all
\* the files an import stands for, or none, has the same importers in every
\* build (ComputeBlastRadius: "nodes that import any direct-set node").
ImportersAreFound ==
  at = "done" =>
    LET direct == report.direct
    IN  \A f \in nodes \ direct :
          /\ (\E c \in Targets(f) : c # {} /\ c \subseteq direct) => f \in report.importers
          /\ f \in report.importers => \E c \in Targets(f) : c \cap direct # {}

\* What a spec names is reported in every build: each parsed file that made a
\* pattern valid, if the pattern is written as Clean leaves it, with the tests
\* that are it or can only import such files (Rule 9, expandGlobs).  And only
\* what it names: a file is in the direct set only for a pattern whose last
\* component is the file's name or a wildcard, or that is an end of the name.  So
\* the pattern of a directory (spec-format.md: "internal/auth/"), which is valid
\* since Glob finds the directory, reports none of the files in it.
NamedFilesAreCovered ==
  at = "done" =>
    LET named == {n \in nodes : \E p \in files : Clean(p) = p /\ n \in Glob(p)}
    IN  /\ named \subseteq report.direct
        /\ {t \in nodes : /\ Last(t) \in Tests
                          /\ t \in named \/ \E c \in Targets(t) : c # {} /\ c \subseteq named}
             \subseteq report.tests
        /\ \A n \in report.direct : \E p \in files :
             \/ Last(p) \in {Last(n), AnyName}
             \/ Len(p) = 1 /\ <<Last(n), Last(p)>> \in EndsWith
        /\ UNION Range(report) \subseteq DOMAIN ws
=============================================================================
