--------------------------- MODULE MCBlastRadius ----------------------------
(* BlastRadius on a Go package of two files with a test in it, one in a    *)
(* directory below it and one in vendor, and a main file: each of the last *)
(* four may import the package, its subdirectory, a name that two files    *)
(* share, or nothing, and one of the files may fail to parse.              *)
EXTENDS BlastRadius

Main  == <<"main.go">>
A     == <<"pkg", "a.go">>
ATest == <<"pkg", "a_test.go">>
C     == <<"pkg", "sub", "c.go">>
C2    == <<"c.go">>
Vend  == <<"vendor", "pkg", "a.go">>
Doc   == <<"pkg", "doc.md">>

Paths   == {Main, A, ATest, C, C2, Vend, Doc}
ImportSets == {{}, {<<"m", "pkg">>}, {<<"pkg", "sub">>}, {<<"m", "c">>}, {<<".">>},
             {<<"a">>, <<"m", "pkg", "sub">>}, {<<"m", "pkg", "a.go">>}}
Workspace(m, a, t, c, bad) ==
  [f \in Paths |->
     [parses  |-> f # bad,
      imports |-> CASE f = Main -> m [] f = A -> a [] f = ATest -> t [] f = C -> c
                    [] OTHER -> {<<"m", "pkg">>}]]

MCWorkspaces ==
  {Workspace(m, a, t, c, bad) :
     m \in ImportSets, a \in {{<<"m", "pkg", "sub">>}, {<<"c">>}},
     t \in ImportSets, c \in {{}, {<<"pkg">>}}, bad \in {Doc, A}}
MCModules == {<<"m">>, <<>>}

MCSpecs == {{A}, {<<"pkg", "*">>}, {<<"a.go">>}, {<<".", "pkg", "a.go">>}, {<<".">>},
            {<<"pkg", "">>}, {<<"pkg", "sub", "">>, <<"n.go">>},
            {<<"pkg", "sub", "*">>, <<"c.go">>}, {ATest, <<"nowhere">>}}

MCSources  == {"main.go", "a.go", "a_test.go", "c.go"}
MCTests    == {"a_test.go"}
MCStem     == [n \in MCSources |->
                 CASE n = "main.go" -> "main" [] n = "a.go" -> "a"
                   [] n = "a_test.go" -> "a_test" [] OTHER -> "c"]
MCEndsWith == {<<"main.go", "n.go">>} \cup {<<n, n>> : n \in {"pkg", "sub", "vendor", "doc.md"} \cup MCSources}
MCSkipDirs == {"vendor", "testdata"}
=============================================================================
