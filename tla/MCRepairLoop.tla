---------------------------- MODULE MCRepairLoop ----------------------------
(* A small instance of RepairLoop: a root pom, a domain class and another  *)
(* class, two contents, and deltas that edit, delete, rename and do nothing. *)
EXTENDS RepairLoop, TLC

MCPath == {"pom.xml", "domain/A.java", "B.java"}
MCContent == {"", "x", "y"}

Write(p, c) == [path |-> p, content |-> c]

MCInitial ==
    { [name  |-> "app",
       files |-> ("pom.xml" :> [content |-> "x", pos |-> 0])
                 @@ ("domain/A.java" :> [content |-> "x", pos |-> 1])
                 @@ ("B.java" :> b),
       end   |-> 3] : b \in {Absent, [content |-> "x", pos |-> 2]} }

MCReviewer ==
    { [name |-> "", changed |-> <<>>, deleted |-> {}],
      [name |-> "", changed |-> <<Write("B.java", "y")>>, deleted |-> {"domain/A.java"}] }

MCFixer ==
    { [name |-> "", changed |-> <<Write("domain/A.java", "x")>>, deleted |-> {}],
      [name |-> "new", changed |-> <<Write("B.java", "x")>>, deleted |-> {"B.java"}],
      [name |-> "", changed |-> <<Write("pom.xml", "y")>>, deleted |-> {}],
      [name |-> "", changed |-> <<>>, deleted |-> {"pom.xml", "B.java"}],
      [name |-> "", changed |-> <<Write("domain/A.java", "y"), Write("B.java", "y")>>,
       deleted |-> {}] }

MCMentions == {{}, {"domain/A.java"}, {"B.java"}}
-----------------------------------------------------------------------------
(* A project with a second pom, listed before the root pom.                *)
NestedPath == {"pom.xml", "module/pom.xml"}
NestedManifest ==
    [name  |-> "app",
     files |-> ("module/pom.xml" :> [content |-> "x", pos |-> 0])
               @@ ("pom.xml" :> [content |-> "x", pos |-> 1]),
     end   |-> 2]
NestedInitial == {NestedManifest}
NestedReviewer == {[name |-> "", changed |-> <<>>, deleted |-> {}]}
NestedFixer ==
    {[name |-> "", changed |-> <<Write(p, "y")>>, deleted |-> {}] : p \in NestedPath}
NestedMentions == {{}}
=============================================================================
