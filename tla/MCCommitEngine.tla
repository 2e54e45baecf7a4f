--------------------------- MODULE MCCommitEngine ---------------------------
(* One stage that replaces a and moves b to c, in a directory it makes; the   *)
(* stage that undoes it; and one that goes on from it, moving a to e, two new *)
(* directories deep.                                                         *)
EXTENDS CommitEngine, TLC

CONSTANTS p1, p2

MCPaths == {"a", "b", "c", "e"}

MCTree == [path \in MCPaths |->
             CASE path = "a" -> "old" [] path = "b" -> "carried" [] OTHER -> Absent]
MCDirOf == [path \in MCPaths |->
             CASE path = "c" -> "sub" [] path = "e" -> "deep" [] OTHER -> "root"]
MCHomes == [path \in MCPaths |->
             CASE path = "c" -> {"sub", "root"} [] path = "e" -> {"deep", "sub"}
               [] OTHER -> {"root"}]

Replace(p, o, n) == [kind |-> "replace", from |-> p, to |-> p, old |-> o, new |-> n]
Move(p, q, o)    == [kind |-> "move", from |-> p, to |-> q, old |-> o, new |-> o]

MCOps == [s \in {"do", "undo", "next"} |->
            CASE s = "do"   -> <<Replace("a", "old", "new"), Move("b", "c", "carried")>>
              [] s = "undo" -> <<Replace("a", "new", "old"), Move("c", "b", "carried")>>
              [] s = "next" -> <<Move("a", "e", "new")>>]
MCSymmetry == Permutations(Procs)
=============================================================================
