----------------------------- MODULE MCProgress -----------------------------
(* Instances of Progress for TLC: files f and g, each with either content, *)
(* the longer one on the older side too, and a directory.                  *)
EXTENDS Progress

CONSTANTS d, f, g, c1, c2

MCAncestors == [x \in Path |-> {}]
MCRank == [x \in Path |-> CASE x = d -> 1 [] x = f -> 2 [] x = g -> 3]
MCTmpOf == [x \in Path |-> NoPath]
MCSizeOf == [c \in Content \cup {Partial} |-> CASE c = c1 -> 1 [] c = c2 -> 2 [] OTHER -> 0]

MCRules == {[mode |-> "one-way-pull", conflict |-> "manual"],
            [mode |-> "two-way", conflict |-> "keep_newest"]}

Trees(m) ==
  {t \in [Path -> {Nothing, Directory, File(c1, m), File(c2, m)}] :
     t[d] \in {Nothing, Directory} /\ t[f].type # "dir" /\ t[g].type # "dir"}

MCPairs == {[source |-> s, target |-> t] : s \in Trees(1), t \in {u \in Trees(2) : u[d] = Nothing}}
=============================================================================
