------------------------------- MODULE FarmTree -------------------------------
(***************************************************************************)
(* git/git-lib.mjs: how the tools find repositories in a tree of            *)
(* directories and choose among them.                                       *)
(*                                                                         *)
(* A tree is a function from directories to what they directly hold; a      *)
(* directory is the sequence of names that leads to it from the root.       *)
(***************************************************************************)
EXTENDS Naturals, Sequences, FiniteSets

CONSTANT Hidden  \* names with a leading dot, less .git

IsAbove(a, d) == Len(a) < Len(d) /\ SubSeq(d, 1, Len(a)) = a

\* readdirSync fails on an unreadable directory: the walk goes on beside it.
Walked(tree, d, maxDepth) ==
  /\ Len(d) <= maxDepth
  /\ \A i \in 1..Len(d) : d[i] \notin Hidden
  /\ tree[d].readable /\ \A a \in DOMAIN tree : IsAbove(a, d) => tree[a].readable

\* The walk goes on below a clone.
findCloneRoots(tree, maxDepth) ==
  {d \in DOMAIN tree : Walked(tree, d, maxDepth) /\ tree[d].git}

\* HEAD, objects and refs; the walk stops at a bare repository.
looksBare(e) == {"HEAD", "objects", "refs"} \subseteq e.names

findBareMirrors(tree, maxDepth) ==
  {d \in DOMAIN tree : /\ Walked(tree, d, maxDepth) /\ looksBare(tree[d])
                       /\ \A a \in DOMAIN tree : IsAbove(a, d) => ~looksBare(tree[a])}

\* The pattern against the whole path, both with \ read as /: ** matches anything,
\* * and ? stay in a segment.
globMatcher(glob, path) ==
  LET sep == {"/", "\\"}
      match[i \in 1..(Len(glob) + 1), j \in 1..(Len(path) + 1)] ==
        IF i > Len(glob) THEN j > Len(path)
        ELSE IF glob[i] \in {"*", "**"}
        THEN \E k \in j..(Len(path) + 1) :
               /\ glob[i] = "*" => \A x \in j..(k - 1) : path[x] \notin sep
               /\ match[i + 1, k]
        ELSE /\ j <= Len(path)
             /\ IF glob[i] = "?" THEN path[j] \notin sep
                ELSE glob[i] = path[j] \/ {glob[i], path[j]} \subseteq sep
             /\ match[i + 1, j + 1]
  IN match[1, 1]

\* --only globs are OR-ed, none is all; an --exclude match removes regardless.
filterByGlobs(rels, only, exclude) ==
  {r \in rels : /\ only = {} \/ \E g \in only : globMatcher(g, r)
                /\ \A g \in exclude : ~globMatcher(g, r)}

\* The path of a directory as the globs see it, one name a character.
Rel(d) == [i \in 1..IF d = <<>> THEN 0 ELSE 2 * Len(d) - 1 |->
             IF i % 2 = 1 THEN d[(i + 1) \div 2] ELSE "/"]

Chosen(dirs, only, exclude) ==
  {d \in dirs : Rel(d) \in filterByGlobs({Rel(e) : e \in dirs}, only, exclude)}

\* The chosen directories in the order of discovery, of which order is the whole.
Sorted(order, s, chosen) ==
  /\ {s[i] : i \in 1..Len(s)} = chosen
  /\ \A i, j \in 1..Len(s) : i < j =>
       \E a, b \in 1..Len(order) : a < b /\ order[a] = s[i] /\ order[b] = s[j]
=============================================================================
