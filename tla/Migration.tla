------------------------------- MODULE Migration -------------------------------
(***************************************************************************)
(* git/migrate-to-bare.mjs: a pool of workers turns the clones of a farm    *)
(* into bare mirrors under a parallel root, and may delete the clones.      *)
(* The run may be killed at any step, and run again.                        *)
(***************************************************************************)
EXTENDS FarmTree

CONSTANTS
  Tree,       \* the farm at the start
  Order,      \* its directories, sorted
  Slots,      \* bound: pool slots
  MigOptions, \* bound: the command lines tried
  MaxRuns     \* bound

ASSUME MigrationAssumption ==
  /\ Order \in Seq(DOMAIN Tree)
  /\ \A i, j \in 1..Len(Order) : Order[i] = Order[j] => i = j
  /\ Slots \in Nat

VARIABLES
  mphase,   \* "start", "run", "done", "aborted", "killed"
  mo,       \* the options
  tree,     \* the clones
  mirror,   \* mirror[d]: the mirror of clone d: "partial", "broken", "whole"
  todo,     \* the clones to convert
  mnext,    \* the pool's cursor
  item,     \* item[w]: the clone in worker w's hands, or 0
  wat,      \* wat[w]: "idle", "begin", "clone", "verify"
  download, \* download[w]: it clones from upstream
  result,   \* result[d]: "migrated", "skipped", "failed"
  mexit,
  runs

migrationVars == <<mphase, mo, tree, mirror, todo, mnext, item, wat, download, result, mexit, runs>>
Slot == 1..Slots
NoOptions == [jobs |-> 1, maxDepth |-> 5, redownload |-> FALSE, deleteOriginals |-> FALSE,
              force |-> FALSE, only |-> {}, exclude |-> {}]

MigrationInit ==
  /\ mphase = "start" /\ mo = NoOptions
  /\ tree = Tree /\ mirror = <<>>
  /\ todo = <<>> /\ mnext = 1
  /\ item = [w \in Slot |-> 0] /\ wat = [w \in Slot |-> "idle"]
  /\ download = [w \in Slot |-> FALSE]
  /\ result = <<>> /\ mexit = 0 /\ runs = 0

Set(f, x, v) == [y \in DOMAIN f \cup {x} |-> IF y = x THEN v ELSE f[y]]
Drop(f, x) == [y \in DOMAIN f \ {x} |-> f[y]]

\* main up to the pool: discovery, filter, which keeps the order of discovery.  A root that is gone, or a dest that is the
\* root or above it, is refused.
Begin ==
  /\ mphase \in {"start", "done", "aborted", "killed"} /\ runs < MaxRuns
  /\ runs' = runs + 1
  /\ \E o \in MigOptions :
       \E chosen \in {Chosen(findCloneRoots(tree, o.maxDepth), o.only, o.exclude)} :
          /\ mo' = o
          /\ \E n \in 0..Len(Order) :
               /\ n = Cardinality(chosen)
               /\ todo' \in {s \in [1..n -> chosen] : Sorted(Order, s, chosen)}
          /\ mphase' \in {"aborted", IF chosen = {} THEN "done" ELSE "run"}
  /\ mnext' = 1 /\ result' = <<>> /\ mexit' = IF mphase' = "aborted" THEN 1 ELSE 0
  /\ item' = [w \in Slot |-> 0] /\ wat' = [w \in Slot |-> "idle"]
  /\ UNCHANGED <<tree, mirror, download>>

Converters == IF mo.jobs < Len(todo) THEN mo.jobs ELSE Len(todo)
Clone(w) == todo[item[w]]
mainRest == <<mphase, mo, todo, mexit, runs>>

PoolTake(w) ==
  /\ mphase = "run" /\ w <= Converters
  /\ wat[w] = "idle" /\ mnext <= Len(todo)
  /\ item' = [item EXCEPT ![w] = mnext] /\ mnext' = mnext + 1
  /\ wat' = [wat EXCEPT ![w] = "begin"]
  /\ UNCHANGED <<mainRest, tree, mirror, download, result>>

Step(w, where) == wat' = [wat EXCEPT ![w] = where] /\ UNCHANGED <<item, result>>
Conclude(w, r) ==
  /\ result' = Set(result, Clone(w), r)
  /\ wat' = [wat EXCEPT ![w] = "idle"] /\ item' = [item EXCEPT ![w] = 0]

-----------------------------------------------------------------------------
(* convertOne *)

\* originUrl and the shallow file are read in what is left of the clone.
HasUrl(w) == Clone(w) \in DOMAIN tree /\ tree[Clone(w)].origin
IsShallow(w) == Clone(w) \in DOMAIN tree /\ tree[Clone(w)].shallow
HasTarget(w) == Clone(w) \in DOMAIN mirror

Skip(w) ==
  /\ mphase = "run" /\ wat[w] = "begin"
  /\ HasTarget(w) /\ ~mo.force
  /\ Conclude(w, "skipped")
  /\ UNCHANGED <<mainRest, tree, mirror, mnext, download>>

\* With --force the old mirror goes before the new one comes.  A shallow clone without
\* a URL is mirrored as it is.
BeginClone(w) ==
  /\ mphase = "run" /\ wat[w] = "begin"
  /\ HasTarget(w) => mo.force
  /\ download' = [download EXCEPT ![w] = HasUrl(w) /\ (mo.redownload \/ IsShallow(w))]
  /\ mirror' = Set(mirror, Clone(w), "partial")
  /\ Step(w, "clone")
  /\ UNCHANGED <<mainRest, tree, mnext>>

\* mkdirSync or rmSync throws: pool and main reject, the process exits with the other
\* workers under way.
Throws(w) ==
  /\ mphase = "run" /\ wat[w] = "begin"
  /\ HasTarget(w) => mo.force
  /\ mphase' = "aborted" /\ mexit' = 1
  /\ UNCHANGED <<mo, tree, mirror, todo, mnext, item, wat, download, result, runs>>

\* git clone fails and clears its directory; set-url fails and leaves it.
CloneRefused(w) ==
  /\ mphase = "run" /\ wat[w] = "clone"
  /\ mirror' \in {mirror, Drop(mirror, Clone(w))}
  /\ Conclude(w, "failed")
  /\ UNCHANGED <<mainRest, tree, mnext, download>>

\* A local clone copies what the clone has, breakage included.
Cloned(w, got) ==
  /\ mphase = "run" /\ wat[w] = "clone"
  /\ ~download[w] => Clone(w) \in DOMAIN tree
  /\ mirror' = Set(mirror, Clone(w), got)
  /\ Step(w, "verify")
  /\ UNCHANGED <<mainRest, tree, mnext, download>>

\* It is not bare, or fsck --connectivity-only complains: left where it is.
Unverified(w) ==
  /\ mphase = "run" /\ wat[w] = "verify"
  /\ mirror[Clone(w)] = "broken"
  /\ Conclude(w, "failed")
  /\ UNCHANGED <<mainRest, tree, mirror, mnext, download>>

\* rmSync(clone, recursive) takes what is below it along.
Below(d) == {e \in DOMAIN tree : e = d \/ IsAbove(d, e)}

\* Faulty variant: the verdict of fsck is a warning, like the unborn HEAD's.
VerifiedAnyway(w) ==
  /\ mphase = "run" /\ wat[w] = "verify"
  /\ tree' = IF mo.deleteOriginals THEN [e \in DOMAIN tree \ Below(Clone(w)) |-> tree[e]] ELSE tree
  /\ Conclude(w, "migrated")
  /\ UNCHANGED <<mainRest, mirror, mnext, download>>

Verified(w) ==
  /\ mphase = "run" /\ wat[w] = "verify"
  /\ mirror[Clone(w)] = "whole"
  /\ tree' = IF mo.deleteOriginals THEN [e \in DOMAIN tree \ Below(Clone(w)) |-> tree[e]] ELSE tree
  /\ Conclude(w, "migrated")
  /\ UNCHANGED <<mainRest, mirror, mnext, download>>

MigrationEnds ==
  /\ mphase = "run" /\ mnext > Len(todo) /\ \A w \in Slot : wat[w] = "idle"
  /\ mphase' = "done"
  /\ mexit' = IF \E d \in DOMAIN result : result[d] = "failed" THEN 1 ELSE 0
  /\ UNCHANGED <<mo, tree, mirror, todo, mnext, item, wat, download, result, runs>>

MigrationKilled ==
  /\ mphase = "run"
  /\ mphase' = "killed"
  /\ UNCHANGED <<mo, tree, mirror, todo, mnext, item, wat, download, result, mexit, runs>>

Convert(w) ==
  \/ PoolTake(w) \/ Skip(w) \/ BeginClone(w) \/ Throws(w) \/ CloneRefused(w)
  \/ (\E got \in {"broken", "whole"} : Cloned(w, got)) \/ Unverified(w) \/ Verified(w)

MigrationNext ==
  Begin \/ MigrationEnds \/ MigrationKilled \/ \E w \in Slot : Convert(w)

MigrationSpec == MigrationInit /\ [][MigrationNext]_migrationVars

-----------------------------------------------------------------------------
(* Properties *)

\* A clone is gone only if its own mirror is whole, over kills and repeated runs, with
\* every combination of --force and --redownload ("it can only fire after the
\* conversion's own git fsck --connectivity-only passed", migrate-to-bare.mjs).
OriginalsKept ==
  \A d \in findCloneRoots(Tree, mo.maxDepth) :
    d \notin DOMAIN tree => d \in DOMAIN mirror /\ mirror[d] = "whole"
=============================================================================
