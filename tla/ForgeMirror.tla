------------------------------ MODULE ForgeMirror ------------------------------
(***************************************************************************)
(* git/forge-mirror.mjs under git/farm-lock.sh: runs that acquire mirrors   *)
(* into one farm, each with its inputs one after the other.  A run may be   *)
(* killed with its git child; git clone takes its directory in three steps, *)
(* empty, configured, whole, and clears it when it fails.                   *)
(***************************************************************************)
EXTENDS ForgeRemotes, FiniteSets

CONSTANTS
  Run,
  CommandLine, \* bound: the sets of arguments tried
  Flock,       \* flock(1) is installed
  MaxKills     \* bound

ASSUME ForgeAssumption ==
  /\ Nil \notin Run
  /\ Flock \in BOOLEAN
  /\ \A a \in CommandLine : Len(a.inputs) \in Nat

VARIABLES
  rpc,     \* rpc[p]: where run p is
  args,    \* args[p]: its command line
  cur,     \* cur[p]: the input it is at
  failed,  \* failed[p]: inputs that failed
  lock,    \* who holds the farm mutation lock
  dir,     \* dir[t]: a directory of the farm: "empty", "partial", "whole"
  orphan,  \* directories left empty by a killed clone (history)
  kills

forgeVars == <<rpc, args, cur, failed, lock, dir, orphan, kills>>

NoArgs == [inputs |-> <<>>, transport |-> Nil, mounted |-> TRUE]

ForgeInit ==
  /\ rpc = [p \in Run |-> "start"]
  /\ args = [p \in Run |-> NoArgs]
  /\ cur = [p \in Run |-> 1]
  /\ failed = [p \in Run |-> 0]
  /\ lock = Nil
  /\ dir = <<>>
  /\ orphan = {}
  /\ kills = 0

-----------------------------------------------------------------------------
(* mirrorOne's input *)

\* An input is a URL, or a clone that contributes its origin's; a clone without
\* one is an error.
\* The directory and the URL to fetch from, or Nil where mirrorOne throws.
resolve(u, transport) ==
  LET r == parseSoftwareForgeRemote(u)
      rel == parsePublicForgeUrl(u)
  IN IF u = Nil THEN Nil
     ELSE IF r # Nil
     THEN IF r.projectId = Nil THEN Nil
          ELSE [rel |-> softwareForgeMirrorRelPath(r),
                url |-> IF transport = "https" THEN softwareForgeHttpsUrl(r)
                        ELSE IF transport = "ssh" THEN softwareForgeSshUrl(r)
                        ELSE u]
     ELSE IF transport # Nil \/ rel = Nil THEN Nil
     ELSE [rel |-> rel, url |-> u]

Resolved(p) == resolve(args[p].inputs[cur[p]], args[p].transport)
Target(p) == Resolved(p).rel

Dirs == DOMAIN dir
Put(t, d) == dir' = [x \in Dirs \cup {t} |-> IF x = t THEN d ELSE dir[x]]
RemoveTarget(t) == dir' = [x \in Dirs \ {t} |-> dir[x]]

Go(p, where) == rpc' = [rpc EXCEPT ![p] = where]
Holds(p) == rpc[p] \in {"next", "spawn", "clone", "update"}

-----------------------------------------------------------------------------
(* with_farm_mutation_lock *)

Start(p) ==
  /\ rpc[p] = "start"
  /\ \E a \in CommandLine : args' = [args EXCEPT ![p] = a]
  /\ Go(p, "wait")
  /\ UNCHANGED <<cur, failed, lock, dir, orphan, kills>>

\* Faulty variant: the lock file is opened, and not locked.
AcquireShared(p) ==
  /\ rpc[p] = "wait"
  /\ lock' = p
  /\ Go(p, "next")
  /\ UNCHANGED <<args, cur, failed, dir, orphan, kills>>

\* Without flock the command runs unlocked, behind a warning.
Acquire(p) ==
  /\ rpc[p] = "wait"
  /\ Flock => lock = Nil
  /\ lock' = IF Flock THEN p ELSE lock
  /\ Go(p, "next")
  /\ UNCHANGED <<args, cur, failed, dir, orphan, kills>>

\* flock -w gives up.
Busy(p) ==
  /\ rpc[p] = "wait" /\ Flock /\ lock # Nil
  /\ Go(p, "busy")
  /\ UNCHANGED <<args, cur, failed, lock, dir, orphan, kills>>

Release(p) == lock' = IF lock = p THEN Nil ELSE lock

-----------------------------------------------------------------------------
(* main and mirrorOne *)

HasInput(p) == rpc[p] = "next" /\ args[p].mounted /\ cur[p] <= Len(args[p].inputs)

Advance(p) == cur' = [cur EXCEPT ![p] = @ + 1] /\ Go(p, "next")
Fail(p) == failed' = [failed EXCEPT ![p] = @ + 1]

\* No inputs, or a drive that is not mounted.
Refuse(p) ==
  /\ rpc[p] = "next" /\ (args[p].inputs = <<>> \/ ~args[p].mounted)
  /\ Go(p, "failed")
  /\ Release(p)
  /\ UNCHANGED <<args, cur, failed, dir, orphan, kills>>

Reject(p) ==
  /\ HasInput(p) /\ Resolved(p) = Nil
  /\ Fail(p) /\ Advance(p)
  /\ UNCHANGED <<args, lock, dir, orphan, kills>>

\* existsSync decides between the two children.
Dispatch(p) ==
  /\ HasInput(p) /\ Resolved(p) # Nil
  /\ Go(p, IF Target(p) \in Dirs THEN "update" ELSE "spawn")
  /\ UNCHANGED <<args, cur, failed, lock, dir, orphan, kills>>

\* Faulty variant: the exit status of the update is not read.
UpdateEndsAnyway(p, ok) ==
  /\ rpc[p] = "update"
  /\ IF ok /\ Target(p) \in Dirs /\ dir[Target(p)] # "empty" THEN Put(Target(p), "whole") ELSE UNCHANGED dir
  /\ Advance(p)
  /\ UNCHANGED <<args, failed, lock, orphan, kills>>

\* remote update --prune completes what a killed clone configured; where it had not
\* come to that there is no remote, and the update succeeds with nothing done.
UpdateEnds(p, ok) ==
  /\ rpc[p] = "update"
  /\ ok => Target(p) \in Dirs
  /\ IF ok /\ dir[Target(p)] # "empty" THEN Put(Target(p), "whole") ELSE UNCHANGED dir
  /\ IF ok THEN UNCHANGED failed ELSE Fail(p)
  /\ Advance(p)
  /\ UNCHANGED <<args, lock, orphan, kills>>

\* git clone takes the directory; it dies if there is one by now.
CloneStarts(p) ==
  /\ rpc[p] = "spawn" /\ Target(p) \notin Dirs
  /\ Put(Target(p), "empty")
  /\ Go(p, "clone")
  /\ UNCHANGED <<args, cur, failed, lock, orphan, kills>>

CloneConfigures(p) ==
  /\ rpc[p] = "clone" /\ Target(p) \in Dirs /\ dir[Target(p)] = "empty"
  /\ Put(Target(p), "partial")
  /\ UNCHANGED <<rpc, args, cur, failed, lock, orphan, kills>>

CloneSucceeds(p) ==
  /\ rpc[p] = "clone" /\ Target(p) \in Dirs /\ dir[Target(p)] = "partial"
  /\ Put(Target(p), "whole")
  /\ Advance(p)
  /\ UNCHANGED <<args, failed, lock, orphan, kills>>

\* A failed clone: the directory is removed, whoever made it.
CloneFails(p) ==
  /\ rpc[p] \in {"spawn", "clone"}
  /\ RemoveTarget(Target(p))
  /\ Fail(p) /\ Advance(p)
  /\ UNCHANGED <<args, lock, orphan, kills>>

Finish(p) ==
  /\ rpc[p] = "next" /\ args[p].mounted
  /\ args[p].inputs # <<>> /\ cur[p] > Len(args[p].inputs)
  /\ Go(p, IF failed[p] = 0 THEN "ok" ELSE "failed")
  /\ Release(p)
  /\ UNCHANGED <<args, cur, failed, dir, orphan, kills>>

\* The run dies with its children; the kernel drops its lock.
KillRun(p) ==
  /\ Holds(p) /\ kills < MaxKills
  /\ kills' = kills + 1
  /\ Go(p, "killed")
  /\ Release(p)
  /\ orphan' = IF rpc[p] = "clone" /\ Target(p) \in Dirs /\ dir[Target(p)] = "empty"
               THEN orphan \cup {Target(p)} ELSE orphan
  /\ UNCHANGED <<args, cur, failed, dir>>

ForgeRun(p) ==
  \/ Start(p) \/ Acquire(p) \/ Busy(p) \/ Refuse(p) \/ Reject(p) \/ Dispatch(p)
  \/ (\E ok \in BOOLEAN : UpdateEnds(p, ok)) \/ CloneStarts(p) \/ CloneConfigures(p)
  \/ CloneSucceeds(p) \/ CloneFails(p) \/ Finish(p) \/ KillRun(p)

ForgeNext == \E p \in Run : ForgeRun(p)

ForgeSpec == ForgeInit /\ [][ForgeNext]_forgeVars

-----------------------------------------------------------------------------
(* Properties *)

\* A whole mirror stays one, whatever runs fail or die beside it: the rmSync behind
\* a failed clone never hits another run's mirror (forge-mirror.mjs, mirrorOne).
MirrorsKept ==
  [][\A t \in Dirs : dir[t] = "whole" => t \in DOMAIN dir' /\ dir'[t] = "whole"]_forgeVars

\* Exit status 0 says that there is a whole mirror at the directory of every input (whose
\* mirror it is, OneDirectoryEach says); only a clone killed before it had a
\* configuration is taken for one.
ZeroMeansMirrored ==
  \A p \in Run : rpc[p] = "ok" =>
    \A i \in 1..Len(args[p].inputs) :
      LET t == resolve(args[p].inputs[i], args[p].transport).rel
      IN t \in Dirs /\ (dir[t] = "whole" \/ t \in orphan)

\* What a URL names, told by its own parts: a forge's repository by the organisation, the
\* id of the project and the name, another by its endpoint and path ("a different port is
\* a different endpoint", maintain-mirrors.mjs).
ByPath(u) ==
  /\ Len(u.path) >= 5 /\ u.path[2] = "s" /\ u.path[4] = "scm"
  /\ stripGitSuffix(u.path[5]) # Nil
BySsh(u) == u.scheme = "ssh" /\ Len(u.path) = 2 /\ stripGitSuffix(u.path[2]) # Nil
OnForge(u) == OrgOf[u.host] # Nil /\ (ByPath(u) \/ BySsh(u))
Named(u) ==
  IF ~OnForge(u)
  THEN <<"public", u.host, u.port, [u.path EXCEPT ![Len(u.path)] = stripGitSuffix(@)]>>
  ELSE IF ByPath(u) THEN <<"forge", u.path[1], u.path[3], stripGitSuffix(u.path[5])>>
  ELSE <<"forge", OrgOf[u.host], u.path[1], stripGitSuffix(u.path[2])>>

\* The inputs are URLs: no segment is empty, and a remote is not null.
Inputs == (UNION {{a.inputs[i] : i \in 1..Len(a.inputs)} : a \in CommandLine}) \ {Nil}
ForgeInput == {u \in Inputs : OnForge(u)}
Project == {Named(u)[3] : u \in ForgeInput}
ForgeRemote ==
  [kind : {"https", "ssh"}, host : {u.host : u \in ForgeInput}, org : {Named(u)[2] : u \in ForgeInput},
   projectId : Project, projectSlug : {IdSlug[i] : i \in Project} \cup {Nil},
   repo : {Named(u)[4] : u \in ForgeInput}, user : {u.user : u \in ForgeInput}]
ASSUME NamesAssumption ==
  /\ Nil \notin ForgeRemote
  /\ \A u \in Inputs : /\ Len(u.path) \in Nat /\ u.path = [i \in 1..Len(u.path) |-> u.path[i]]
                       /\ \A i \in 1..Len(u.path) : u.path[i] # Nil

\* What a directory leaves out of a name: the number behind a project's slug, although it
\* "is what makes a projectId unique" (software-forge-remotes.mjs); a port; and that an
\* organisation spelled in a path is not a host.
SameSlug(i, j) == IdSlug[i] = IdSlug[j] \/ IdSlug[i] = j \/ i = IdSlug[j]
Namesakes(u, v) ==
  LET a == Named(u)
      b == Named(v)
  IN /\ a[2] = b[2]
     /\ OnForge(u) /\ OnForge(v) => a[4] = b[4] /\ SameSlug(a[3], b[3])
     /\ ~OnForge(u) /\ ~OnForge(v) => a[4] = b[4]

\* One repository has one directory, however its URLs are spelled ("exposes the SAME
\* repository through three different URLs", software-forge-remotes.mjs), and two that
\* share one are namesakes: projects of one organisation with one slug, endpoints of one
\* host, or a public host that is some organisation's name.  The second of them is taken
\* for a mirror that is there already, updated, and never fetched.
OneDirectoryEach ==
  \A p, q \in Run : \A i \in 1..Len(args[p].inputs), j \in 1..Len(args[q].inputs) :
    LET u == args[p].inputs[i]
        v == args[q].inputs[j]
        x == resolve(u, args[p].transport)
        y == resolve(v, args[q].transport)
    IN x # Nil /\ y # Nil =>
         /\ Named(u) = Named(v) => x.rel = y.rel
         /\ x.rel = y.rel => Named(u) = Named(v) \/ Namesakes(u, v)
=============================================================================
