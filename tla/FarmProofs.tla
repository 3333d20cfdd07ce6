------------------------------ MODULE FarmProofs ------------------------------
(***************************************************************************)
(* Proofs about the git farm's tools: ForgeMirror, with flock, for any      *)
(* runs, command lines, farm and number of kills, and its directories, for  *)
(* any URLs and forges of NamesAssumption; Migration, on a farm without a   *)
(* clone inside another, for any pool, options and number of kills and      *)
(* repeated runs; ReferenceSearch, for any farm, command lines and results; *)
(* FarmReports, for any clones and command lines; HarManifest, for any      *)
(* recording.                                                               *)
(***************************************************************************)
EXTENDS ForgeMirror, Migration, ReferenceSearch, FarmReports, HarManifest,
        SequenceTheorems, FiniteSetTheorems, WellFoundedInduction, TLAPS

-----------------------------------------------------------------------------
(* ForgeMirror: the inductive invariant *)

Places == {"start", "wait", "busy", "next", "spawn", "clone", "update", "ok", "failed", "killed"}

ForgeTypes ==
  /\ rpc \in [Run -> Places]
  /\ args \in [Run -> CommandLine \cup {NoArgs}]
  /\ cur \in [Run -> Nat]
  /\ failed \in [Run -> Nat]

\* Whoever is behind the lock holds it.
Locked == \A p \in Run : Holds(p) => lock = p

\* What a run's next child will find: a clone's directory is its own and not whole.
Aimed(p) ==
  /\ rpc[p] = "spawn" => Target(p) \notin Dirs
  /\ rpc[p] = "clone" => /\ Target(p) \in Dirs \ orphan
                         /\ dir[Target(p)] # "whole"
  /\ rpc[p] = "update" => Target(p) \in Dirs
AllAimed == \A p \in Run : Aimed(p)

\* An empty directory is a killed clone's or the one of the clone that runs.
BeingCloned(t) == \E p \in Run : rpc[p] = "clone" /\ Target(p) = t
Known ==
  /\ orphan \subseteq Dirs
  /\ \A t \in Dirs : dir[t] = "empty" => t \in orphan \/ BeingCloned(t)

\* What exit status 0 claims of an input.
Mirrored(t) == t \in Dirs /\ (dir[t] = "whole" \/ t \in orphan)
Wanted(a, i) == resolve(a.inputs[i], a.transport).rel

\* A run without a failure has mirrored what it has behind it.
Behind(p) ==
  /\ rpc[p] \in {"start", "wait"} => cur[p] = 1
  /\ failed[p] = 0 => \A i \in 1..Len(args[p].inputs) : i < cur[p] => Mirrored(Wanted(args[p], i))
  /\ rpc[p] = "ok" => failed[p] = 0 /\ cur[p] > Len(args[p].inputs)
AllBehind == \A p \in Run : Behind(p)

ForgeInv == ForgeTypes /\ Locked /\ AllAimed /\ Known /\ AllBehind

-----------------------------------------------------------------------------
(* What a step leaves alone *)

\* A run's target depends on its own command line and input only.
LEMMA TargetKept ==
  ASSUME NEW p, args'[p] = args[p], cur'[p] = cur[p]
  PROVE  Target(p)' = Target(p)
  BY DEF Target, Resolved

\* Behind the lock there is one run.
LEMMA Alone ==
  ASSUME ForgeInv, NEW p \in Run, NEW q \in Run, Holds(p), Holds(q)
  PROVE  p = q
  BY DEF ForgeInv, Locked

LEMMA TypesKept ==
  ASSUME ForgeInv, [ForgeNext]_forgeVars
  PROVE  ForgeTypes'
<1> USE DEF ForgeInv, ForgeTypes, Places, Go, Fail, Advance
<1>1. CASE UNCHANGED forgeVars
  BY <1>1 DEF forgeVars
<1>2. ASSUME NEW p \in Run, ForgeRun(p)
      PROVE  ForgeTypes'
  <2>1. CASE Start(p)
    BY <2>1 DEF Start
  <2>2. CASE Acquire(p)
    BY <2>2 DEF Acquire
  <2>3. CASE Busy(p)
    BY <2>3 DEF Busy
  <2>4. CASE Refuse(p)
    BY <2>4 DEF Refuse
  <2>5. CASE Reject(p)
    BY <2>5 DEF Reject
  <2>6. CASE Dispatch(p)
    BY <2>6 DEF Dispatch
  <2>7. CASE \E ok \in BOOLEAN : UpdateEnds(p, ok)
    BY <2>7 DEF UpdateEnds
  <2>8. CASE CloneStarts(p)
    BY <2>8 DEF CloneStarts
  <2>9. CASE CloneConfigures(p)
    BY <2>9 DEF CloneConfigures
  <2>10. CASE CloneSucceeds(p)
    BY <2>10 DEF CloneSucceeds
  <2>11. CASE CloneFails(p)
    BY <2>11 DEF CloneFails
  <2>12. CASE Finish(p)
    BY <2>12 DEF Finish
  <2>13. CASE KillRun(p)
    BY <2>13 DEF KillRun
  <2> QED
    BY <1>2, <2>1, <2>2, <2>3, <2>4, <2>5, <2>6, <2>7, <2>8, <2>9, <2>10, <2>11, <2>12, <2>13
       DEF ForgeRun
<1> QED
  BY <1>1, <1>2 DEF ForgeNext

LEMMA LockedKept ==
  ASSUME Flock, ForgeInv, [ForgeNext]_forgeVars
  PROVE  Locked'
<1> USE ForgeAssumption DEF ForgeInv, ForgeTypes, Locked, Holds, Go, Fail, Advance
<1>1. CASE UNCHANGED forgeVars
  BY <1>1 DEF forgeVars
<1>2. ASSUME NEW p \in Run, ForgeRun(p)
      PROVE  Locked'
  <2>1. CASE Start(p)
    BY <2>1 DEF Start
  <2>2. CASE Acquire(p)
    BY <2>2 DEF Acquire
  <2>3. CASE Busy(p)
    BY <2>3 DEF Busy
  <2>4. CASE Refuse(p)
    BY <2>4 DEF Refuse, Release
  <2>5. CASE Reject(p)
    BY <2>5 DEF Reject, HasInput
  <2>6. CASE Dispatch(p)
    BY <2>6 DEF Dispatch, HasInput
  <2>7. CASE \E ok \in BOOLEAN : UpdateEnds(p, ok)
    BY <2>7 DEF UpdateEnds
  <2>8. CASE CloneStarts(p)
    BY <2>8 DEF CloneStarts
  <2>9. CASE CloneConfigures(p)
    BY <2>9 DEF CloneConfigures
  <2>10. CASE CloneSucceeds(p)
    BY <2>10 DEF CloneSucceeds
  <2>11. CASE CloneFails(p)
    BY <2>11 DEF CloneFails
  <2>12. CASE Finish(p)
    BY <2>12 DEF Finish, Release
  <2>13. CASE KillRun(p)
    BY <2>13 DEF KillRun, Release
  <2> QED
    BY <1>2, <2>1, <2>2, <2>3, <2>4, <2>5, <2>6, <2>7, <2>8, <2>9, <2>10, <2>11, <2>12, <2>13
       DEF ForgeRun
<1> QED
  BY <1>1, <1>2 DEF ForgeNext

\* What a step does to the directories: a new one, one that becomes whole, or the one a
\* failed clone takes away, which no mirror and no other run's directory is.
LEMMA WholeKept ==
  ASSUME ForgeInv, [ForgeNext]_forgeVars, NEW t \in Dirs, dir[t] = "whole"
  PROVE  t \in Dirs' /\ dir'[t] = "whole"
<1> USE DEF ForgeInv, AllAimed, Aimed, Dirs
<1>1. CASE UNCHANGED forgeVars
  BY <1>1 DEF forgeVars
<1>2. ASSUME NEW p \in Run, ForgeRun(p)
      PROVE  t \in Dirs' /\ dir'[t] = "whole"
  <2>1. CASE Start(p) \/ Acquire(p) \/ Busy(p) \/ Refuse(p) \/ Reject(p) \/ Dispatch(p)
             \/ Finish(p) \/ KillRun(p)
    BY <2>1 DEF Start, Acquire, Busy, Refuse, Reject, Dispatch, Finish, KillRun
  <2>2. CASE \E ok \in BOOLEAN : UpdateEnds(p, ok)
    BY <2>2 DEF UpdateEnds, Put
  <2>3. CASE CloneStarts(p)
    BY <2>3 DEF CloneStarts, Put
  <2>4. CASE CloneConfigures(p)
    BY <2>4 DEF CloneConfigures, Put
  <2>5. CASE CloneSucceeds(p)
    BY <2>5 DEF CloneSucceeds, Put
  <2>6. CASE CloneFails(p)
    BY <2>6 DEF CloneFails, RemoveTarget
  <2> QED
    BY <1>2, <2>1, <2>2, <2>3, <2>4, <2>5, <2>6 DEF ForgeRun
<1> QED
  BY <1>1, <1>2 DEF ForgeNext

LEMMA OrphansKept ==
  ASSUME ForgeInv, [ForgeNext]_forgeVars
  PROVE  orphan \subseteq orphan' /\ orphan' \subseteq Dirs'
<1> USE DEF ForgeInv, AllAimed, Aimed, Known, Dirs
<1>1. CASE UNCHANGED forgeVars
  BY <1>1 DEF forgeVars
<1>2. ASSUME NEW p \in Run, ForgeRun(p)
      PROVE  orphan \subseteq orphan' /\ orphan' \subseteq Dirs'
  <2>1. CASE Start(p) \/ Acquire(p) \/ Busy(p) \/ Refuse(p) \/ Reject(p) \/ Dispatch(p)
             \/ Finish(p) \/ KillRun(p)
    BY <2>1 DEF Start, Acquire, Busy, Refuse, Reject, Dispatch, Finish, KillRun
  <2>2. CASE \E ok \in BOOLEAN : UpdateEnds(p, ok)
    BY <2>2 DEF UpdateEnds, Put
  <2>3. CASE CloneStarts(p)
    BY <2>3 DEF CloneStarts, Put
  <2>4. CASE CloneConfigures(p)
    BY <2>4 DEF CloneConfigures, Put
  <2>5. CASE CloneSucceeds(p)
    BY <2>5 DEF CloneSucceeds, Put
  <2>6. CASE CloneFails(p)
    BY <2>6 DEF CloneFails, RemoveTarget
  <2> QED
    BY <1>2, <2>1, <2>2, <2>3, <2>4, <2>5, <2>6 DEF ForgeRun
<1> QED
  BY <1>1, <1>2 DEF ForgeNext

LEMMA MirroredKept ==
  ASSUME ForgeInv, [ForgeNext]_forgeVars, NEW t, Mirrored(t)
  PROVE  Mirrored(t)'
  BY WholeKept, OrphansKept DEF Mirrored

-----------------------------------------------------------------------------
(* ForgeMirror: the invariant *)

\* A step of one run leaves the aim of every other alone: it changes no directory, or
\* holds the lock, and then the others aim at nothing.
LEMMA OthersAimed ==
  ASSUME Flock, ForgeInv, NEW p \in Run, ForgeRun(p), NEW q \in Run, q # p
  PROVE  Aimed(q)'
<1>1. rpc'[q] = rpc[q] /\ args'[q] = args[q] /\ cur'[q] = cur[q]
  BY DEF ForgeInv, ForgeTypes, ForgeRun, Start, Acquire, Busy, Refuse, Reject, Dispatch, UpdateEnds,
         CloneStarts, CloneConfigures, CloneSucceeds, CloneFails, Finish, KillRun,
         Go, Advance, Fail
<1>2. Target(q)' = Target(q)
  BY <1>1, TargetKept
<1>3. CASE Holds(p)
  <2>1. ~Holds(q)
    BY <1>3, Alone
  <2> QED
    BY <1>1, <2>1 DEF Aimed, Holds
<1>4. CASE ~Holds(p)
  <2>1. UNCHANGED <<dir, orphan>>
    BY <1>4 DEF ForgeRun, Holds, Start, Acquire, Busy, Refuse, Reject, Dispatch, UpdateEnds,
         CloneStarts, CloneConfigures, CloneSucceeds, CloneFails, Finish, KillRun, HasInput
  <2> QED
    BY <1>1, <1>2, <2>1 DEF Aimed, Dirs, ForgeInv, AllAimed
<1> QED
  BY <1>3, <1>4

LEMMA SelfAimed ==
  ASSUME ForgeInv, NEW p \in Run, ForgeRun(p)
  PROVE  Aimed(p)'
<1> USE DEF ForgeInv, ForgeTypes
<1>1. CASE rpc'[p] \notin {"spawn", "clone", "update"}
  BY <1>1 DEF Aimed
<1>2. CASE Dispatch(p)
  <2>1. Target(p)' = Target(p) /\ Dirs' = Dirs
    BY <1>2, TargetKept DEF Dispatch, Dirs
  <2> QED
    BY <1>2, <2>1 DEF Dispatch, Aimed, Go
<1>3. CASE CloneStarts(p)
  <2>1. Target(p)' = Target(p)
    BY <1>3, TargetKept DEF CloneStarts
  <2>2. Target(p) \in Dirs' /\ Target(p) \notin orphan' /\ dir'[Target(p)] = "empty"
    BY <1>3 DEF CloneStarts, Put, Dirs, Known
  <2> QED
    BY <1>3, <2>1, <2>2 DEF CloneStarts, Aimed, Go
<1>4. CASE CloneConfigures(p)
  <2>1. Target(p)' = Target(p)
    BY <1>4, TargetKept DEF CloneConfigures
  <2>2. Target(p) \in Dirs' /\ Target(p) \notin orphan' /\ dir'[Target(p)] = "partial"
    BY <1>4 DEF CloneConfigures, Put, Dirs, AllAimed, Aimed
  <2> QED
    BY <1>4, <2>1, <2>2 DEF CloneConfigures, Aimed
<1>5. CASE Start(p) \/ Acquire(p) \/ Busy(p) \/ Refuse(p) \/ Reject(p) \/ Finish(p) \/ KillRun(p)
           \/ (\E ok \in BOOLEAN : UpdateEnds(p, ok)) \/ CloneSucceeds(p) \/ CloneFails(p)
  <2>1. rpc'[p] \notin {"spawn", "clone", "update"}
    BY <1>5 DEF Start, Acquire, Busy, Refuse, Reject, Finish, KillRun, UpdateEnds, CloneSucceeds,
                CloneFails, Go, Advance
  <2> QED
    BY <1>1, <2>1
<1> QED
  BY <1>2, <1>3, <1>4, <1>5 DEF ForgeRun

LEMMA AimedKept ==
  ASSUME Flock, ForgeInv, [ForgeNext]_forgeVars
  PROVE  AllAimed'
<1>1. CASE UNCHANGED forgeVars
  <2> SUFFICES ASSUME NEW q \in Run
               PROVE  Aimed(q)'
    BY DEF AllAimed
  <2>1. Target(q)' = Target(q)
    BY <1>1, TargetKept DEF forgeVars
  <2> QED
    BY <1>1, <2>1 DEF forgeVars, ForgeInv, AllAimed, Aimed, Dirs
<1>2. ASSUME NEW p \in Run, ForgeRun(p)
      PROVE  AllAimed'
  BY <1>2, OthersAimed, SelfAimed DEF AllAimed
<1> QED
  BY <1>1, <1>2 DEF ForgeNext

\* An empty directory stays known: the clone that left it runs on, or is killed.
LEMMA KnownKept ==
  ASSUME Flock, ForgeInv, [ForgeNext]_forgeVars
  PROVE  Known'
<1> SUFFICES ASSUME NEW t \in Dirs', dir'[t] = "empty"
             PROVE  t \in orphan' \/ BeingCloned(t)'
  BY OrphansKept DEF Known
<1>1. CASE UNCHANGED forgeVars
  <2>1. t \in orphan \/ BeingCloned(t)
    BY <1>1 DEF forgeVars, ForgeInv, Known, Dirs
  <2>2. ASSUME NEW q \in Run, rpc[q] = "clone", Target(q) = t
        PROVE  BeingCloned(t)'
    BY <1>1, <2>2, TargetKept DEF forgeVars, BeingCloned
  <2> QED
    BY <1>1, <2>1, <2>2 DEF forgeVars, BeingCloned
<1>2. ASSUME NEW p \in Run, ForgeRun(p)
      PROVE  t \in orphan' \/ BeingCloned(t)'
  <2> USE DEF ForgeInv, ForgeTypes
  <2>1. ASSUME NEW q \in Run, q # p, rpc[q] = "clone", Target(q) = t
        PROVE  BeingCloned(t)'
    <3>1. rpc'[q] = rpc[q] /\ args'[q] = args[q] /\ cur'[q] = cur[q]
      BY <1>2, <2>1 DEF ForgeRun, Start, Acquire, Busy, Refuse, Reject, Dispatch, UpdateEnds,
         CloneStarts, CloneConfigures, CloneSucceeds, CloneFails, Finish, KillRun,
         Go, Advance, Fail
    <3> QED
      BY <2>1, <3>1, TargetKept DEF BeingCloned
  <2>2. CASE CloneStarts(p) /\ t = Target(p)
    <3>1. Target(p)' = t /\ rpc'[p] = "clone"
      BY <2>2, TargetKept DEF CloneStarts, Go
    <3> QED
      BY <3>1 DEF BeingCloned
  <2>3. CASE ~(CloneStarts(p) /\ t = Target(p))
    <3>1. t \in Dirs /\ dir[t] = "empty"
      BY <1>2, <2>3 DEF ForgeRun, Start, Acquire, Busy, Refuse, Reject, Dispatch, UpdateEnds,
         CloneStarts, CloneConfigures, CloneSucceeds, CloneFails, Finish, KillRun,
         Put, RemoveTarget, Dirs
    <3>2. CASE t \in orphan
      BY <3>2, OrphansKept, <1>2 DEF ForgeNext
    <3>3. CASE rpc[p] = "clone" /\ Target(p) = t
      <4>1. CASE KillRun(p)
        BY <3>1, <3>3, <4>1 DEF KillRun
      <4>2. CASE CloneConfigures(p)
        BY <3>3, <4>2 DEF CloneConfigures, Put, Dirs
      <4>3. CASE CloneSucceeds(p)
        BY <3>3, <4>3 DEF CloneSucceeds, Put, Dirs
      <4>4. CASE CloneFails(p)
        BY <3>3, <4>4 DEF CloneFails, RemoveTarget, Dirs
      <4> QED
        BY <1>2, <3>3, <4>1, <4>2, <4>3, <4>4 DEF ForgeRun, Start, Acquire, Busy, Refuse, Reject,
           Dispatch, UpdateEnds, CloneStarts, Finish, HasInput
    <3> QED
      BY <2>1, <3>1, <3>2, <3>3 DEF Known, BeingCloned
  <2> QED
    BY <2>2, <2>3
<1> QED
  BY <1>1, <1>2 DEF ForgeNext

\* What a run has behind it grows by the input it has just mirrored.
LEMMA BehindKept ==
  ASSUME Flock, ForgeInv, [ForgeNext]_forgeVars
  PROVE  AllBehind'
<1> SUFFICES ASSUME NEW q \in Run
             PROVE  Behind(q)'
  BY DEF AllBehind
<1> USE DEF ForgeInv, ForgeTypes
<1>1. Behind(q)
  BY DEF AllBehind
<1>2. ASSUME rpc'[q] = rpc[q], args'[q] = args[q], cur'[q] = cur[q], failed'[q] = failed[q]
      PROVE  Behind(q)'
  <2>1. \A i : Wanted(args[q], i)' = Wanted(args'[q], i)
    BY DEF Wanted
  <2> QED
    BY <1>1, <1>2, MirroredKept DEF Behind
<1>3. CASE UNCHANGED forgeVars
  BY <1>2, <1>3 DEF forgeVars
<1>4. ASSUME NEW p \in Run, ForgeRun(p), p # q
      PROVE  Behind(q)'
  <2>1. rpc'[q] = rpc[q] /\ args'[q] = args[q] /\ cur'[q] = cur[q] /\ failed'[q] = failed[q]
    BY <1>4 DEF ForgeRun, Start, Acquire, Busy, Refuse, Reject, Dispatch, UpdateEnds,
       CloneStarts, CloneConfigures, CloneSucceeds, CloneFails, Finish, KillRun,
       Go, Advance, Fail
  <2> QED
    BY <1>2, <2>1
<1>5. ASSUME ForgeRun(q)
      PROVE  Behind(q)'
  <2>1. Len(args[q].inputs) \in Nat
    BY ForgeAssumption DEF NoArgs
  <2>2. CASE Start(q)
    <3>1. cur'[q] = 1 /\ rpc'[q] = "wait" /\ args'[q] \in CommandLine
      BY <1>1, <2>2 DEF Start, Go, Behind
    <3> QED
      BY <3>1, ForgeAssumption DEF Behind
  <2>3. ASSUME args'[q] = args[q], cur'[q] = cur[q], failed'[q] = failed[q],
               rpc'[q] \notin {"start", "wait", "ok"}
        PROVE  Behind(q)'
    BY <1>1, <1>5, <2>3, MirroredKept DEF Behind, ForgeNext
  <2>4. CASE Acquire(q) \/ Busy(q) \/ Refuse(q) \/ Dispatch(q) \/ CloneStarts(q)
             \/ CloneConfigures(q) \/ KillRun(q)
    BY <2>3, <2>4 DEF Acquire, Busy, Refuse, Dispatch, CloneStarts, CloneConfigures, KillRun, Go
  <2>5. ASSUME failed'[q] = failed[q] + 1, rpc'[q] = "next"
        PROVE  Behind(q)'
    BY <2>5 DEF Behind
  <2>6. CASE Reject(q) \/ CloneFails(q) \/ UpdateEnds(q, FALSE)
    BY <2>5, <2>6 DEF Reject, CloneFails, UpdateEnds, Fail, Advance, Go
  <2>7. ASSUME args'[q] = args[q], cur'[q] = cur[q] + 1, failed'[q] = failed[q],
               rpc'[q] = "next", NEW t, t = Target(q), Mirrored(t)'
        PROVE  Behind(q)'
    <3>1. ASSUME failed[q] = 0, NEW i \in 1..Len(args[q].inputs), i < cur[q] + 1,
                 NEW w, w = Wanted(args[q], i)
          PROVE  Mirrored(w)'
      <4>1. CASE i = cur[q]
        BY <2>7, <3>1, <4>1 DEF Wanted, Target, Resolved
      <4>2. CASE i # cur[q]
        <5>1. Mirrored(w)
          BY <1>1, <2>1, <3>1, <4>2 DEF Behind
        <5> QED
          BY <1>5, <5>1, MirroredKept DEF ForgeNext
      <4> QED
        BY <4>1, <4>2
    <3>2. ASSUME failed[q] = 0, NEW i \in 1..Len(args[q].inputs), i < cur[q] + 1
          PROVE  LET w == resolve(args[q].inputs[i], args[q].transport).rel
                 IN w \in Dirs' /\ (dir'[w] = "whole" \/ w \in orphan')
      BY <3>1, <3>2 DEF Mirrored, Wanted
    <3> QED
      BY <2>7, <3>2 DEF Behind, Mirrored, Wanted
  <2>8. CASE UpdateEnds(q, TRUE)
    <3>1. ASSUME NEW t, t = Target(q)
          PROVE  Mirrored(t)'
      <4>1. t \in Dirs
        BY <2>8, <3>1 DEF UpdateEnds
      <4>2. CASE dir[t] = "empty"
        <5>1. ~BeingCloned(t)
          BY <2>8, Alone DEF BeingCloned, UpdateEnds, Holds
        <5>2. t \in orphan
          BY <4>1, <4>2, <5>1 DEF Known
        <5> QED
          BY <1>5, <4>1, <5>2, MirroredKept DEF Mirrored, ForgeNext
      <4>3. CASE dir[t] # "empty"
        BY <2>8, <3>1, <4>3 DEF UpdateEnds, Put, Mirrored, Dirs
      <4> QED
        BY <4>2, <4>3
    <3> QED
      BY <2>7, <2>8, <3>1 DEF UpdateEnds, Advance, Go
  <2>9. CASE CloneSucceeds(q)
    <3>1. ASSUME NEW t, t = Target(q)
          PROVE  Mirrored(t)'
      BY <2>9, <3>1 DEF CloneSucceeds, Put, Mirrored, Dirs
    <3> QED
      BY <2>7, <2>9, <3>1 DEF CloneSucceeds, Advance, Go
  <2>10. CASE Finish(q)
    <3>1. /\ args'[q] = args[q] /\ cur'[q] = cur[q] /\ failed'[q] = failed[q]
          /\ rpc'[q] = "ok" => failed[q] = 0 /\ cur[q] > Len(args[q].inputs)
          /\ rpc'[q] \in {"ok", "failed"}
      BY <2>10 DEF Finish, Go
    <3> QED
      BY <1>1, <1>5, <3>1, MirroredKept DEF Behind, ForgeNext
  <2> QED
    BY <1>5, <2>2, <2>4, <2>6, <2>8, <2>9, <2>10 DEF ForgeRun
<1> QED
  BY <1>3, <1>4, <1>5 DEF ForgeNext

-----------------------------------------------------------------------------
(* ForgeMirror: the theorems *)

\* The invariant of mirroring runs under the farm lock.
THEOREM ForgeInvariance == ASSUME Flock PROVE ForgeSpec => []ForgeInv
<1>1. ForgeInit => ForgeInv
  BY ForgeAssumption DEF ForgeInit, ForgeInv, ForgeTypes, Places, Locked, Holds, AllAimed, Aimed, Known,
     AllBehind, Behind, NoArgs, Dirs
<1>2. ForgeInv /\ [ForgeNext]_forgeVars => ForgeInv'
  BY TypesKept, LockedKept, AimedKept, KnownKept, BehindKept DEF ForgeInv
<1> QED
  BY <1>1, <1>2, PTL DEF ForgeSpec

\* With flock a whole mirror stays one, whatever runs fail or are killed beside it:
\* the rmSync behind a failed clone never hits another run's (MirrorsKept).
THEOREM WholeMirrorsStay == ASSUME Flock PROVE ForgeSpec => MirrorsKept
<1>1. ForgeInv /\ [ForgeNext]_forgeVars
        => [\A t \in Dirs : dir[t] = "whole" => t \in DOMAIN dir' /\ dir'[t] = "whole"]_forgeVars
  BY WholeKept DEF Dirs
<1> QED
  BY <1>1, ForgeInvariance, PTL DEF ForgeSpec, MirrorsKept

\* With flock exit status 0 says that every input has a whole mirror, but for a clone
\* that was killed before it had a configuration (ZeroMeansMirrored).
THEOREM ZeroIsMirrored == ASSUME Flock PROVE ForgeSpec => []ZeroMeansMirrored
<1>1. ForgeInv => ZeroMeansMirrored
  <2> SUFFICES ASSUME ForgeInv, NEW p \in Run, rpc[p] = "ok", NEW i \in 1..Len(args[p].inputs)
               PROVE  Mirrored(Wanted(args[p], i))
    BY DEF ZeroMeansMirrored, Mirrored, Wanted
  <2>1. Len(args[p].inputs) \in Nat /\ cur[p] \in Nat
    BY ForgeAssumption DEF ForgeInv, ForgeTypes, NoArgs
  <2> QED
    BY <2>1 DEF ForgeInv, AllBehind, Behind
<1> QED
  BY <1>1, ForgeInvariance, PTL

-----------------------------------------------------------------------------
(* ForgeMirror: the directories of the mirrors *)

\* Where a forge's repository goes: organisation, project by its slug, name.
Folder(o, i, n) == <<o, Or(slugFromProjectId(i, o), i), n>>

\* A link of the browser has no project id, so it names no directory.
LEMMA NoGlass ==
  ASSUME NEW u, NEW transport, u # Nil, OrgOf[u.host] # Nil, resolve(u, transport) # Nil
  PROVE  GlassRemote(u) = Nil
<1> DEFINE g == GlassRemote(u)
<1>1. g = Nil \/ g.projectId = Nil
  BY DEF GlassRemote, Remote
<1>2. g = Nil \/ parseSoftwareForgeRemote(u) = g
  BY DEF parseSoftwareForgeRemote, Or
<1> HIDE DEF g
<1>3. ASSUME g # Nil PROVE FALSE
  <2>1. parseSoftwareForgeRemote(u) = g /\ g.projectId = Nil
    BY <1>1, <1>2, <1>3
  <2> QED
    BY <1>3, <2>1 DEF resolve
<1> QED
  BY <1>3 DEF g

\* The directory of a forge's repository, spelled for ssh or for https.
LEMMA ForgeDirectory ==
  ASSUME NEW u \in Inputs, NEW transport, OnForge(u), resolve(u, transport) # Nil
  PROVE  /\ resolve(u, transport).rel = Folder(Named(u)[2], Named(u)[3], Named(u)[4])
         /\ Named(u) = <<"forge", Named(u)[2], Named(u)[3], Named(u)[4]>>
         /\ Named(u)[2] # Nil /\ Named(u)[3] # Nil
<1> DEFINE r == parseSoftwareForgeRemote(u)
           o == Named(u)[2]
           i == Named(u)[3]
           n == Named(u)[4]
<1>1. u # Nil /\ OrgOf[u.host] # Nil /\ u \in ForgeInput
  BY DEF Inputs, OnForge, ForgeInput
<1>2. /\ Len(u.path) \in Nat /\ \A k \in 1..Len(u.path) : u.path[k] # Nil
  BY NamesAssumption DEF NamesAssumption
<1>3. /\ Named(u) = <<"forge", o, i, n>> /\ o # Nil /\ i # Nil
      /\ ByPath(u) => o = u.path[1] /\ i = u.path[3] /\ n = stripGitSuffix(u.path[5])
      /\ ~ByPath(u) => BySsh(u) /\ o = OrgOf[u.host] /\ i = u.path[1] /\ n = stripGitSuffix(u.path[2])
  <2>1. CASE ByPath(u)
    <3>1. Named(u) = <<"forge", u.path[1], u.path[3], stripGitSuffix(u.path[5])>>
      BY <2>1 DEF Named
    <3>2. u.path[1] # Nil /\ u.path[3] # Nil
      BY <1>2, <2>1 DEF ByPath
    <3> QED
      BY <2>1, <3>1, <3>2
  <2>2. CASE ~ByPath(u)
    <3>1. BySsh(u) /\ Named(u) = <<"forge", OrgOf[u.host], u.path[1], stripGitSuffix(u.path[2])>>
      BY <2>2 DEF Named, OnForge
    <3>2. u.path[1] # Nil
      BY <1>2, <3>1 DEF BySsh
    <3> QED
      BY <1>1, <2>2, <3>1, <3>2
  <2> QED
    BY <2>1, <2>2
<1>4. i \in Project
  BY <1>1 DEF Project
<1> HIDE DEF o, i, n
<1> DEFINE Spelled(kind) == Remote(kind, u, o, i, slugFromProjectId(i, o), n)
<1>5. ASSUME NEW kind \in {"https", "ssh"} PROVE Spelled(kind) # Nil
  <2>1. Spelled(kind) \in ForgeRemote
    BY <1>1, <1>4 DEF ForgeRemote, Remote, slugFromProjectId, o, n
  <2> QED
    BY <2>1, NamesAssumption DEF NamesAssumption
<1>6. ByPath(u) => HttpsRemote(u) = Spelled("https")
  BY <1>2, <1>3 DEF ByPath, HttpsRemote, At
<1>7. ~ByPath(u) => HttpsRemote(u) = Nil /\ SshRemote(u) = Spelled("ssh")
  <2> SUFFICES ASSUME ~ByPath(u) PROVE HttpsRemote(u) = Nil /\ SshRemote(u) = Spelled("ssh")
    OBVIOUS
  <2>1. At(u.path, 5) = Nil /\ At(u.path, 2) = u.path[2]
    BY <1>3 DEF At, BySsh
  <2>2. HttpsRemote(u) = Nil
    BY <2>1 DEF HttpsRemote, stripGitSuffix
  <2>3. SshRemote(u) = Spelled("ssh")
    BY <1>3, <2>1 DEF SshRemote, BySsh
  <2> QED
    BY <2>2, <2>3
<1>8. r = Or(HttpsRemote(u), SshRemote(u))
  <2>1. GlassRemote(u) = Nil
    BY <1>1, NoGlass
  <2> QED
    BY <1>1, <2>1 DEF parseSoftwareForgeRemote, Or
<1>9. \E kind \in {"https", "ssh"} : r = Spelled(kind)
  BY <1>5, <1>6, <1>7, <1>8 DEF Or
<1>10. /\ r # Nil /\ r.projectId = i
       /\ softwareForgeMirrorRelPath(r) = Folder(o, i, n)
  <2>1. PICK kind \in {"https", "ssh"} : r = Spelled(kind)
    BY <1>9
  <2> HIDE DEF r
  <2>2. r.org = o /\ r.projectId = i /\ r.projectSlug = slugFromProjectId(i, o) /\ r.repo = n
    BY <2>1 DEF Remote
  <2>3. r # Nil
    BY <1>5, <2>1
  <2> QED
    BY <2>2, <2>3 DEF softwareForgeMirrorRelPath, Folder
<1>11. resolve(u, transport).rel = softwareForgeMirrorRelPath(r)
  <2> HIDE DEF r
  <2>1. resolve(u, transport) =
          [rel |-> softwareForgeMirrorRelPath(r),
           url |-> IF transport = "https" THEN softwareForgeHttpsUrl(r)
                   ELSE IF transport = "ssh" THEN softwareForgeSshUrl(r) ELSE u]
    BY <1>1, <1>3, <1>10 DEF resolve, r
  <2> QED
    BY <2>1
<1> QED
  BY <1>3, <1>10, <1>11 DEF o, i, n

\* Functions on an initial range that are equal have one range.
LEMMA RangeLength ==
  ASSUME NEW m \in Nat, NEW n \in Nat, NEW f, NEW g, f = g,
         f = [k \in 1..m |-> f[k]], g = [k \in 1..n |-> g[k]]
  PROVE  m = n
<1>1. DOMAIN f = 1..m /\ DOMAIN g = 1..n
  OBVIOUS
<1>2. 1..m = 1..n
  BY <1>1
<1> QED
  BY <1>2

\* What stands in a sequence between two elements.
Between(a, f, b) == <<a>> \o f \o <<b>>
LEMMA BetweenElements ==
  ASSUME NEW V, NEW f \in Seq(V), NEW a \in V, NEW b \in V
  PROVE  /\ Between(a, f, b) = [k \in 1..(Len(f) + 2) |-> Between(a, f, b)[k]]
         /\ Between(a, f, b)[1] = a
         /\ \A k \in 1..Len(f) : Between(a, f, b)[k + 1] = f[k]
         /\ Between(a, f, b)[Len(f) + 2] = b
<1> DEFINE x == <<a>>
           y == x \o f
           z == <<b>>
<1>1. x \in Seq(V) /\ Len(x) = 1 /\ x[1] = a /\ z \in Seq(V) /\ Len(z) = 1 /\ z[1] = b
  OBVIOUS
<1> HIDE DEF x, z
<1>2. /\ y \in Seq(V) /\ Len(y) = Len(x) + Len(f)
      /\ \A k \in 1..(Len(x) + Len(f)) : y[k] = IF k <= Len(x) THEN x[k] ELSE f[k - Len(x)]
  BY <1>1, ConcatProperties
<1>3. Len(f) \in Nat
  BY LenProperties
<1> HIDE DEF y
<1>4. y[1] = a /\ Len(y) = 1 + Len(f)
  BY <1>1, <1>2, <1>3
<1>5. ASSUME NEW k \in 1..Len(f) PROVE y[k + 1] = f[k]
  <2>1. k + 1 \in 1..(Len(x) + Len(f)) /\ ~(k + 1 <= Len(x)) /\ (k + 1) - Len(x) = k
    BY <1>1, <1>3
  <2> QED
    BY <1>2, <2>1
<1> DEFINE w == Between(a, f, b)
<1>6. w = y \o z /\ y \in Seq(V) /\ z \in Seq(V)
  BY <1>1, <1>2 DEF Between, x, y, z
<1> HIDE DEF w
<1>7. /\ w \in Seq(V) /\ Len(w) = Len(y) + Len(z)
      /\ \A k \in 1..(Len(y) + Len(z)) : w[k] = IF k <= Len(y) THEN y[k] ELSE z[k - Len(y)]
  BY <1>6, ConcatProperties
<1>8. w = [k \in 1..(Len(f) + 2) |-> w[k]]
  <2>1. w \in [1..Len(w) -> V] /\ Len(w) = Len(f) + 2
    BY <1>1, <1>3, <1>4, <1>7, LenProperties
  <2> QED
    BY <2>1
<1>9. w[1] = a
  BY <1>1, <1>3, <1>4, <1>7
<1>10. ASSUME NEW k \in 1..Len(f) PROVE w[k + 1] = f[k]
  <2>1. k + 1 \in 1..(Len(y) + Len(z)) /\ k + 1 <= Len(y)
    BY <1>1, <1>3, <1>4
  <2> QED
    BY <1>5, <1>7, <2>1
<1>11. w[Len(f) + 2] = b
  <2>1. Len(f) + 2 \in 1..(Len(y) + Len(z)) /\ ~(Len(f) + 2 <= Len(y)) /\ (Len(f) + 2) - Len(y) = 1
    BY <1>1, <1>3, <1>4
  <2> QED
    BY <1>1, <1>7, <2>1
<1> QED
  BY <1>8, <1>9, <1>10, <1>11 DEF w

\* The directory of a public forge's repository: its host and its path, less .git.
LEMMA PublicDirectory ==
  ASSUME NEW u \in Inputs, NEW transport, ~OnForge(u), resolve(u, transport) # Nil
  PROVE  /\ u.host \in Dotted /\ Len(u.path) \in Nat \ {0, 1}
         /\ resolve(u, transport).rel = [k \in 1..(Len(u.path) + 1) |-> resolve(u, transport).rel[k]]
         /\ resolve(u, transport).rel[1] = u.host
         /\ \A k \in 1..Len(u.path) : resolve(u, transport).rel[k + 1] =
              IF k = Len(u.path) THEN stripGitSuffix(u.path[k]) ELSE u.path[k]
<1> DEFINE r == parseSoftwareForgeRemote(u)
           n == Len(u.path)
           V == {u.path[k] : k \in 1..n} \cup {u.host, stripGitSuffix(u.path[n])}
           front == SubSeq(u.path, 1, n - 1)
<1>1. u # Nil /\ n \in Nat /\ u.path = [k \in 1..n |-> u.path[k]] /\ \A k \in 1..n : u.path[k] # Nil
  BY NamesAssumption DEF NamesAssumption, Inputs
<1>2. r = Nil
  <2>1. CASE OrgOf[u.host] = Nil
    BY <2>1 DEF parseSoftwareForgeRemote
  <2>2. CASE OrgOf[u.host] # Nil
    <3>1. GlassRemote(u) = Nil
      BY <1>1, <2>2, NoGlass
    <3>2. HttpsRemote(u) = Nil
      <4>1. At(u.path, 5) = Nil => stripGitSuffix(At(u.path, 5)) = Nil
        BY DEF stripGitSuffix
      <4>2. n >= 5 => At(u.path, 2) = u.path[2] /\ At(u.path, 4) = u.path[4] /\ At(u.path, 5) = u.path[5]
        BY <1>1 DEF At
      <4>3. ~(n >= 5) => At(u.path, 5) = Nil
        BY <1>1 DEF At
      <4> QED
        BY <2>2, <4>1, <4>2, <4>3 DEF HttpsRemote, OnForge, ByPath
    <3>3. SshRemote(u) = Nil
      BY <2>2 DEF SshRemote, OnForge, BySsh, At
    <3> QED
      BY <3>1, <3>2, <3>3 DEF parseSoftwareForgeRemote, Or
  <2> QED
    BY <2>1, <2>2
<1>3. parsePublicForgeUrl(u) # Nil /\ resolve(u, transport).rel = parsePublicForgeUrl(u)
  <2> DEFINE rel == parsePublicForgeUrl(u)
  <2>1. rel # Nil
    BY <1>1, <1>2 DEF resolve
  <2> HIDE DEF rel, r
  <2>2. resolve(u, transport) = [rel |-> rel, url |-> u]
    BY <1>1, <1>2, <2>1 DEF resolve, rel, r
  <2> QED
    BY <2>1, <2>2 DEF rel
<1>4. /\ u.host \in Dotted /\ n >= 2
      /\ parsePublicForgeUrl(u) = <<u.host>> \o front \o <<stripGitSuffix(u.path[n])>>
  BY <1>3 DEF parsePublicForgeUrl
<1>5. u.path \in Seq(V)
  BY <1>1
<1> HIDE DEF V, n
<1>6. /\ front \in Seq(V) /\ Len(front) = n - 1 /\ \A k \in 1..(n - 1) : front[k] = u.path[k]
  <2>1. 1 \in 1..Len(u.path) /\ n - 1 \in 1..Len(u.path)
    BY <1>1, <1>4 DEF n
  <2> QED
    BY <1>1, <1>4, <1>5, <2>1, SubSeqProperties DEF n
<1> HIDE DEF front
<1> DEFINE z == stripGitSuffix(u.path[n])
           rel == Between(u.host, front, z)
<1>7. u.host \in V /\ z \in V
  BY DEF V
<1>8. resolve(u, transport).rel = rel
  BY <1>3, <1>4 DEF Between
<1> HIDE DEF z
<1>9. /\ rel = [k \in 1..(Len(front) + 2) |-> rel[k]] /\ rel[1] = u.host
      /\ \A k \in 1..Len(front) : rel[k + 1] = front[k]
      /\ rel[Len(front) + 2] = z
  <2>1. front \in Seq(V) /\ u.host \in V /\ z \in V
    BY <1>6, <1>7
  <2> DEFINE h == u.host
  <2> HIDE DEF h
  <2>2. front \in Seq(V) /\ h \in V /\ z \in V
    BY <2>1 DEF h
  <2>3. /\ Between(h, front, z) = [k \in 1..(Len(front) + 2) |-> Between(h, front, z)[k]]
        /\ Between(h, front, z)[1] = h
        /\ \A k \in 1..Len(front) : Between(h, front, z)[k + 1] = front[k]
        /\ Between(h, front, z)[Len(front) + 2] = z
    BY <2>2, BetweenElements
  <2> QED
    BY <2>3 DEF h
<1> HIDE DEF rel
<1>10. Len(front) + 2 = n + 1
  BY <1>1, <1>6
<1>11. ASSUME NEW k \in 1..n PROVE rel[k + 1] = IF k = n THEN z ELSE u.path[k]
  <2>1. CASE k = n
    BY <1>9, <1>10, <2>1
  <2>2. CASE k # n
    <3>1. k \in 1..(n - 1)
      BY <1>1, <2>2
    <3> QED
      BY <1>6, <1>9, <2>2, <3>1
  <2> QED
    BY <2>1, <2>2
<1>12. n \in Nat \ {0, 1}
  BY <1>1, <1>4
<1>13. \A k \in 1..n : rel[k + 1] = IF k = n THEN stripGitSuffix(u.path[k]) ELSE u.path[k]
  BY <1>11 DEF z
<1> QED
  BY <1>4, <1>8, <1>9, <1>10, <1>12, <1>13 DEF n

\* Two projects of an organisation that share a folder share a slug.
LEMMA FoldersShared ==
  ASSUME NEW o, NEW i, NEW j,
         Or(slugFromProjectId(i, o), i) = Or(slugFromProjectId(j, o), j)
  PROVE  i = j \/ SameSlug(i, j)
BY DEF Or, slugFromProjectId, SameSlug

\* What a URL names determines its directory, and a directory a name but for namesakes.
LEMMA DirectoryNames ==
  ASSUME NEW u \in Inputs, NEW v \in Inputs, NEW s, NEW t,
         resolve(u, s) # Nil, resolve(v, t) # Nil
  PROVE  /\ Named(u) = Named(v) => resolve(u, s).rel = resolve(v, t).rel
         /\ resolve(u, s).rel = resolve(v, t).rel => Named(u) = Named(v) \/ Namesakes(u, v)
<1> DEFINE x == resolve(u, s).rel
           y == resolve(v, t).rel
<1>1. CASE OnForge(u) /\ OnForge(v)
  <2>3. /\ x = Folder(Named(u)[2], Named(u)[3], Named(u)[4])
        /\ Named(u) = <<"forge", Named(u)[2], Named(u)[3], Named(u)[4]>>
        /\ Named(u)[2] # Nil /\ Named(u)[3] # Nil
    BY <1>1, ForgeDirectory
  <2>4. /\ y = Folder(Named(v)[2], Named(v)[3], Named(v)[4])
        /\ Named(v) = <<"forge", Named(v)[2], Named(v)[3], Named(v)[4]>>
        /\ Named(v)[2] # Nil /\ Named(v)[3] # Nil
    BY <1>1, ForgeDirectory
  <2> HIDE DEF x, y
  <2>5. ASSUME x = y PROVE Named(u) = Named(v) \/ Namesakes(u, v)
    <3>1. /\ Named(u)[2] = Named(v)[2] /\ Named(u)[4] = Named(v)[4]
          /\ Or(slugFromProjectId(Named(u)[3], Named(u)[2]), Named(u)[3])
               = Or(slugFromProjectId(Named(v)[3], Named(u)[2]), Named(v)[3])
      BY <2>3, <2>4, <2>5 DEF Folder
    <3>2. Named(u)[3] = Named(v)[3] \/ SameSlug(Named(u)[3], Named(v)[3])
      BY <3>1, FoldersShared
    <3> QED
      BY <1>1, <2>3, <2>4, <3>1, <3>2 DEF Namesakes
  <2>6. Named(u) = Named(v) => x = y
    BY <2>3, <2>4
  <2> QED
    BY <2>5, <2>6 DEF x, y
<1>2. ASSUME NEW a \in Inputs, NEW b \in Inputs, NEW p, NEW q,
             resolve(a, p) # Nil, resolve(b, q) # Nil, OnForge(a), ~OnForge(b)
      PROVE  /\ Named(a) # Named(b)
             /\ resolve(a, p).rel = resolve(b, q).rel => Named(a)[2] = Named(b)[2]
  <2>1. /\ resolve(a, p).rel = Folder(Named(a)[2], Named(a)[3], Named(a)[4])
        /\ Named(a) = <<"forge", Named(a)[2], Named(a)[3], Named(a)[4]>>
    BY <1>2, ForgeDirectory
  <2>2. resolve(a, p).rel[1] = Named(a)[2]
    BY <2>1 DEF Folder
  <2>3. resolve(b, q).rel[1] = b.host
    BY <1>2, PublicDirectory
  <2>4. Named(b)[1] = "public" /\ Named(b)[2] = b.host /\ Named(a)[1] = "forge"
    BY <1>2, <2>1 DEF Named
  <2> QED
    BY <2>2, <2>3, <2>4
<1>3. CASE ~OnForge(u) /\ ~OnForge(v)
  <2> DEFINE m == Len(u.path)
             n == Len(v.path)
             g == [u.path EXCEPT ![m] = stripGitSuffix(@)]
             h == [v.path EXCEPT ![n] = stripGitSuffix(@)]
  <2>1. /\ m \in Nat \ {0, 1} /\ x = [k \in 1..(m + 1) |-> x[k]] /\ x[1] = u.host
        /\ \A k \in 1..m : x[k + 1] = IF k = m THEN stripGitSuffix(u.path[k]) ELSE u.path[k]
    BY <1>3, PublicDirectory
  <2>2. /\ n \in Nat \ {0, 1} /\ y = [k \in 1..(n + 1) |-> y[k]] /\ y[1] = v.host
        /\ \A k \in 1..n : y[k + 1] = IF k = n THEN stripGitSuffix(v.path[k]) ELSE v.path[k]
    BY <1>3, PublicDirectory
  <2>3. Named(u) = <<"public", u.host, u.port, g>> /\ Named(v) = <<"public", v.host, v.port, h>>
    BY <1>3 DEF Named
  <2>4. u.path = [k \in 1..m |-> u.path[k]] /\ v.path = [k \in 1..n |-> v.path[k]]
    BY NamesAssumption DEF NamesAssumption
  <2> HIDE DEF m, n, x, y
  <2>5. /\ g = [k \in 1..m |-> g[k]] /\ \A k \in 1..m : g[k] = x[k + 1]
        /\ h = [k \in 1..n |-> h[k]] /\ \A k \in 1..n : h[k] = y[k + 1]
    <3>1. g = [k \in 1..m |-> g[k]] /\ h = [k \in 1..n |-> h[k]]
      BY <2>4
    <3>2. \A k \in 1..m : g[k] = x[k + 1]
      BY <2>1, <2>4
    <3>3. \A k \in 1..n : h[k] = y[k + 1]
      BY <2>2, <2>4
    <3> HIDE DEF g, h
    <3> QED
      BY <3>1, <3>2, <3>3
  <2> HIDE DEF g, h
  <2>6. ASSUME x = y PROVE Named(u) = Named(v) \/ Namesakes(u, v)
    <3>1. m = n
      <4>1. m + 1 \in Nat /\ n + 1 \in Nat /\ x = [k \in 1..(m + 1) |-> x[k]] /\ y = [k \in 1..(n + 1) |-> y[k]]
        BY <2>1, <2>2
      <4> HIDE DEF x, y, m, n
      <4>2. m + 1 = n + 1
        BY ONLY <2>6, <4>1, RangeLength
      <4> QED
        BY <2>1, <2>2, <4>2
    <3>2. g = h
      BY <2>5, <2>6, <3>1
    <3>3. u.host = v.host
      BY <2>1, <2>2, <2>6
    <3> QED
      BY <1>3, <2>3, <3>2, <3>3 DEF Namesakes
  <2>7. ASSUME Named(u) = Named(v) PROVE x = y
    <3>1. u.host = v.host /\ g = h
      BY <2>3, <2>7
    <3>2. m = n
      <4>1. m \in Nat /\ n \in Nat /\ g = [k \in 1..m |-> g[k]] /\ h = [k \in 1..n |-> h[k]]
        BY <2>1, <2>2, <2>5
      <4> QED
        BY <3>1, <4>1, RangeLength
    <3>3. ASSUME NEW k \in 1..(m + 1) PROVE x[k] = y[k]
      <4>1. k = 1 \/ (k - 1 \in 1..m /\ (k - 1) + 1 = k)
        BY <2>1
      <4>2. CASE k = 1
        BY <2>1, <2>2, <3>1, <4>2
      <4>3. CASE k - 1 \in 1..m /\ (k - 1) + 1 = k
        <5>1. g[k - 1] = x[(k - 1) + 1] /\ h[k - 1] = y[(k - 1) + 1]
          BY <2>5, <3>2, <4>3
        <5> QED
          BY <3>1, <4>3, <5>1
      <4> QED
        BY <4>1, <4>2, <4>3
    <3> QED
      BY <2>1, <2>2, <3>2, <3>3
  <2> QED
    BY <2>6, <2>7 DEF x, y
<1>4. CASE OnForge(u) /\ ~OnForge(v)
  <2>1. Named(u) # Named(v) /\ (x = y => Named(u)[2] = Named(v)[2])
    BY <1>2, <1>4
  <2> QED
    BY <1>4, <2>1 DEF Namesakes
<1>5. CASE ~OnForge(u) /\ OnForge(v)
  <2>1. Named(v) # Named(u) /\ (y = x => Named(v)[2] = Named(u)[2])
    BY <1>2, <1>5
  <2> QED
    BY <1>5, <2>1 DEF Namesakes
<1> QED
  BY <1>1, <1>3, <1>4, <1>5

\* What a run was asked for is a command line, with flock and without.
Requested == args \in [Run -> CommandLine \cup {NoArgs}]

\* Whatever runs do, a repository has a single directory, and only namesakes share one
\* (software-forge-remotes.mjs, softwareForgeMirrorRelPath; forge-mirror.mjs,
\* parsePublicForgeUrl), for any URLs and any ids of projects.
THEOREM DirectoriesApart == ForgeSpec => []OneDirectoryEach
<1>1. ForgeInit => Requested
  BY DEF ForgeInit, Requested
<1>2. Requested /\ [ForgeNext]_forgeVars => Requested'
  <2> SUFFICES ASSUME Requested, [ForgeNext]_forgeVars PROVE Requested'
    OBVIOUS
  <2>1. args' = args \/ \E p \in Run, a \in CommandLine : args' = [args EXCEPT ![p] = a]
    BY DEF ForgeNext, ForgeRun, forgeVars, Start, Acquire, Busy, Refuse, Reject, Dispatch, UpdateEnds,
       CloneStarts, CloneConfigures, CloneSucceeds, CloneFails, Finish, KillRun
  <2> QED
    BY <2>1 DEF Requested
<1>3. Requested => OneDirectoryEach
  <2> SUFFICES ASSUME Requested, NEW p \in Run, NEW q \in Run,
                      NEW i \in 1..Len(args[p].inputs), NEW j \in 1..Len(args[q].inputs),
                      resolve(args[p].inputs[i], args[p].transport) # Nil,
                      resolve(args[q].inputs[j], args[q].transport) # Nil
               PROVE  LET u == args[p].inputs[i]
                          v == args[q].inputs[j]
                          x == resolve(u, args[p].transport)
                          y == resolve(v, args[q].transport)
                      IN /\ Named(u) = Named(v) => x.rel = y.rel
                         /\ x.rel = y.rel => Named(u) = Named(v) \/ Namesakes(u, v)
    BY DEF OneDirectoryEach
  <2>1. ASSUME NEW r \in Run, NEW k \in 1..Len(args[r].inputs),
               resolve(args[r].inputs[k], args[r].transport) # Nil
        PROVE  args[r].inputs[k] \in Inputs
    <3>1. args[r].inputs[k] # Nil
      BY <2>1 DEF resolve
    <3>2. args[r] \in CommandLine
      <4>1. args[r] # NoArgs
        BY <2>1 DEF NoArgs
      <4> QED
        BY <4>1 DEF Requested
    <3> QED
      BY <3>1, <3>2 DEF Inputs
  <2>2. args[p].inputs[i] \in Inputs /\ args[q].inputs[j] \in Inputs
    BY <2>1
  <2> QED
    BY <2>2, DirectoryNames
<1> QED
  BY <1>1, <1>2, <1>3, PTL DEF ForgeSpec

\* No clone lies below another: the farm of farm_nested is excluded.
NoNesting ==
  \A d, e \in DOMAIN Tree : Tree[d].git /\ Tree[e].git => ~IsAbove(d, e)

-----------------------------------------------------------------------------
(* Migration: the inductive invariant *)

Stages == {"idle", "begin", "clone", "verify"}

Positions == item \in [Slot -> Nat] /\ wat \in [Slot -> Stages]
MigTypes == todo \in Seq(DOMAIN Tree) /\ mnext \in Nat \ {0} /\ Positions

\* The run deletes clones and does not change them.
Subtree == DOMAIN tree \subseteq DOMAIN Tree /\ \A d \in DOMAIN tree : tree[d] = Tree[d]

\* The queue holds clones, each once.
Queue ==
  /\ \A i \in 1..Len(todo) : Tree[todo[i]].git
  /\ \A i, j \in 1..Len(todo) : todo[i] = todo[j] => i = j

\* What is queued or under way has its original, and one worker.
AtWork(w) == wat[w] # "idle"
Taken ==
  \A w \in Slot : AtWork(w) => item[w] \in 1..Len(todo) /\ item[w] < mnext
Apart ==
  \A v, w \in Slot : AtWork(v) /\ AtWork(w) /\ item[v] = item[w] => v = w
Present ==
  /\ \A w \in Slot : AtWork(w) => Clone(w) \in DOMAIN tree
  /\ \A i \in 1..Len(todo) : i >= mnext => todo[i] \in DOMAIN tree
Made == \A w \in Slot : wat[w] = "verify" => Clone(w) \in DOMAIN mirror
Running == mphase = "run" => Taken /\ Apart /\ Present /\ Made

\* What is gone has a whole mirror.
Gone ==
  \A d \in DOMAIN Tree \ DOMAIN tree :
    Tree[d].git => d \in DOMAIN mirror /\ mirror[d] = "whole"

MigrationInv == MigTypes /\ Subtree /\ Queue /\ Running /\ Gone

-----------------------------------------------------------------------------
(* The queue a run begins with *)

OnlyFound ==
  /\ todo' \in Seq(DOMAIN Tree)
  /\ \A i \in 1..Len(todo') : todo'[i] \in DOMAIN tree /\ Tree[todo'[i]].git
  /\ \A i, j \in 1..Len(todo') : todo'[i] = todo'[j] => i = j

LEMMA Found ==
  ASSUME MigrationInv, Begin
  PROVE  OnlyFound
<1>1. PICK o \in MigOptions, n \in 0..Len(Order) :
        LET chosen == Chosen(findCloneRoots(tree, o.maxDepth), o.only, o.exclude)
        IN  todo' \in [1..n -> chosen] /\ Sorted(Order, todo', chosen)
  BY DEF Begin
<1> DEFINE chosen == Chosen(findCloneRoots(tree, o.maxDepth), o.only, o.exclude)
<1>2. chosen \subseteq {d \in DOMAIN tree : Tree[d].git}
  BY DEF Chosen, findCloneRoots, MigrationInv, Subtree
<1>3. n \in Nat
  BY MigrationAssumption
<1>4. todo' \in Seq(chosen)
  BY <1>1, <1>3
<1> HIDE DEF chosen
<1>5. todo' \in Seq(DOMAIN Tree)
  BY <1>2, <1>4 DEF MigrationInv, Subtree
<1>6. \A i \in 1..Len(todo') : todo'[i] \in chosen
  BY <1>4
<1>7. ASSUME NEW i \in 1..Len(todo'), NEW j \in 1..Len(todo'), i < j
      PROVE  todo'[i] # todo'[j]
  <2>1. Sorted(Order, todo', chosen)
    BY <1>1 DEF chosen
  <2>2. PICK a \in 1..Len(Order), b \in 1..Len(Order) :
          a < b /\ Order[a] = todo'[i] /\ Order[b] = todo'[j]
    BY <2>1, <1>7 DEF Sorted
  <2> QED
    BY <2>2, MigrationAssumption
<1>8. \A i, j \in 1..Len(todo') : todo'[i] = todo'[j] => i = j
  <2> SUFFICES ASSUME NEW i \in 1..Len(todo'), NEW j \in 1..Len(todo'), i # j
               PROVE  todo'[i] # todo'[j]
    OBVIOUS
  <2>1. i < j \/ j < i
    BY <1>5
  <2> QED
    BY <2>1, <1>7
<1> QED
  BY <1>2, <1>5, <1>6, <1>8 DEF OnlyFound

\* Without nesting a clone takes no other clone along.
LEMMA OneGone ==
  ASSUME NoNesting, MigrationInv, NEW w \in Slot, item[w] \in 1..Len(todo),
         tree' = IF mo.deleteOriginals THEN [e \in DOMAIN tree \ Below(Clone(w)) |-> tree[e]]
                 ELSE tree
  PROVE  /\ \A d \in DOMAIN tree \ DOMAIN tree' : Tree[d].git => d = Clone(w)
         /\ \A i \in 1..Len(todo) :
              i # item[w] /\ todo[i] \in DOMAIN tree => todo[i] \in DOMAIN tree'
<1>1. Clone(w) \in DOMAIN Tree /\ Tree[Clone(w)].git
  BY DEF MigrationInv, MigTypes, Queue, Clone
<1>2. ASSUME NEW d \in DOMAIN tree, Tree[d].git, d \in Below(Clone(w))
      PROVE  d = Clone(w)
  BY <1>1, <1>2 DEF NoNesting, Below, MigrationInv, Subtree
<1>3. ASSUME NEW i \in 1..Len(todo), i # item[w], todo[i] \in DOMAIN tree
      PROVE  todo[i] \in DOMAIN tree'
  <2>1. Tree[todo[i]].git /\ todo[i] # Clone(w)
    BY <1>3 DEF MigrationInv, Queue, Clone
  <2> QED
    BY <1>2, <1>3, <2>1
<1> QED
  BY <1>2, <1>3

-----------------------------------------------------------------------------
(* Every step keeps the invariant *)

LEMMA MigTypesKept ==
  ASSUME MigrationInv, [MigrationNext]_migrationVars
  PROVE  MigTypes'
<1> USE DEF MigrationInv, MigTypes, Positions, Stages, mainRest, Step, Conclude
<1>1. CASE UNCHANGED migrationVars
  BY <1>1 DEF migrationVars
<1>2. CASE Begin
  <2>1. Positions' /\ mnext' \in Nat \ {0}
    BY <1>2 DEF Begin, Positions
  <2>2. todo' \in Seq(DOMAIN Tree)
    BY <1>2, Found DEF OnlyFound
  <2> QED
    BY <2>1, <2>2 DEF Positions
<1>3. CASE MigrationEnds
  BY <1>3 DEF MigrationEnds
<1>4. CASE MigrationKilled
  BY <1>4 DEF MigrationKilled
<1>5. ASSUME NEW w \in Slot, Convert(w)
      PROVE  MigTypes'
  <2>1. CASE PoolTake(w)
    BY <2>1 DEF PoolTake
  <2>2. CASE Skip(w)
    BY <2>2 DEF Skip
  <2>3. CASE BeginClone(w)
    BY <2>3 DEF BeginClone
  <2>4. CASE Throws(w)
    BY <2>4 DEF Throws
  <2>5. CASE CloneRefused(w)
    BY <2>5 DEF CloneRefused
  <2>6. CASE \E got \in {"broken", "whole"} : Cloned(w, got)
    BY <2>6 DEF Cloned
  <2>7. CASE Unverified(w)
    BY <2>7 DEF Unverified
  <2>8. CASE Verified(w)
    BY <2>8 DEF Verified
  <2> QED
    BY <1>5, <2>1, <2>2, <2>3, <2>4, <2>5, <2>6, <2>7, <2>8 DEF Convert
<1> QED
  BY <1>1, <1>2, <1>3, <1>4, <1>5 DEF MigrationNext

LEMMA SubtreeKept ==
  ASSUME MigrationInv, [MigrationNext]_migrationVars
  PROVE  Subtree'
<1> USE DEF MigrationInv, Subtree, mainRest, Step, Conclude
<1>1. CASE UNCHANGED migrationVars
  BY <1>1 DEF migrationVars
<1>2. CASE Begin
  BY <1>2 DEF Begin
<1>3. CASE MigrationEnds
  BY <1>3 DEF MigrationEnds
<1>4. CASE MigrationKilled
  BY <1>4 DEF MigrationKilled
<1>5. ASSUME NEW w \in Slot, Convert(w)
      PROVE  Subtree'
  <2>1. CASE PoolTake(w)
    BY <2>1 DEF PoolTake
  <2>2. CASE Skip(w)
    BY <2>2 DEF Skip
  <2>3. CASE BeginClone(w)
    BY <2>3 DEF BeginClone
  <2>4. CASE Throws(w)
    BY <2>4 DEF Throws
  <2>5. CASE CloneRefused(w)
    BY <2>5 DEF CloneRefused
  <2>6. CASE \E got \in {"broken", "whole"} : Cloned(w, got)
    BY <2>6 DEF Cloned
  <2>7. CASE Unverified(w)
    BY <2>7 DEF Unverified
  <2>8. CASE Verified(w)
    BY <2>8 DEF Verified
  <2> QED
    BY <1>5, <2>1, <2>2, <2>3, <2>4, <2>5, <2>6, <2>7, <2>8 DEF Convert
<1> QED
  BY <1>1, <1>2, <1>3, <1>4, <1>5 DEF MigrationNext

LEMMA QueueKept ==
  ASSUME MigrationInv, [MigrationNext]_migrationVars
  PROVE  Queue'
<1> USE DEF MigrationInv, Queue, mainRest, Step, Conclude
<1>1. CASE UNCHANGED migrationVars
  BY <1>1 DEF migrationVars
<1>2. CASE Begin
  BY <1>2, Found DEF OnlyFound
<1>3. CASE MigrationEnds
  BY <1>3 DEF MigrationEnds
<1>4. CASE MigrationKilled
  BY <1>4 DEF MigrationKilled
<1>5. ASSUME NEW w \in Slot, Convert(w)
      PROVE  Queue'
  <2>1. CASE PoolTake(w)
    BY <2>1 DEF PoolTake
  <2>2. CASE Skip(w)
    BY <2>2 DEF Skip
  <2>3. CASE BeginClone(w)
    BY <2>3 DEF BeginClone
  <2>4. CASE Throws(w)
    BY <2>4 DEF Throws
  <2>5. CASE CloneRefused(w)
    BY <2>5 DEF CloneRefused
  <2>6. CASE \E got \in {"broken", "whole"} : Cloned(w, got)
    BY <2>6 DEF Cloned
  <2>7. CASE Unverified(w)
    BY <2>7 DEF Unverified
  <2>8. CASE Verified(w)
    BY <2>8 DEF Verified
  <2> QED
    BY <1>5, <2>1, <2>2, <2>3, <2>4, <2>5, <2>6, <2>7, <2>8 DEF Convert
<1> QED
  BY <1>1, <1>2, <1>3, <1>4, <1>5 DEF MigrationNext

LEMMA TakenKept ==
  ASSUME MigrationInv, [MigrationNext]_migrationVars
  PROVE  (mphase = "run" => Taken)'
<1> USE DEF MigrationInv, MigTypes, Positions, Running, Taken, AtWork, mainRest, Step, Conclude
<1>1. CASE UNCHANGED migrationVars
  BY <1>1 DEF migrationVars
<1>2. CASE Begin
  BY <1>2 DEF Begin
<1>3. CASE MigrationEnds
  BY <1>3 DEF MigrationEnds
<1>4. CASE MigrationKilled
  BY <1>4 DEF MigrationKilled
<1>5. ASSUME NEW w \in Slot, Convert(w)
      PROVE  (mphase = "run" => Taken)'
  <2>1. CASE PoolTake(w)
    BY <2>1 DEF PoolTake
  <2>2. CASE Skip(w)
    BY <2>2 DEF Skip
  <2>3. CASE BeginClone(w)
    BY <2>3 DEF BeginClone
  <2>4. CASE Throws(w)
    BY <2>4 DEF Throws
  <2>5. CASE CloneRefused(w)
    BY <2>5 DEF CloneRefused
  <2>6. CASE \E got \in {"broken", "whole"} : Cloned(w, got)
    BY <2>6 DEF Cloned
  <2>7. CASE Unverified(w)
    BY <2>7 DEF Unverified
  <2>8. CASE Verified(w)
    BY <2>8 DEF Verified
  <2> QED
    BY <1>5, <2>1, <2>2, <2>3, <2>4, <2>5, <2>6, <2>7, <2>8 DEF Convert
<1> QED
  BY <1>1, <1>2, <1>3, <1>4, <1>5 DEF MigrationNext

LEMMA ApartKept ==
  ASSUME MigrationInv, [MigrationNext]_migrationVars
  PROVE  (mphase = "run" => Apart)'
<1> USE DEF MigrationInv, MigTypes, Positions, Running, Taken, Apart, AtWork, mainRest, Step, Conclude
<1>1. CASE UNCHANGED migrationVars
  BY <1>1 DEF migrationVars
<1>2. CASE Begin
  BY <1>2 DEF Begin
<1>3. CASE MigrationEnds
  BY <1>3 DEF MigrationEnds
<1>4. CASE MigrationKilled
  BY <1>4 DEF MigrationKilled
<1>5. ASSUME NEW w \in Slot, Convert(w)
      PROVE  (mphase = "run" => Apart)'
  <2>1. CASE PoolTake(w)
    BY <2>1 DEF PoolTake
  <2>2. CASE Skip(w)
    BY <2>2 DEF Skip
  <2>3. CASE BeginClone(w)
    BY <2>3 DEF BeginClone
  <2>4. CASE Throws(w)
    BY <2>4 DEF Throws
  <2>5. CASE CloneRefused(w)
    BY <2>5 DEF CloneRefused
  <2>6. CASE \E got \in {"broken", "whole"} : Cloned(w, got)
    BY <2>6 DEF Cloned
  <2>7. CASE Unverified(w)
    BY <2>7 DEF Unverified
  <2>8. CASE Verified(w)
    BY <2>8 DEF Verified
  <2> QED
    BY <1>5, <2>1, <2>2, <2>3, <2>4, <2>5, <2>6, <2>7, <2>8 DEF Convert
<1> QED
  BY <1>1, <1>2, <1>3, <1>4, <1>5 DEF MigrationNext

LEMMA PresentKept ==
  ASSUME NoNesting, MigrationInv, [MigrationNext]_migrationVars
  PROVE  (mphase = "run" => Present)'
<1> USE DEF MigrationInv, MigTypes, Positions, Running, Taken, Present, AtWork, Clone, mainRest, Step, Conclude
<1>1. CASE UNCHANGED migrationVars
  BY <1>1 DEF migrationVars
<1>2. CASE Begin
  BY <1>2, Found DEF Begin, OnlyFound
<1>3. CASE MigrationEnds
  BY <1>3 DEF MigrationEnds
<1>4. CASE MigrationKilled
  BY <1>4 DEF MigrationKilled
<1>5. ASSUME NEW w \in Slot, Convert(w)
      PROVE  (mphase = "run" => Present)'
  <2>1. CASE PoolTake(w)
    BY <2>1 DEF PoolTake
  <2>2. CASE Skip(w)
    BY <2>2 DEF Skip
  <2>3. CASE BeginClone(w)
    BY <2>3 DEF BeginClone
  <2>4. CASE Throws(w)
    BY <2>4 DEF Throws
  <2>5. CASE CloneRefused(w)
    BY <2>5 DEF CloneRefused
  <2>6. CASE \E got \in {"broken", "whole"} : Cloned(w, got)
    BY <2>6 DEF Cloned
  <2>7. CASE Unverified(w)
    BY <2>7 DEF Unverified
  <2>8. CASE Verified(w)
    <3> SUFFICES ASSUME mphase = "run"
                 PROVE  Present'
      BY <2>8 DEF Verified
    <3>1. item[w] \in 1..Len(todo) /\ item[w] < mnext
      BY <2>8 DEF Verified
    <3>2. \A i \in 1..Len(todo) : i # item[w] /\ todo[i] \in DOMAIN tree => todo[i] \in DOMAIN tree'
      BY <2>8, <3>1, OneGone DEF Verified, Clone
    <3>3. \A v \in Slot : AtWork(v)' => v # w /\ AtWork(v) /\ item'[v] = item[v] /\ item[v] # item[w]
      BY <2>8 DEF Verified, Apart
    <3>4. \A v \in Slot : AtWork(v)' => Clone(v)' \in DOMAIN tree'
      BY <2>8, <3>2, <3>3 DEF Verified
    <3>5. \A i \in 1..Len(todo') : i >= mnext' => todo'[i] \in DOMAIN tree'
      BY <2>8, <3>1, <3>2 DEF Verified
    <3> QED
      BY <3>4, <3>5
  <2> QED
    BY <1>5, <2>1, <2>2, <2>3, <2>4, <2>5, <2>6, <2>7, <2>8 DEF Convert
<1> QED
  BY <1>1, <1>2, <1>3, <1>4, <1>5 DEF MigrationNext

LEMMA MadeKept ==
  ASSUME MigrationInv, [MigrationNext]_migrationVars
  PROVE  (mphase = "run" => Made)'
<1> USE DEF MigrationInv, MigTypes, Positions, Running, Taken, Made, AtWork, Clone, mainRest, Step, Conclude, Set
<1>1. CASE UNCHANGED migrationVars
  BY <1>1 DEF migrationVars
<1>2. CASE Begin
  BY <1>2 DEF Begin
<1>3. CASE MigrationEnds
  BY <1>3 DEF MigrationEnds
<1>4. CASE MigrationKilled
  BY <1>4 DEF MigrationKilled
<1>5. ASSUME NEW w \in Slot, Convert(w)
      PROVE  (mphase = "run" => Made)'
  <2>1. CASE PoolTake(w)
    BY <2>1 DEF PoolTake
  <2>2. CASE Skip(w)
    BY <2>2 DEF Skip
  <2>3. CASE BeginClone(w)
    BY <2>3 DEF BeginClone
  <2>4. CASE Throws(w)
    BY <2>4 DEF Throws
  <2>5. CASE CloneRefused(w)
    <3> SUFFICES ASSUME mphase = "run", NEW v \in Slot, wat'[v] = "verify"
                 PROVE  Clone(v)' \in DOMAIN mirror'
      BY <2>5 DEF CloneRefused
    <3>1. v # w /\ wat[v] = "verify" /\ item'[v] = item[v] /\ wat[w] = "clone"
      BY <2>5 DEF CloneRefused
    <3>2. item[v] # item[w]
      BY <3>1 DEF Apart
    <3>3. todo[item[v]] # todo[item[w]]
      BY <3>1, <3>2, item[v] \in 1..Len(todo), item[w] \in 1..Len(todo) DEF Queue
    <3> QED
      BY <2>5, <3>1, <3>3 DEF CloneRefused, Drop
  <2>6. CASE \E got \in {"broken", "whole"} : Cloned(w, got)
    BY <2>6 DEF Cloned
  <2>7. CASE Unverified(w)
    BY <2>7 DEF Unverified
  <2>8. CASE Verified(w)
    BY <2>8 DEF Verified
  <2> QED
    BY <1>5, <2>1, <2>2, <2>3, <2>4, <2>5, <2>6, <2>7, <2>8 DEF Convert
<1> QED
  BY <1>1, <1>2, <1>3, <1>4, <1>5 DEF MigrationNext

LEMMA GoneKept ==
  ASSUME NoNesting, MigrationInv, [MigrationNext]_migrationVars
  PROVE  Gone'
<1> USE DEF MigrationInv, MigTypes, Positions, Running, Taken, Gone, AtWork, Subtree, mainRest, Step, Conclude, Set
<1>1. CASE UNCHANGED migrationVars
  BY <1>1 DEF migrationVars
<1>2. CASE Begin
  BY <1>2 DEF Begin
<1>3. CASE MigrationEnds
  BY <1>3 DEF MigrationEnds
<1>4. CASE MigrationKilled
  BY <1>4 DEF MigrationKilled
<1>5. ASSUME NEW w \in Slot, Convert(w)
      PROVE  Gone'
  <2>1. CASE PoolTake(w)
    BY <2>1 DEF PoolTake
  <2>2. CASE Skip(w)
    BY <2>2 DEF Skip
  <2>3. CASE BeginClone(w)
    BY <2>3 DEF BeginClone, Present
  <2>4. CASE Throws(w)
    BY <2>4 DEF Throws
  <2>5. CASE CloneRefused(w)
    BY <2>5 DEF CloneRefused, Present, Drop
  <2>6. CASE \E got \in {"broken", "whole"} : Cloned(w, got)
    BY <2>6 DEF Cloned, Present
  <2>7. CASE Unverified(w)
    BY <2>7 DEF Unverified
  <2>8. CASE Verified(w)
    <3>1. item[w] \in 1..Len(todo) /\ Clone(w) \in DOMAIN mirror /\ mirror[Clone(w)] = "whole"
      BY <2>8 DEF Verified, Made
    <3>2. \A d \in DOMAIN tree \ DOMAIN tree' : Tree[d].git => d = Clone(w)
      BY <2>8, <3>1, OneGone DEF Verified
    <3> QED
      BY <2>8, <3>1, <3>2 DEF Verified
  <2> QED
    BY <1>5, <2>1, <2>2, <2>3, <2>4, <2>5, <2>6, <2>7, <2>8 DEF Convert
<1> QED
  BY <1>1, <1>2, <1>3, <1>4, <1>5 DEF MigrationNext

-----------------------------------------------------------------------------
(* The invariant of every behaviour, and what it implies *)

\* On a farm without a clone inside another, a clone is deleted only behind a whole
\* mirror, however the run was killed, repeated and with what options: the promise of
\* migrate-to-bare.mjs, for any tree, pool and command lines.
THEOREM MigrationKeeps ==
  ASSUME NoNesting
  PROVE  MigrationSpec => []OriginalsKept
<1>1. MigrationInit => MigrationInv
  BY DEF MigrationInit, MigrationInv, MigTypes, Positions, Stages, Subtree, Queue, Running, Gone
<1>2. MigrationInv /\ [MigrationNext]_migrationVars => MigrationInv'
  <2> SUFFICES ASSUME MigrationInv, [MigrationNext]_migrationVars
               PROVE  MigrationInv'
    OBVIOUS
  <2>1. MigTypes' /\ Subtree' /\ Queue' /\ Gone'
    BY MigTypesKept, SubtreeKept, QueueKept, GoneKept
  <2>2. Running'
    BY TakenKept, ApartKept, PresentKept, MadeKept DEF Running
  <2> QED
    BY <2>1, <2>2 DEF MigrationInv
<1>3. MigrationInv => OriginalsKept
  BY DEF MigrationInv, Gone, OriginalsKept, findCloneRoots
<1> QED
  BY <1>1, <1>2, <1>3, PTL DEF MigrationSpec

-----------------------------------------------------------------------------
(* ReferenceSearch: the state of an index run *)

Cursor ==
  /\ scur \in Nat \ {0} /\ job \in [Job -> Nat]
  /\ mirrors \in Seq(DOMAIN Farm)
  /\ \A w \in Job : job[w] # 0 => sphase = "index"

\* What was taken off the list has a result or is under way, and a good result has an
\* index.
Accounted ==
  /\ \A i \in 1..Len(mirrors) : i < scur => i \in DOMAIN indexed \/ \E w \in Job : job[w] = i
  /\ \A i \in DOMAIN indexed : indexed[i] => i \in shard

\* The container is asked when the server has said nothing, or broke off.
Heard ==
  \/ heard = "nothing" /\ answers = <<>>
  \/ heard = "broken" /\ ~cmd.json /\ \E k \in 0..Len(Told) : answers = SubSeq(Told, 1, k)

\* Nothing has been printed or looked for before the command says so.
Asked ==
  /\ sphase = "start" => mirrors = <<>> /\ scur = 1 /\ indexed = <<>>
  /\ sphase = "start" \/ sphase = "index" => status = 0
  /\ sphase = "index" => cmd.sub = "index"
  /\ sphase \in {"start", "ask"} => heard = "nothing" /\ answers = <<>>
  /\ sphase \in {"ask", "oneshot"} => cmd.sub = "query"
  /\ sphase = "oneshot" => Heard
  /\ sphase = "serve" => cmd.sub = "serve"

SearchInv == Cursor /\ Accounted /\ Asked /\ ZeroMeansAnswered

\* The list a run begins with is a list of mirrors.
LEMMA ListTyped ==
  ASSUME Cursor, SearchBegins
  PROVE  mirrors' \in Seq(DOMAIN Farm)
<1>1. CASE UNCHANGED mirrors
  BY <1>1 DEF Cursor
<1>2. ASSUME NEW c, NEW n \in Nat, NEW kept,
             kept = Chosen(findBareMirrors(Farm, c.maxDepth), c.only, c.exclude),
             mirrors' \in [1..n -> kept]
      PROVE  mirrors' \in Seq(DOMAIN Farm)
  <2>1. kept \subseteq DOMAIN Farm
    BY <1>2 DEF Chosen, findBareMirrors
  <2>2. \A i \in 1..n : mirrors'[i] \in DOMAIN Farm
    BY <1>2, <2>1
  <2>3. mirrors' \in [1..n -> DOMAIN Farm]
    BY <1>2, <2>2
  <2> QED
    BY <2>3
<1> QED
  BY <1>1, <1>2 DEF SearchBegins, IndexBegins, ServeBegins, QueryBegins

\* A command that ends at once has said so, or there was nothing to do.
LEMMA BeginsAsked ==
  ASSUME SearchInv, SearchBegins
  PROVE  SearchInv'
<1> USE DEF SearchInv, Cursor
<1>1. Cursor'
  BY ListTyped DEF SearchBegins
<1>2. Accounted'
  BY DEF Accounted, SearchBegins, Asked
<1>3. Asked' /\ ZeroMeansAnswered'
  <2> USE DEF Asked, ZeroMeansAnswered
  <2>1. PICK c \in Command, host \in Tool :
          /\ cmd' = c
          /\ \/ IndexBegins(c, host) \/ ServeBegins(c, host) \/ QueryBegins(c, host)
             \/ c.sub = "help" /\ Exit(0) /\ UNCHANGED mirrors
             \/ c.sub # "help" /\ Aborts /\ UNCHANGED mirrors
    BY DEF SearchBegins
  <2>2. sphase = "start" /\ UNCHANGED <<scur, job, indexed, shard, heard, answers>>
    BY DEF SearchBegins
  <2>3. CASE IndexBegins(c, host)
    BY <2>1, <2>2, <2>3 DEF IndexBegins, Exit, Aborts
  <2>4. CASE ServeBegins(c, host) \/ QueryBegins(c, host)
    BY <2>1, <2>2, <2>4 DEF ServeBegins, QueryBegins, Exit, Aborts, Heard
  <2> QED
    BY <2>1, <2>2, <2>3, <2>4 DEF Exit, Aborts
<1> QED
  BY <1>1, <1>2, <1>3

\* A container that ends leaves a result, and its worker free.
LEMMA IndexCounted ==
  ASSUME SearchInv, NEW w \in Job, IndexEnds(w, TRUE) \/ IndexEnds(w, FALSE)
  PROVE  SearchInv'
<1> USE DEF SearchInv
<1>1. /\ job[w] \in Nat /\ job[w] # 0 /\ job' = [job EXCEPT ![w] = 0]
      /\ UNCHANGED <<sphase, cmd, tool, mirrors, scur, heard, answers, status>>
      /\ DOMAIN indexed' = DOMAIN indexed \cup {job[w]} /\ shard \subseteq shard'
      /\ \A i \in DOMAIN indexed : i # job[w] => indexed'[i] = indexed[i]
      /\ indexed'[job[w]] => job[w] \in shard'
  <2>1. CASE IndexEnds(w, TRUE)
    BY <2>1 DEF IndexEnds, Cursor
  <2>2. CASE IndexEnds(w, FALSE)
    BY <2>2 DEF IndexEnds, Cursor
  <2> QED
    BY <2>1, <2>2
<1>2. Cursor' /\ Asked'
  BY <1>1 DEF Cursor, Asked
<1>3. \A i \in 1..Len(mirrors) : i < scur => i \in DOMAIN indexed' \/ \E v \in Job : job'[v] = i
  BY <1>1 DEF Cursor, Accounted
<1>4. \A i \in DOMAIN indexed' : indexed'[i] => i \in shard'
  BY <1>1 DEF Accounted
<1>5. ZeroMeansAnswered'
  BY <1>1 DEF Cursor, ZeroMeansAnswered
<1> QED
  BY <1>1, <1>2, <1>3, <1>4, <1>5 DEF Accounted

\* A body that breaks off leaves its first lines, and the container to ask.
LEMMA PrintedPart ==
  ASSUME SearchInv, NEW k \in 0..Len(Told), PrintBreaks(k)
  PROVE  SearchInv'
<1> USE DEF SearchInv
<1>1. /\ sphase = "ask" /\ ~cmd.json /\ heard' = "broken" /\ answers' = SubSeq(Told, 1, k)
      /\ sphase' \in {"oneshot", "aborted"} /\ (sphase' = "oneshot" => status' = status)
      /\ UNCHANGED <<cmd, tool, mirrors, scur, job, indexed, shard>>
  BY DEF PrintBreaks, FallsBack, Aborts
<1>2. Told' = Told
  BY <1>1 DEF Told
<1>3. Heard'
  BY <1>1, <1>2 DEF Heard
<1>4. Cursor' /\ Accounted'
  BY <1>1 DEF Cursor, Accounted
<1>5. Asked' /\ ZeroMeansAnswered'
  BY <1>1, <1>3 DEF Asked, ZeroMeansAnswered
<1> QED
  BY <1>4, <1>5

\* The container prints all lines, behind those of a body that broke off.
LEMMA PrintedAll ==
  ASSUME SearchInv, NEW code \in {0, 1, 127}, OneShot(code)
  PROVE  SearchInv'
<1> USE DEF SearchInv
<1>1. /\ sphase = "oneshot" /\ sphase' = "exit" /\ status' = code
      /\ code = 0 => answers' = answers \o Lines
      /\ UNCHANGED <<cmd, tool, mirrors, scur, job, indexed, shard, heard>>
  BY DEF OneShot, Exit
<1>2. Told' = Told
  BY <1>1 DEF Told
<1>3. Cursor' /\ Accounted' /\ Asked'
  BY <1>1 DEF Cursor, Accounted, Asked
<1>4. cmd.sub = "query" /\ Heard
  BY <1>1 DEF Asked
<1>5. ASSUME code = 0 PROVE ZeroMeansAnswered'
  <2>1. <<>> \o Lines = Lines
    BY SearchAssumption
  <2>2. CASE heard = "nothing" /\ answers = <<>>
    BY <1>1, <1>4, <1>5, <2>1, <2>2 DEF ZeroMeansAnswered
  <2>3. CASE heard = "broken" /\ \E k \in 0..Len(Told) : answers = SubSeq(Told, 1, k)
    <3>1. \E k \in 0..Len(Told) : answers' = SubSeq(Told, 1, k) \o Lines
      BY <1>1, <1>5, <2>3
    <3> QED
      BY <1>1, <1>2, <1>4, <2>3, <3>1 DEF ZeroMeansAnswered
  <2> QED
    BY <1>4, <2>2, <2>3 DEF Heard
<1>6. code # 0 => ZeroMeansAnswered'
  BY <1>1 DEF ZeroMeansAnswered
<1> QED
  BY <1>3, <1>5, <1>6

LEMMA SearchStep ==
  ASSUME SearchInv, [SearchNext]_searchVars
  PROVE  SearchInv'
<1> USE DEF SearchInv, Cursor, Accounted, Asked, ZeroMeansAnswered
<1>1. CASE SearchBegins
  BY <1>1, BeginsAsked
<1>2. ASSUME NEW w \in Job, IndexStarts(w)
      PROVE  SearchInv'
  BY <1>2 DEF IndexStarts
<1>3. ASSUME NEW w \in Job, IndexEnds(w, TRUE) \/ IndexEnds(w, FALSE)
      PROVE  SearchInv'
  BY <1>3, IndexCounted
<1>4. CASE IndexSummary
  BY <1>4 DEF IndexSummary, Exit, searchRest
<1>5. CASE ServerAnswers
  BY <1>5 DEF ServerAnswers, Exit, Told
<1>6. CASE ServerFails
  BY <1>6 DEF ServerFails, FallsBack, Aborts, searchRest, Heard
<1>7. ASSUME NEW code \in {0, 1, 127}, OneShot(code)
      PROVE  SearchInv'
  BY <1>7, PrintedAll
<1>8. ASSUME NEW code \in {0, 1, 127}, ServeEnds(code)
      PROVE  SearchInv'
  BY <1>8 DEF ServeEnds, Exit, searchRest
<1>9. CASE UNCHANGED searchVars
  BY <1>9 DEF searchVars, Heard, Told
<1>10. ASSUME NEW k \in 0..Len(Told), PrintBreaks(k)
       PROVE  SearchInv'
  BY <1>10, PrintedPart
<1> QED
  BY <1>1, <1>2, <1>3, <1>4, <1>5, <1>6, <1>7, <1>8, <1>9, <1>10 DEF SearchNext

\* What exit status 0 of the search says holds whatever is asked, however the pool's
\* containers end and in whatever order, and whether the server answers, answers in part
\* or does not (cmdIndex, indexOne, cmdQuery).
THEOREM ZeroIsAnswered == SearchSpec => []ZeroMeansAnswered
<1>1. SearchInit => SearchInv
  BY DEF SearchInit, SearchInv, Cursor, Accounted, Asked, ZeroMeansAnswered, NoCommand
<1> QED
  BY <1>1, SearchStep, PTL DEF SearchSpec, SearchInv

-----------------------------------------------------------------------------
(* Induction over data *)

\* A set of numbers that is not empty has a least one.
LEMMA LeastNatural ==
  ASSUME NEW T \in SUBSET Nat, T # {}
  PROVE  \E n \in T : \A m \in T : n <= m
<1>1. PICK n \in T : \A m \in T : <<m, n>> \notin OpToRel(<, Nat)
  BY NatLessThanWellFounded, WFMin
<1>2. \A m \in T : ~ (m < n)
  BY <1>1 DEF OpToRel
<1> QED
  BY <1>2

\* Induction up to n, for a set of numbers.
LEMMA UpTo ==
  ASSUME NEW n \in Nat, NEW T, 0 \in T, \A i \in 1..n : i - 1 \in T => i \in T
  PROVE  \A i \in 0..n : i \in T
<1> DEFINE Left == {i \in Nat : i <= n /\ i \notin T}
<1>1. ASSUME Left # {} PROVE FALSE
  <2>1. PICK i \in Left : \A k \in Left : i <= k
    BY <1>1, LeastNatural
  <2>2. i \in 1..n /\ i - 1 \in Nat /\ i - 1 <= n
    BY <2>1
  <2>3. i - 1 \in T
    BY <2>1, <2>2
  <2> QED
    BY <2>1, <2>2, <2>3
<1> QED
  BY <1>1

\* A recursion over n steps, each a function from V to V.
Recursion(F, n, V, v, step) ==
  F \in [0..n -> V] /\ F[0] = v /\ \A i \in 1..n : F[i] = step[i][F[i - 1]]
Steps(n, V) == [1..n -> [V -> V]]

LEMMA StepsExist ==
  ASSUME NEW n \in Nat, NEW V, NEW v \in V, NEW step \in Steps(n, V)
  PROVE  \E F : Recursion(F, n, V, v, step)
<1> DEFINE Runs(F, m) == /\ F \in [0..m -> V] /\ F[0] = v
                         /\ \A i \in 1..m : F[i] = step[i][F[i - 1]]
           Some(m) == \E F : Runs(F, m)
           T == {m \in 0..n : Some(m)}
<1>1. 0 \in T
  <2>1. Runs([i \in 0..0 |-> v], 0)
    OBVIOUS
  <2> HIDE DEF Runs
  <2> QED
    BY <2>1
<1>2. ASSUME NEW m \in 1..n, m - 1 \in T PROVE m \in T
  <2>1. PICK G : Runs(G, m - 1)
    BY <1>2
  <2> DEFINE F == [i \in 0..m |-> IF i < m THEN G[i] ELSE step[m][G[m - 1]]]
  <2>2. F \in [0..m -> V]
    BY <2>1 DEF Steps
  <2>3. \A i \in 0..(m - 1) : F[i] = G[i]
    OBVIOUS
  <2>4. F[m] = step[m][G[m - 1]]
    OBVIOUS
  <2> HIDE DEF F
  <2>5. Runs(F, m)
    BY <2>1, <2>2, <2>3, <2>4
  <2> HIDE DEF Runs
  <2> QED
    BY <2>5
<1> HIDE DEF T
<1>3. \A i \in 0..n : i \in T
  BY <1>1, <1>2, UpTo
<1>4. Some(n)
  BY <1>3 DEF T
<1> QED
  BY <1>4 DEF Recursion

\* Two functions that agree at 0, and at i where they agree before, agree.
LEMMA StepsAgree ==
  ASSUME NEW n \in Nat, NEW F, NEW G, F[0] = G[0],
         \A i \in 1..n : F[i - 1] = G[i - 1] => F[i] = G[i]
  PROVE  F[n] = G[n]
<1> DEFINE T == {i \in 0..n : F[i] = G[i]}
<1>1. 0 \in T /\ \A i \in 1..n : i - 1 \in T => i \in T
  OBVIOUS
<1> HIDE DEF T
<1>2. n \in T
  BY <1>1, UpTo
<1> QED
  BY <1>2 DEF T

-----------------------------------------------------------------------------
(* Reports on a clone *)

\* The tokens of the entries e, and what git prints of them, one by one.
Token(e) == {[xy |-> e[i].xy, path |-> e[i].path] : i \in 1..Len(e)}
            \cup {[xy |-> <<"?", "?">>, path |-> e[i].from] : i \in 1..Len(e)}
Printed(e, all, i, ts) == IF e[i].xy = <<"!", "!">> /\ ~all THEN ts ELSE ts \o EntryTokens(e[i])

Printing(e, all, F) ==
  /\ F \in [0..Len(e) -> Seq(Token(e))] /\ F[0] = <<>>
  /\ \A i \in 1..Len(e) : F[i] = Printed(e, all, i, F[i - 1])

LEMMA TokensTyped ==
  ASSUME NEW e, Len(e) \in Nat, NEW i \in 1..Len(e)
  PROVE  EntryTokens(e[i]) \in Seq(Token(e))
<1>1. <<[xy |-> e[i].xy, path |-> e[i].path]>> \in Seq(Token(e))
  BY DEF Token
<1>2. [xy |-> <<"?", "?">>, path |-> e[i].from] \in Token(e)
  BY DEF Token
<1>3. SourceToken(e[i]) \in Seq(Token(e))
  <2> HIDE DEF Token
  <2> QED
    BY <1>2, EmptySeq DEF SourceToken
<1> QED
  BY <1>1, <1>3, ConcatProperties DEF EntryTokens

\* The recursion of Tokens is one of sequences of tokens.
LEMMA TokensStep ==
  ASSUME NEW e, Len(e) \in Nat, NEW all \in BOOLEAN
  PROVE  \E F : Printing(e, all, F) /\ Tokens(e, all) = F[Len(e)]
<1> DEFINE n == Len(e)
           V == Seq(Token(e))
           step == [i \in 1..n |-> [ts \in V |-> Printed(e, all, i, ts)]]
           Body(F, i) == IF i = 0 THEN <<>> ELSE Printed(e, all, i, F[i - 1])
           Says(F) == F = [i \in 0..n |-> Body(F, i)]
           U == CHOOSE G : Says(G)
           none == <<>>
<1>0. n \in Nat
  OBVIOUS
<1>1. ASSUME NEW i \in 1..n, NEW ts \in V PROVE Printed(e, all, i, ts) \in V
  <2>1. EntryTokens(e[i]) \in V
    BY TokensTyped
  <2> QED
    BY <2>1, ConcatProperties DEF Printed
<1>2. Tokens(e, all) = U[n]
  BY DEF Tokens, Printed
<1>3. none \in V
  BY EmptySeq
<1> HIDE DEF n, V, none
<1>4. step \in Steps(n, V)
  BY <1>1 DEF Steps
<1>5. \A i \in 1..n, ts \in V : step[i][ts] = Printed(e, all, i, ts)
  OBVIOUS
<1> HIDE DEF step
<1>14. PICK F : Recursion(F, n, V, none, step)
  BY <1>0, <1>3, <1>4, StepsExist
<1>6. F \in [0..n -> V] /\ F[0] = none /\ \A i \in 1..n : F[i] = step[i][F[i - 1]]
  BY <1>14 DEF Recursion
<1>7. \A i \in 1..n : F[i] = Printed(e, all, i, F[i - 1])
  BY <1>0, <1>5, <1>6
<1>8. \A i \in 0..n : F[i] = Body(F, i)
  BY <1>0, <1>6, <1>7 DEF none
<1> HIDE DEF Body
<1>9. Says(F)
  BY <1>6, <1>8
<1>10. Says(U)
  BY <1>9
<1> HIDE DEF U
<1>11. \A i \in 0..n : U[i] = Body(U, i)
  BY <1>10
<1>12. F[0] = U[0] /\ \A i \in 1..n : F[i - 1] = U[i - 1] => F[i] = U[i]
  BY <1>0, <1>8, <1>11 DEF Body
<1>13. F[n] = U[n]
  BY <1>0, <1>12, StepsAgree
<1> QED
  BY <1>2, <1>6, <1>7, <1>13 DEF n, V, none, Printing

\* Each entry's tokens stand where they were printed.
LEMMA TokensStand ==
  ASSUME NEW e, Len(e) \in Nat, NEW all \in BOOLEAN,
         NEW F, Printing(e, all, F)
  PROVE  \A i \in 0..Len(e) : \A j \in 0..i : \A k \in 1..Len(F[j]) :
           k \in 1..Len(F[i]) /\ F[i][k] = F[j][k]
<1> DEFINE n == Len(e)
           Stand(i, j) == \A k \in 1..Len(F[j]) : k \in 1..Len(F[i]) /\ F[i][k] = F[j][k]
           T == {i \in 0..n : \A j \in 0..i : Stand(i, j)}
<1>1. 0 \in T
  BY DEF Printing
<1>2. \A i \in 0..n : F[i] \in Seq(Token(e))
  BY DEF Printing
<1>3. ASSUME NEW i \in 1..n PROVE Stand(i, i - 1)
  <2>1. F[i - 1] \in Seq(Token(e)) /\ F[i] = Printed(e, all, i, F[i - 1])
    BY DEF Printing
  <2>2. EntryTokens(e[i]) \in Seq(Token(e))
    BY TokensTyped
  <2> HIDE DEF n
  <2>3. CASE F[i] = F[i - 1]
    BY <2>3
  <2>4. CASE F[i] = F[i - 1] \o EntryTokens(e[i])
    <3> DEFINE a == F[i - 1]
               b == EntryTokens(e[i])
    <3> HIDE DEF a, b
    <3>1. a \in Seq(Token(e)) /\ b \in Seq(Token(e)) /\ F[i] = a \o b
      BY <2>1, <2>2, <2>4 DEF a, b
    <3>2. /\ Len(F[i]) = Len(a) + Len(b)
          /\ \A k \in 1..(Len(a) + Len(b)) : F[i][k] = IF k <= Len(a) THEN a[k] ELSE b[k - Len(a)]
      BY <3>1, ConcatProperties
    <3>3. Len(a) \in Nat /\ Len(b) \in Nat
      BY <3>1, LenProperties
    <3>4. \A k \in 1..Len(a) : k \in 1..Len(F[i]) /\ F[i][k] = a[k]
      BY <3>2, <3>3
    <3> QED
      BY <3>4 DEF a
  <2> QED
    BY <2>1, <2>3, <2>4 DEF Printed
<1>4. n \in Nat
  OBVIOUS
<1> HIDE DEF n
<1>5. ASSUME NEW i \in 1..n, i - 1 \in T PROVE i \in T
  <2>1. \A j \in 0..(i - 1) : Stand(i - 1, j)
    BY <1>5
  <2>2. ASSUME NEW j \in 0..(i - 1), NEW k \in 1..Len(F[j])
        PROVE  k \in 1..Len(F[i]) /\ F[i][k] = F[j][k]
    <3>1. k \in 1..Len(F[i - 1]) /\ F[i - 1][k] = F[j][k]
      BY <2>1
    <3> QED
      BY <3>1, <1>3
  <2>3. \A j \in 0..i : j = i \/ j \in 0..(i - 1)
    BY <1>4
  <2>4. \A j \in 0..i : Stand(i, j)
    BY <2>2, <2>3
  <2> HIDE DEF Stand
  <2> QED
    BY <1>4, <2>4
<1> HIDE DEF T
<1>6. \A i \in 0..n : i \in T
  BY <1>1, <1>4, <1>5, UpTo
<1> QED
  BY <1>6 DEF T, n

-----------------------------------------------------------------------------
\* The buckets of the paths P, and the paths of the tokens of e.
PathOf(e) == {t.path : t \in Token(e)}
Buckets(P) == [staged : Seq(P), unstaged : Seq(P), untracked : Seq(P), ignored : Seq(P), skip : BOOLEAN]

\* What git says of an entry, and the buckets it goes to.
Said == {<<"?", "?">>, <<"!", "!">>} \cup (Status \X Status)
New(xy) == xy = <<"?", "?">>
Out(xy) == xy = <<"!", "!">>
OnIndex(xy) == xy[1] \notin {" ", "?", "!"}
OnTree(xy) == xy[2] \notin {" ", "?", "!"}
Adds(new, old, path, fits) == (fits => new = old \cup {path}) /\ (~fits => new = old)

LEMMA ToSetAppend ==
  ASSUME NEW S, NEW s \in Seq(S), NEW x \in S
  PROVE  ToSet(Append(s, x)) = ToSet(s) \cup {x}
<1>1. Len(s) \in Nat
  BY LenProperties
<1>2. /\ Len(Append(s, x)) = Len(s) + 1
      /\ \A i \in 1..Len(s) : Append(s, x)[i] = s[i]
      /\ Append(s, x)[Len(s) + 1] = x
  BY AppendProperties
<1>3. ToSet(Append(s, x)) = {Append(s, x)[i] : i \in 1..(Len(s) + 1)} /\ ToSet(s) = {s[i] : i \in 1..Len(s)}
  BY <1>2, AppendProperties, LenProperties DEF ToSet
<1>4. 1..(Len(s) + 1) = 1..Len(s) \cup {Len(s) + 1}
  BY <1>1
<1> QED
  BY <1>2, <1>3, <1>4

\* What one token that is not skipped adds to the buckets.
Took(P, b, c, xy, p) ==
  /\ c \in Buckets(P) /\ (c.skip <=> Moved(xy))
  /\ Adds(ToSet(c.untracked), ToSet(b.untracked), p, New(xy))
  /\ Adds(ToSet(c.ignored), ToSet(b.ignored), p, Out(xy))
  /\ Adds(ToSet(c.staged), ToSet(b.staged), p, OnIndex(xy))
  /\ Adds(ToSet(c.unstaged), ToSet(b.unstaged), p, OnTree(xy))

LEMMA OneToken ==
  ASSUME NEW P, NEW b \in Buckets(P), NEW p \in P, NEW xy \in Said, ~b.skip
  PROVE  Took(P, b, Bucket(b, [xy |-> xy, path |-> p]), xy, p)
<1> DEFINE t == [xy |-> xy, path |-> p]
           c == Bucket(b, t)
           add(s) == Append(s, p)
<1>1. \A s \in Seq(P) : add(s) \in Seq(P) /\ ToSet(add(s)) = ToSet(s) \cup {p}
  BY ToSetAppend, AppendProperties
<1>2. PICK st \in Seq(P), us \in Seq(P), ut \in Seq(P), ig \in Seq(P) :
        b = [staged |-> st, unstaged |-> us, untracked |-> ut, ignored |-> ig, skip |-> FALSE]
  BY DEF Buckets
<1> HIDE DEF add
<1>3. CASE New(xy)
  <2>1. c = [b EXCEPT !.untracked = add(b.untracked)]
    BY <1>3 DEF Bucket, add, New
  <2>2. ~Moved(xy) /\ ~Out(xy) /\ ~OnIndex(xy) /\ ~OnTree(xy)
    BY <1>3 DEF Moved, OnIndex, OnTree, New, Out
  <2> HIDE DEF c
  <2>3. c = [staged |-> st, unstaged |-> us, untracked |-> add(ut), ignored |-> ig, skip |-> FALSE]
    BY <1>2, <2>1
  <2>4. c \in Buckets(P) /\ c.skip = FALSE
    BY <1>1, <2>3 DEF Buckets
  <2>5. /\ ToSet(c.untracked) = ToSet(b.untracked) \cup {p} /\ c.ignored = b.ignored
        /\ c.staged = b.staged /\ c.unstaged = b.unstaged
    BY <1>1, <1>2, <2>3
  <2> QED
    BY <1>3, <2>2, <2>4, <2>5 DEF c, Adds, Took
<1>4. CASE Out(xy)
  <2>1. c = [b EXCEPT !.ignored = add(b.ignored)]
    BY <1>4 DEF Bucket, add, Out
  <2>2. ~Moved(xy) /\ ~New(xy) /\ ~OnIndex(xy) /\ ~OnTree(xy)
    BY <1>4 DEF Moved, OnIndex, OnTree, New, Out
  <2> HIDE DEF c
  <2>3. c = [staged |-> st, unstaged |-> us, untracked |-> ut, ignored |-> add(ig), skip |-> FALSE]
    BY <1>2, <2>1
  <2>4. c \in Buckets(P) /\ c.skip = FALSE
    BY <1>1, <2>3 DEF Buckets
  <2>5. /\ ToSet(c.ignored) = ToSet(b.ignored) \cup {p} /\ c.untracked = b.untracked
        /\ c.staged = b.staged /\ c.unstaged = b.unstaged
    BY <1>1, <1>2, <2>3
  <2> QED
    BY <1>4, <2>2, <2>4, <2>5 DEF c, Adds, Took
<1>5. CASE xy \in Status \X Status
  <2>1. PICK x \in Status, y \in Status : xy = <<x, y>>
    BY <1>5
  <2>9. x \notin {"?", "!"} /\ y \notin {"?", "!"}
    BY DEF Status
  <2>2. xy[1] = x /\ xy[2] = y /\ x \notin {"?", "!"} /\ y \notin {"?", "!"}
    BY <2>1, <2>9
  <2>3. ~New(xy) /\ ~Out(xy)
    BY <2>2 DEF New, Out
  <2>4. c = [b EXCEPT !.skip = Moved(xy),
                      !.staged = IF x \in {" ", "?"} THEN b.staged ELSE add(b.staged),
                      !.unstaged = IF y \in {" ", "?"} THEN b.unstaged ELSE add(b.unstaged)]
    BY <2>2, <2>3 DEF Bucket, add, New, Out
  <2> HIDE DEF c
  <2>5. PICK moved \in BOOLEAN : moved = Moved(xy)
    BY DEF Moved
  <2>6. c = [staged |-> IF x = " " THEN st ELSE add(st), unstaged |-> IF y = " " THEN us ELSE add(us),
             untracked |-> ut, ignored |-> ig, skip |-> moved]
    BY <1>2, <2>2, <2>4, <2>5
  <2>7. c \in Buckets(P) /\ (c.skip <=> Moved(xy))
    BY <1>1, <2>5, <2>6 DEF Buckets
  <2>8. /\ Adds(ToSet(c.staged), ToSet(b.staged), p, x # " ")
        /\ Adds(ToSet(c.unstaged), ToSet(b.unstaged), p, y # " ")
        /\ c.untracked = b.untracked /\ c.ignored = b.ignored
    BY <1>1, <1>2, <2>6 DEF Adds
  <2>10. (OnIndex(xy) <=> x # " ") /\ (OnTree(xy) <=> y # " ")
    BY <2>2 DEF OnIndex, OnTree
  <2> QED
    BY <2>3, <2>7, <2>8, <2>10 DEF c, Adds, Took
<1> QED
  BY <1>3, <1>4, <1>5 DEF Said, New, Out

LEMMA SkippedToken ==
  ASSUME NEW P, NEW b \in Buckets(P), NEW t, b.skip
  PROVE  LET c == Bucket(b, t)
         IN /\ c \in Buckets(P) /\ ~c.skip
            /\ c.untracked = b.untracked /\ c.ignored = b.ignored
            /\ c.staged = b.staged /\ c.unstaged = b.unstaged
BY DEF Bucket, Buckets

LEMMA BucketTyped ==
  ASSUME NEW P, NEW b \in Buckets(P), NEW t, t.path \in P
  PROVE  Bucket(b, t) \in Buckets(P)
<1>1. \A s \in Seq(P) : Append(s, t.path) \in Seq(P)
  BY AppendProperties
<1>2. Moved(t.xy) \in BOOLEAN
  BY DEF Moved
<1>3. b \in [staged : Seq(P), unstaged : Seq(P), untracked : Seq(P), ignored : Seq(P), skip : BOOLEAN]
  BY DEF Buckets
<1> QED
  BY <1>1, <1>2, <1>3 DEF Bucket, Buckets

\* The recursion of Parsed is one of buckets.
LEMMA BucketsStep ==
  ASSUME NEW e, NEW ts \in Seq(Token(e))
  PROVE  \E R \in [0..Len(ts) -> Buckets(PathOf(e))] :
           /\ R[0] = NoBuckets
           /\ \A i \in 1..Len(ts) : R[i] = Bucket(R[i - 1], ts[i])
           /\ Parsed(ts) = R[Len(ts)]
<1> DEFINE n == Len(ts)
           V == Buckets(PathOf(e))
           step == [i \in 1..n |-> [b \in V |-> Bucket(b, ts[i])]]
           Body(R, i) == IF i = 0 THEN NoBuckets ELSE Bucket(R[i - 1], ts[i])
           Says(R) == R = [i \in 0..n |-> Body(R, i)]
           U == CHOOSE G : Says(G)
           none == NoBuckets
<1>0. n \in Nat
  BY LenProperties
<1>1. ASSUME NEW i \in 1..n, NEW b \in V PROVE Bucket(b, ts[i]) \in V
  <2>1. ts[i] \in Token(e)
    BY ElementOfSeq
  <2>2. ts[i].path \in PathOf(e)
    BY <2>1 DEF PathOf
  <2> QED
    BY <2>2, BucketTyped
<1>2. Parsed(ts) = U[n]
  BY DEF Parsed
<1>3. none \in V
  BY EmptySeq DEF NoBuckets, Buckets
<1> HIDE DEF n, V, none
<1>4. step \in Steps(n, V)
  BY <1>1 DEF Steps
<1>5. \A i \in 1..n, b \in V : step[i][b] = Bucket(b, ts[i])
  OBVIOUS
<1> HIDE DEF step
<1> HIDE DEF U, Says, Body
<1>14. PICK R : Recursion(R, n, V, none, step)
  BY <1>0, <1>3, <1>4, StepsExist
<1>6. R \in [0..n -> V] /\ R[0] = none /\ \A i \in 1..n : R[i] = step[i][R[i - 1]]
  BY <1>14 DEF Recursion
<1>7. \A i \in 1..n : R[i] = Bucket(R[i - 1], ts[i])
  BY <1>0, <1>5, <1>6
<1>8. \A i \in 0..n : R[i] = Body(R, i)
  BY <1>0, <1>6, <1>7 DEF none, Body
<1>9. Says(R)
  BY <1>6, <1>8 DEF Says
<1>10. Says(U)
  BY <1>9 DEF U
<1>11. \A i \in 0..n : U[i] = Body(U, i)
  BY <1>10 DEF Says
<1>12. R[0] = U[0] /\ \A i \in 1..n : R[i - 1] = U[i - 1] => R[i] = U[i]
  BY <1>0, <1>8, <1>11 DEF Body
<1>13. R[n] = U[n]
  BY <1>0, <1>12, StepsAgree
<1> QED
  BY <1>2, <1>6, <1>7, <1>13 DEF n, V, none

-----------------------------------------------------------------------------
\* What the first i entries come to.
Untracked(e, i) == {e[j].path : j \in {k \in 1..i : New(e[k].xy)}}
Ignored(e, i) == {e[j].path : j \in {k \in 1..i : Out(e[k].xy)}}
Staged(e, i) == {e[j].path : j \in {k \in 1..i : OnIndex(e[k].xy)}}
Unstaged(e, i) == {e[j].path : j \in {k \in 1..i : OnTree(e[k].xy)}}
Filled(b, e, all, i) ==
  /\ ToSet(b.untracked) = Untracked(e, i)
  /\ all => ToSet(b.ignored) = Ignored(e, i)
  /\ ToSet(b.staged) = Staged(e, i)
  /\ ToSet(b.unstaged) = Unstaged(e, i)

LEMMA OneMore ==
  ASSUME NEW e, NEW i \in Nat, i # 0
  PROVE  /\ Adds(Untracked(e, i), Untracked(e, i - 1), e[i].path, New(e[i].xy))
         /\ Adds(Ignored(e, i), Ignored(e, i - 1), e[i].path, Out(e[i].xy))
         /\ Adds(Staged(e, i), Staged(e, i - 1), e[i].path, OnIndex(e[i].xy))
         /\ Adds(Unstaged(e, i), Unstaged(e, i - 1), e[i].path, OnTree(e[i].xy))
<1>1. 1..i = 1..(i - 1) \cup {i}
  OBVIOUS
<1>2. ASSUME NEW S
      PROVE  Adds({e[j].path : j \in S \cap (1..i)}, {e[j].path : j \in S \cap (1..(i - 1))},
                  e[i].path, i \in S)
  <2>1. i \in S => S \cap (1..i) = (S \cap (1..(i - 1))) \cup {i}
    BY <1>1
  <2>2. i \notin S => S \cap (1..i) = S \cap (1..(i - 1))
    BY <1>1
  <2> DEFINE N == S \cap (1..i)
             O == S \cap (1..(i - 1))
  <2> HIDE DEF N, O
  <2>3. i \in S => {e[j].path : j \in N} = {e[j].path : j \in O} \cup {e[i].path}
    BY <2>1 DEF N, O
  <2>4. i \notin S => {e[j].path : j \in N} = {e[j].path : j \in O}
    BY <2>2 DEF N, O
  <2> QED
    BY <2>3, <2>4 DEF N, O, Adds
<1> DEFINE A == {k \in Nat : New(e[k].xy)}
           B == {k \in Nat : Out(e[k].xy)}
           C == {k \in Nat : OnIndex(e[k].xy)}
           D == {k \in Nat : OnTree(e[k].xy)}
<1>4. /\ (i \in A) <=> (New(e[i].xy))
      /\ (i \in B) <=> (Out(e[i].xy))
      /\ (i \in C) <=> OnIndex(e[i].xy)
      /\ (i \in D) <=> OnTree(e[i].xy)
  OBVIOUS
<1>5. ASSUME NEW m \in Nat
      PROVE  /\ {k \in 1..m : New(e[k].xy)} = A \cap (1..m)
             /\ {k \in 1..m : Out(e[k].xy)} = B \cap (1..m)
             /\ {k \in 1..m : OnIndex(e[k].xy)} = C \cap (1..m)
             /\ {k \in 1..m : OnTree(e[k].xy)} = D \cap (1..m)
  OBVIOUS
<1>6. i \in Nat /\ i - 1 \in Nat
  OBVIOUS
<1> HIDE DEF A, B, C, D
<1>7. ASSUME NEW m \in Nat
      PROVE  /\ Untracked(e, m) = {e[j].path : j \in A \cap (1..m)}
             /\ Ignored(e, m) = {e[j].path : j \in B \cap (1..m)}
             /\ Staged(e, m) = {e[j].path : j \in C \cap (1..m)}
             /\ Unstaged(e, m) = {e[j].path : j \in D \cap (1..m)}
  BY <1>5 DEF Untracked, Ignored, Staged, Unstaged
<1>8. Adds(Untracked(e, i), Untracked(e, i - 1), e[i].path, New(e[i].xy))
  BY <1>2, <1>4, <1>6, <1>7 DEF Adds
<1>9. Adds(Ignored(e, i), Ignored(e, i - 1), e[i].path, Out(e[i].xy))
  BY <1>2, <1>4, <1>6, <1>7 DEF Adds
<1>10. Adds(Staged(e, i), Staged(e, i - 1), e[i].path, OnIndex(e[i].xy))
  BY <1>2, <1>4, <1>6, <1>7 DEF Adds
<1>11. Adds(Unstaged(e, i), Unstaged(e, i - 1), e[i].path, OnTree(e[i].xy))
  BY <1>2, <1>4, <1>6, <1>7 DEF Adds
<1> QED
  BY <1>8, <1>9, <1>10, <1>11

WellSaid(e) ==
  /\ Len(e) \in Nat
  /\ \A i \in 1..Len(e) : e[i].xy \in Said

\* One entry, of which the first token is not skipped and the second, if any, is.
LEMMA OneEntry ==
  ASSUME NEW e, WellSaid(e), NEW all \in BOOLEAN, NEW i \in 1..Len(e),
         NEW b \in Buckets(PathOf(e)), ~b.skip, Filled(b, e, all, i - 1)
  PROVE  LET c == Bucket(b, [xy |-> e[i].xy, path |-> e[i].path])
         IN /\ c \in Buckets(PathOf(e)) /\ (c.skip <=> Moved(e[i].xy))
            /\ Filled(c, e, all, i)
<1> DEFINE xy == e[i].xy
           p == e[i].path
           P == PathOf(e)
           c == Bucket(b, [xy |-> xy, path |-> p])
<1>1. p \in P
  <2>1. [xy |-> xy, path |-> p] \in Token(e)
    BY DEF Token
  <2> QED
    BY <2>1 DEF PathOf
<1>2. xy \in Said /\ b \in Buckets(P)
  BY DEF WellSaid
<1>3. i \in Nat /\ i # 0
  BY DEF WellSaid
<1>6. /\ Adds(Untracked(e, i), Untracked(e, i - 1), p, New(xy))
      /\ Adds(Ignored(e, i), Ignored(e, i - 1), p, Out(xy))
      /\ Adds(Staged(e, i), Staged(e, i - 1), p, OnIndex(xy))
      /\ Adds(Unstaged(e, i), Unstaged(e, i - 1), p, OnTree(xy))
  BY <1>3, OneMore DEF Adds
<1> HIDE DEF P, xy, p
<1>4. /\ c \in Buckets(P) /\ (c.skip <=> Moved(xy))
      /\ Adds(ToSet(c.untracked), ToSet(b.untracked), p, New(xy))
      /\ Adds(ToSet(c.ignored), ToSet(b.ignored), p, Out(xy))
      /\ Adds(ToSet(c.staged), ToSet(b.staged), p, OnIndex(xy))
      /\ Adds(ToSet(c.unstaged), ToSet(b.unstaged), p, OnTree(xy))
  <2>1. Took(P, b, c, xy, p)
    BY <1>1, <1>2, OneToken
  <2> HIDE DEF c
  <2> QED
    BY <2>1 DEF Took
<1> HIDE DEF c
<1>5. Filled(c, e, all, i)
  BY <1>4, <1>6 DEF Filled, Adds
<1> QED
  BY <1>4, <1>5 DEF c, P, xy, p

\* An ignored entry that was not asked for.
LEMMA NoEntry ==
  ASSUME NEW e, NEW i \in Nat, i # 0, NEW b, Out(e[i].xy), Filled(b, e, FALSE, i - 1)
  PROVE  Filled(b, e, FALSE, i)
<1>1. ~OnIndex(e[i].xy) /\ ~OnTree(e[i].xy) /\ ~New(e[i].xy)
  BY DEF OnIndex, OnTree, New, Out
<1>2. Untracked(e, i) = Untracked(e, i - 1)
  BY <1>1, OneMore DEF Adds
<1>3. Staged(e, i) = Staged(e, i - 1)
  BY <1>1, OneMore DEF Adds
<1>4. Unstaged(e, i) = Unstaged(e, i - 1)
  BY <1>1, OneMore DEF Adds
<1> QED
  BY <1>2, <1>3, <1>4 DEF Filled

\* Token by token, a source never read as an entry, the buckets hold what e says.
LEMMA EntriesBucketed ==
  ASSUME NEW e, WellSaid(e), NEW all \in BOOLEAN
  PROVE  LET u == Parsed(Tokens(e, all))
         IN u \in Buckets(PathOf(e)) /\ Filled(u, e, all, Len(e))
<1> DEFINE n == Len(e)
           P == PathOf(e)
<1>1. n \in Nat
  BY DEF WellSaid
<1>10. PICK F : Printing(e, all, F) /\ Tokens(e, all) = F[n]
  BY <1>1, TokensStep
<1>2. /\ F \in [0..n -> Seq(Token(e))] /\ F[0] = <<>>
      /\ \A i \in 1..n : F[i] = Printed(e, all, i, F[i - 1])
  BY <1>10 DEF Printing
<1> DEFINE ts == F[n]
<1>3. ts \in Seq(Token(e))
  BY <1>1, <1>2
<1>4. \A i \in 0..n : \A k \in 1..Len(F[i]) : k \in 1..Len(ts) /\ ts[k] = F[i][k]
  <2>1. \A i \in 0..Len(e) : \A j \in 0..i : \A k \in 1..Len(F[j]) :
           k \in 1..Len(F[i]) /\ F[i][k] = F[j][k]
    BY <1>1, <1>10, TokensStand
  <2> QED
    BY <1>1, <2>1
<1> HIDE DEF ts, P
<1>5. PICK R \in [0..Len(ts) -> Buckets(P)] :
        /\ R[0] = NoBuckets /\ \A k \in 1..Len(ts) : R[k] = Bucket(R[k - 1], ts[k])
        /\ Parsed(ts) = R[Len(ts)]
  BY <1>3, BucketsStep DEF P
<1> DEFINE At1(i) == R[Len(F[i])]
           Good(i) == At1(i) \in Buckets(P) /\ ~At1(i).skip /\ Filled(At1(i), e, all, i)
           T == {i \in 0..n : Good(i)}
<1>6. 0 \in T
  <2>1. Len(F[0]) = 0 /\ At1(0) = NoBuckets
    BY <1>2, <1>5
  <2>2. NoBuckets \in Buckets(P) /\ ~NoBuckets.skip
    BY EmptySeq DEF NoBuckets, Buckets
  <2>3. Filled(NoBuckets, e, all, 0)
    BY EmptySeq DEF NoBuckets, Filled, ToSet, Untracked, Ignored, Staged, Unstaged
  <2> QED
    BY <1>1, <2>1, <2>2, <2>3
<1>7. ASSUME NEW i \in 1..n, i - 1 \in T PROVE i \in T
  <2> DEFINE L == Len(F[i - 1])
             b == R[L]
             t == [xy |-> e[i].xy, path |-> e[i].path]
             s == [xy |-> <<"?", "?">>, path |-> e[i].from]
  <2>1. b \in Buckets(P) /\ ~b.skip /\ Filled(b, e, all, i - 1)
    BY <1>7
  <2>2. i \in 0..n /\ i - 1 \in 0..n /\ i \in Nat /\ i # 0
    BY <1>1
  <2>3. F[i - 1] \in Seq(Token(e)) /\ F[i] = Printed(e, all, i, F[i - 1]) /\ L \in Nat
    BY <1>2, <2>2, LenProperties
  <2>4. CASE Out(e[i].xy) /\ ~all
    <3>1. F[i] = F[i - 1]
      BY <2>3, <2>4 DEF Printed, Out
    <3>2. Filled(b, e, all, i)
      BY <2>1, <2>2, <2>4, NoEntry
    <3> QED
      BY <2>1, <2>2, <3>1, <3>2
  <2>5. CASE ~(Out(e[i].xy) /\ ~all)
    <3>1. F[i] = F[i - 1] \o EntryTokens(e[i])
      BY <2>3, <2>5 DEF Printed, Out
    <3>2. EntryTokens(e[i]) \in Seq(Token(e))
      BY <1>1, TokensTyped
    <3> DEFINE c == Bucket(b, t)
    <3>3. c \in Buckets(P) /\ (c.skip <=> Moved(e[i].xy)) /\ Filled(c, e, all, i)
      BY <2>1, OneEntry DEF P
    <3> DEFINE g == F[i - 1]
               h == EntryTokens(e[i])
    <3>7. g \in Seq(Token(e)) /\ h \in Seq(Token(e)) /\ F[i] = g \o h
      BY <2>3, <3>1, <3>2
    <3>4. /\ Len(F[i]) = L + Len(EntryTokens(e[i]))
          /\ \A k \in 1..(L + Len(EntryTokens(e[i]))) :
               F[i][k] = IF k <= L THEN F[i - 1][k] ELSE EntryTokens(e[i])[k - L]
      <4> HIDE DEF g, h
      <4>1. /\ Len(F[i]) = Len(g) + Len(h)
            /\ \A k \in 1..(Len(g) + Len(h)) : F[i][k] = IF k <= Len(g) THEN g[k] ELSE h[k - Len(g)]
        BY <3>7, ConcatProperties
      <4> QED
        BY <4>1 DEF g, h
    <3> HIDE DEF L, t, s, b, c, T
    <3>5. CASE ~Moved(e[i].xy)
      <4>1. EntryTokens(e[i]) = <<t>>
        BY <3>5 DEF EntryTokens, SourceToken, t
      <4>2. Len(F[i]) = L + 1 /\ F[i][L + 1] = t
        BY <2>3, <3>4, <4>1
      <4>3. L + 1 \in 1..Len(ts) /\ ts[L + 1] = t
        BY <1>4, <2>2, <2>3, <4>2
      <4>4. R[L + 1] = c
        BY <1>5, <2>3, <4>3 DEF b, c
      <4> QED
        BY <2>2, <3>3, <3>5, <4>2, <4>4 DEF T
    <3>6. CASE Moved(e[i].xy)
      <4>1. Len(EntryTokens(e[i])) = 2 /\ EntryTokens(e[i])[1] = t
        <5>1. EntryTokens(e[i]) = <<t>> \o <<s>>
          BY <3>6 DEF EntryTokens, SourceToken, t, s
        <5>2. /\ <<t>> \in Seq({t, s}) /\ Len(<<t>>) = 1 /\ <<t>>[1] = t
              /\ <<s>> \in Seq({t, s}) /\ Len(<<s>>) = 1
          OBVIOUS
        <5> QED
          BY <5>1, <5>2, ConcatProperties
      <4>2. Len(F[i]) = L + 2 /\ F[i][L + 1] = t
        BY <2>3, <3>4, <4>1
      <4>3. /\ L + 1 \in 1..Len(ts) /\ ts[L + 1] = t
            /\ L + 2 \in 1..Len(ts)
        BY <1>4, <2>2, <2>3, <4>2
      <4>4. R[L + 1] = c
        BY <1>5, <2>3, <4>3 DEF b, c
      <4>5. R[L + 2] = Bucket(c, ts[L + 2])
        BY <1>5, <2>3, <4>3, <4>4
      <4>6. /\ R[L + 2] \in Buckets(P) /\ ~R[L + 2].skip
            /\ R[L + 2].untracked = c.untracked /\ R[L + 2].ignored = c.ignored
            /\ R[L + 2].staged = c.staged /\ R[L + 2].unstaged = c.unstaged
        BY <3>3, <3>6, <4>5, SkippedToken
      <4>7. ~R[L + 2].skip /\ Filled(R[L + 2], e, all, i)
        BY <3>3, <4>6 DEF Filled
      <4> QED
        BY <2>2, <4>2, <4>6, <4>7 DEF T
    <3> QED
      BY <3>5, <3>6
  <2> QED
    BY <2>4, <2>5
<1> HIDE DEF T, n
<1>8. \A i \in 0..n : i \in T
  BY <1>1, <1>6, <1>7, UpTo
<1>9. Good(n)
  BY <1>1, <1>8 DEF T
<1> QED
  BY <1>10, <1>5, <1>9 DEF ts, P, n

-----------------------------------------------------------------------------
\* What is shown was read of the clone that is looked at.
Looking ==
  rphase \in {"inspected", "shown"} =>
    subject \in Subject /\ look \in LookOption /\ info = inspectRepo(subject, look)
Showing ==
  rphase = "shown" => shown = formatRepo(info, look) \/ (shown = {} /\ info.findings = 0)
ReportInv == Looking /\ Showing

LEMMA Inspected ==
  ASSUME NEW s \in Subject, NEW o \in LookOption, s.answers, ~s.bare
  PROVE  LET u == inspectRepo(s, o).uncommitted
         IN u \in Buckets(PathOf(s.entries)) /\ Filled(u, s.entries, o.ignored, Len(s.entries))
<1>1. inspectRepo(s, o).uncommitted = Parsed(Tokens(s.entries, o.ignored))
  BY DEF inspectRepo, statusBuckets
<1>2. WellSaid(s.entries) /\ o.ignored \in BOOLEAN
  BY ReportAssumption DEF ReportAssumption, WellSaid, Said
<1> QED
  BY <1>1, <1>2, EntriesBucketed

\* Where nothing was found, every list and every set is empty.
LEMMA NothingFound ==
  ASSUME NEW s \in Subject, NEW o \in LookOption, s.answers, ~s.bare, inspectRepo(s, o).findings = 0
  PROVE  /\ LET u == inspectRepo(s, o).uncommitted
            IN ToSet(u.staged) = {} /\ ToSet(u.unstaged) = {} /\ ToSet(u.untracked) = {} /\ ToSet(u.ignored) = {}
         /\ s.stashes = <<>>
         /\ \A b \in s.branches : b.name \in s.remoteRefs /\ ~(parseTrack(b.track).ahead > 0) /\ ~parseTrack(b.track).gone
<1> DEFINE i == inspectRepo(s, o)
           u == i.uncommitted
           f(b) == [name |-> b.name, upstream |-> b.upstream, track |-> parseTrack(b.track),
                    onRemote |-> b.name \in s.remoteRefs \ {"HEAD"}]
           branches == {f(b) : b \in s.branches}
           localOnly == {b \in branches : ~b.onRemote}
           ahead == {b \in branches : b.track.ahead > 0}
           gone == {b \in branches : b.track.gone}
<1>1. u \in Buckets(PathOf(s.entries))
  BY Inspected
<1>2. /\ Len(u.staged) \in Nat /\ Len(u.unstaged) \in Nat
      /\ Len(u.untracked) \in Nat /\ Len(u.ignored) \in Nat
  <2> HIDE DEF u
  <2> QED
    BY <1>1, LenProperties DEF Buckets
<1>3. /\ i.localOnly = localOnly /\ i.aheadBranches = ahead /\ i.goneBranches = gone
      /\ i.stashes = s.stashes
      /\ i.findings = Len(u.staged) + Len(u.unstaged) + Len(u.untracked)
                      + Len(u.ignored) + Len(s.stashes) + Cardinality(localOnly)
                      + Cardinality(ahead) + Cardinality(gone)
  BY DEF inspectRepo, branchInfo, stashInfo
<1>4. IsFiniteSet(branches)
  <2>1. IsFiniteSet(s.branches)
    BY ReportAssumption DEF ReportAssumption
  <2> DEFINE g == [b \in s.branches |-> f(b)]
  <2>2. g \in Surjection(s.branches, branches)
    BY DEF Surjection
  <2> QED
    BY <2>1, <2>2, FS_Surjection
<1>5. IsFiniteSet(localOnly) /\ IsFiniteSet(ahead) /\ IsFiniteSet(gone)
  <2> HIDE DEF branches
  <2> QED
    BY <1>4, FS_Subset
<1>6. Len(s.stashes) \in Nat /\ s.stashes = [k \in 1..Len(s.stashes) |-> s.stashes[k]]
  BY ReportAssumption DEF ReportAssumption
<1> HIDE DEF localOnly, ahead, gone, u
<1>7. Cardinality(localOnly) \in Nat /\ Cardinality(ahead) \in Nat /\ Cardinality(gone) \in Nat
  BY <1>5, FS_CardinalityType
<1>8. /\ Len(u.staged) = 0 /\ Len(u.unstaged) = 0 /\ Len(u.untracked) = 0 /\ Len(u.ignored) = 0
      /\ Len(s.stashes) = 0
      /\ Cardinality(localOnly) = 0 /\ Cardinality(ahead) = 0 /\ Cardinality(gone) = 0
  <2> DEFINE k1 == Len(u.staged)
             k2 == Len(u.unstaged)
             k3 == Len(u.untracked)
             k4 == Len(u.ignored)
             k5 == Len(s.stashes)
             k6 == Cardinality(localOnly)
             k7 == Cardinality(ahead)
             k8 == Cardinality(gone)
  <2>1. i.findings = 0
    OBVIOUS
  <2>2. 0 = k1 + k2 + k3 + k4 + k5 + k6 + k7 + k8
    BY <1>3, <2>1
  <2>3. k1 \in Nat /\ k2 \in Nat /\ k3 \in Nat /\ k4 \in Nat /\ k5 \in Nat /\ k6 \in Nat /\ k7 \in Nat /\ k8 \in Nat
    BY <1>2, <1>6, <1>7
  <2> HIDE DEF k1, k2, k3, k4, k5, k6, k7, k8
  <2>4. k1 = 0 /\ k2 = 0 /\ k3 = 0 /\ k4 = 0 /\ k5 = 0 /\ k6 = 0 /\ k7 = 0 /\ k8 = 0
    BY <2>2, <2>3
  <2> QED
    BY <2>4 DEF k1, k2, k3, k4, k5, k6, k7, k8
<1>9. localOnly = {} /\ ahead = {} /\ gone = {}
  BY <1>5, <1>8, FS_EmptySet
<1>10. ASSUME NEW b \in s.branches
       PROVE  b.name \in s.remoteRefs /\ ~(parseTrack(b.track).ahead > 0) /\ ~parseTrack(b.track).gone
  <2> HIDE DEF branches
  <2>1. f(b) \in branches
    BY DEF branches
  <2>2. f(b) \notin localOnly /\ f(b) \notin ahead /\ f(b) \notin gone
    BY <1>9
  <2>3. f(b).onRemote /\ ~(f(b).track.ahead > 0) /\ ~f(b).track.gone
    <3> HIDE DEF f
    <3> QED
      BY <2>1, <2>2 DEF localOnly, ahead, gone
  <2> QED
    BY <2>3
<1>11. \A t \in {u.staged, u.unstaged, u.untracked, u.ignored} : ToSet(t) = {}
  <2>1. ASSUME NEW t \in Seq(PathOf(s.entries)), Len(t) = 0 PROVE ToSet(t) = {}
    BY <2>1, LenProperties DEF ToSet
  <2> QED
    BY <1>1, <1>8, <2>1 DEF Buckets
<1>12. s.stashes = <<>>
  BY <1>6, <1>8
<1> QED
  BY <1>10, <1>11, <1>12 DEF u

\* What parseTrack makes of a branch's distance.
LEMMA AheadOf ==
  ASSUME NEW s \in Subject, NEW b \in s.branches
  PROVE  /\ parseTrack(b.track).gone <=> b.track = <<>>
         /\ b.track \notin {Nil, <<>>} => b.track[1] = parseTrack(b.track).ahead /\ b.track[1] \in Nat
<1>1. Nil # <<>> /\ b.track \in {Nil, <<>>} \cup (Nat \X Nat)
  BY ReportAssumption DEF ReportAssumption
<1> QED
  BY <1>1 DEF parseTrack

\* A section called clean is printed when nothing was found, and only then.
LEMMA CleanMeansNothing ==
  ASSUME NEW i, NEW o, <<"clean", 1>> \in formatRepo(i, o)
  PROVE  i.findings = 0
BY DEF formatRepo, HeadLine

\* A clone that is shown has a line for its HEAD, which says that it is detached.
LEMMA HeadShown ==
  ASSUME NEW s, NEW o
  PROVE  /\ formatRepo(inspectRepo(s, o), o) # {}
         /\ s.answers /\ ~s.bare /\ s.head = Nil => <<"detached", 1>> \in formatRepo(inspectRepo(s, o), o)
<1> DEFINE i == inspectRepo(s, o)
<1>1. i.detached = (~s.answers \/ s.head = Nil) /\ i.bare = (s.answers /\ s.bare)
  BY DEF inspectRepo
<1> HIDE DEF i
<1>2. HeadLine(i) \subseteq formatRepo(i, o)
  BY DEF formatRepo
<1>3. /\ HeadLine(i) # {}
      /\ i.detached /\ ~i.bare => <<"detached", 1>> \in HeadLine(i)
  BY DEF HeadLine
<1> QED
  BY <1>1, <1>2, <1>3 DEF i

\* A branch that tracks a remote's, and is not ahead of it, holds nothing of its own.
LEMMA TrackingLevel ==
  ASSUME NEW s \in Subject, NEW b \in s.branches, b.track # <<>>, b.track # Nil => b.track[1] = 0
  PROVE  b.unpushed > 0 => b.upstream # "remote"
<1>1. /\ b.unpushed \in Nat
      /\ b.upstream = "remote" =>
           /\ b.track = Nil => b.unpushed = 0
           /\ b.track \notin {Nil, <<>>} => b.unpushed <= b.track[1]
  BY ReportAssumption DEF ReportAssumption
<1> QED
  BY <1>1

\* Whatever a clone holds, it is reported on the sides it changed on, and one that is called
\* clean or left out hides commits in the two ways ReportExact names and in no other.
THEOREM ReportTrue == ReportSpec => []ReportExact
<1>1. ReportInit => ReportInv
  BY DEF ReportInit, ReportInv, Looking, Showing
<1>2. ReportInv /\ [ReportNext]_reportVars => ReportInv'
  <2> SUFFICES ASSUME ReportInv, [ReportNext]_reportVars
               PROVE  ReportInv'
    OBVIOUS
  <2> USE DEF ReportInv, Looking, Showing
  <2>1. CASE Inspect
    BY <2>1 DEF Inspect
  <2>2. CASE Show
    BY <2>2 DEF Show
  <2>3. CASE Audit
    BY <2>3 DEF Audit
  <2>4. CASE UNCHANGED reportVars
    BY <2>4 DEF reportVars
  <2> QED
    BY <2>1, <2>2, <2>3, <2>4 DEF ReportNext
<1>3. ReportInv => ReportExact
  <2> SUFFICES ASSUME ReportInv, rphase \in {"inspected", "shown"}, subject.answers, ~subject.bare
               PROVE  ReportExact
    BY DEF ReportExact
  <2> DEFINE e == subject.entries
             u == info.uncommitted
             n == Len(e)
  <2>1. subject \in Subject /\ look \in LookOption /\ info = inspectRepo(subject, look)
    BY DEF ReportInv, Looking
  <2>2. u \in Buckets(PathOf(e)) /\ Filled(u, e, look.ignored, n)
    BY <2>1, Inspected
  <2>3. n \in Nat /\ \A k \in 1..n : e[k].xy \in {<<"?", "?">>, <<"!", "!">>} \cup ((Status \X Status) \ {<<" ", " ">>})
    BY <2>1, ReportAssumption DEF ReportAssumption
  <2>4. look.ignored \in BOOLEAN
    BY <2>1, ReportAssumption DEF ReportAssumption
  <2> HIDE DEF u, e, n
  <2>5. /\ ToSet(u.untracked) = {e[k].path : k \in {j \in 1..n : e[j].xy = <<"?", "?">>}}
        /\ ToSet(u.staged) = {e[k].path : k \in {j \in 1..n : e[j].xy[1] \notin {" ", "?", "!"}}}
        /\ ToSet(u.unstaged) = {e[k].path : k \in {j \in 1..n : e[j].xy[2] \notin {" ", "?", "!"}}}
    BY <2>2 DEF Filled, Untracked, Staged, Unstaged, New, OnIndex, OnTree
  <2>6. ASSUME rphase = "shown", shown = {} \/ <<"clean", 1>> \in shown
        PROVE  /\ \A k \in 1..n : ~look.ignored /\ e[k].xy = <<"!", "!">>
               /\ subject.stashes = <<>>
               /\ \A b \in subject.branches :
                    /\ b.name \in subject.remoteRefs /\ b.track # <<>> /\ (b.track # Nil => b.track[1] = 0)
                    /\ b.unpushed > 0 => b.upstream # "remote"
               /\ subject.stray > 0 => shown = {} \/ <<"detached", 1>> \in shown
    <3>1. info.findings = 0
      <4>1. CASE shown = {}
        BY <2>1, <2>6, <4>1, HeadShown DEF ReportInv, Showing
      <4>2. CASE <<"clean", 1>> \in shown
        BY <2>6, <4>2, CleanMeansNothing DEF ReportInv, Showing
      <4> QED
        BY <2>6, <4>1, <4>2
    <3>2. /\ ToSet(u.staged) = {} /\ ToSet(u.unstaged) = {} /\ ToSet(u.untracked) = {} /\ ToSet(u.ignored) = {}
          /\ subject.stashes = <<>>
          /\ \A b \in subject.branches :
               b.name \in subject.remoteRefs /\ ~(parseTrack(b.track).ahead > 0) /\ ~parseTrack(b.track).gone
      BY <2>1, <3>1, NothingFound DEF u
    <3>3. ASSUME NEW k \in 1..n PROVE ~look.ignored /\ e[k].xy = <<"!", "!">>
      <4>1. ~New(e[k].xy) /\ ~OnIndex(e[k].xy) /\ ~OnTree(e[k].xy) /\ (look.ignored => ~Out(e[k].xy))
        BY <2>2, <3>2 DEF Filled, Untracked, Ignored, Staged, Unstaged
      <4>2. ASSUME NEW x \in Status, NEW y \in Status, e[k].xy = <<x, y>> PROVE x = " " /\ y = " "
        <5>1. (OnIndex(<<x, y>>) <=> x # " ") /\ (OnTree(<<x, y>>) <=> y # " ")
          BY DEF OnIndex, OnTree, Status
        <5>2. ~OnIndex(<<x, y>>) /\ ~OnTree(<<x, y>>)
          BY <4>1, <4>2
        <5> QED
          BY <5>1, <5>2
      <4> DEFINE xy == e[k].xy
      <4>3. xy \in {<<"?", "?">>, <<"!", "!">>} \cup ((Status \X Status) \ {<<" ", " ">>})
        BY <2>3
      <4> HIDE DEF xy
      <4>4. xy \notin (Status \X Status) \ {<<" ", " ">>}
        <5>1. ASSUME xy \in Status \X Status PROVE xy = <<" ", " ">>
          <6>1. PICK x \in Status, y \in Status : xy = <<x, y>>
            BY <5>1
          <6>2. x = " " /\ y = " "
            BY <4>2, <6>1 DEF xy
          <6> QED
            BY <6>1, <6>2
        <5> QED
          BY <5>1
      <4>5. xy # <<"?", "?">>
        BY <4>1 DEF xy, New
      <4>6. xy = <<"!", "!">>
        BY <4>3, <4>4, <4>5
      <4> QED
        BY <4>1, <4>6 DEF Out, xy
    <3>4. ASSUME NEW b \in subject.branches
          PROVE  /\ b.name \in subject.remoteRefs /\ b.track # <<>> /\ (b.track # Nil => b.track[1] = 0)
                 /\ b.unpushed > 0 => b.upstream # "remote"
      <4>1. b.track # <<>>
        BY <2>1, <3>2, AheadOf
      <4>2. ASSUME b.track # Nil PROVE b.track[1] = 0
        <5>1. b.track[1] = parseTrack(b.track).ahead /\ b.track[1] \in Nat
          BY <2>1, <4>1, <4>2, AheadOf
        <5>2. ~(parseTrack(b.track).ahead > 0)
          BY <3>2
        <5> QED
          BY <5>1, <5>2
      <4>3. b.unpushed > 0 => b.upstream # "remote"
        BY <2>1, <4>1, <4>2, TrackingLevel
      <4> QED
        BY <3>2, <4>1, <4>2, <4>3
    <3>5. ASSUME subject.stray > 0 PROVE shown = {} \/ <<"detached", 1>> \in shown
      <4>1. subject.head = Nil
        BY <2>1, <3>5, ReportAssumption DEF ReportAssumption
      <4> QED
        BY <2>1, <2>6, <4>1, HeadShown DEF ReportInv, Showing
    <3> QED
      BY <3>2, <3>3, <3>4, <3>5
  <2> QED
    BY <2>5, <2>6 DEF ReportExact, u, e, n
<1> QED
  BY <1>1, <1>2, <1>3, PTL DEF ReportSpec

-----------------------------------------------------------------------------
(* The manifest of a recording *)

\* Of places up to n there is a last one.
LEMMA LatestIsLast ==
  ASSUME NEW n \in Nat, NEW S \in SUBSET (1..n), S # {}
  PROVE  Latest(S) \in S /\ \A j \in S : j <= Latest(S)
<1> DEFINE Rest == {n - i : i \in S}
<1>1. Rest \in SUBSET Nat /\ Rest # {}
  <2>1. \A i \in S : n - i \in Nat
    OBVIOUS
  <2> QED
    BY <2>1
<1>2. PICK k \in Rest : \A m \in Rest : k <= m
  BY <1>1, LeastNatural
<1>3. PICK i \in S : k = n - i
  BY <1>2
<1>4. \A j \in S : j <= i
  BY <1>2, <1>3
<1> QED
  BY <1>3, <1>4 DEF Latest

\* The manifest is made of the recording that was read.
Recording == har \in Seq(Entry) /\ (manifest # HarNil => manifest = harToManifest(har))

\* A project is missing, or has the repositories of the body recorded last.
LEMMA RepositoriesOf ==
  ASSUME NEW h \in Seq(Entry)
  PROVE  LET m == harToManifest(h)
         IN \A p \in m.projects :
              /\ p.id \notin Captured(h) => p \in m.missing /\ ~\E x \in m.repositories : x[1] = p.id
              /\ p.id \in Captured(h) =>
                   {x[3] : x \in {y \in m.repositories : y[1] = p.id}}
                     = ToSet(asArray(h[Latest(RepoBodies(h, p.id))])) \ {HarNil}
<1> DEFINE projects == projectList(h)
           names(id) == IF id \in Captured(h) THEN ToSet(asArray(h[Latest(RepoBodies(h, id))])) ELSE {}
           repositories == UNION {{<<p.id, p.slug, r>> : r \in names(p.id) \ {HarNil}} : p \in projects}
           missing == {p \in projects : p.id \notin Captured(h)}
<1>1. harToManifest(h) = [projects |-> projects, repositories |-> repositories, missing |-> missing]
  BY DEF harToManifest
<1> HIDE DEF names, projects
<1>2. ASSUME NEW x \in repositories
      PROVE  \E p \in projects : x = <<p.id, p.slug, x[3]>> /\ x[3] \in names(p.id) \ {HarNil}
  OBVIOUS
<1>3. ASSUME NEW p \in projects, NEW r \in names(p.id) \ {HarNil}
      PROVE  <<p.id, p.slug, r>> \in repositories
  OBVIOUS
<1> HIDE DEF repositories
<1>4. ASSUME NEW p \in projects
      PROVE  {x[3] : x \in {y \in repositories : y[1] = p.id}} = names(p.id) \ {HarNil}
  <2>1. ASSUME NEW x \in repositories, x[1] = p.id PROVE x[3] \in names(p.id) \ {HarNil}
    <3>1. PICK q \in projects : x = <<q.id, q.slug, x[3]>> /\ x[3] \in names(q.id) \ {HarNil}
      BY <1>2
    <3>2. q.id = p.id
      BY <2>1, <3>1
    <3> QED
      BY <3>1, <3>2
  <2>2. ASSUME NEW r \in names(p.id) \ {HarNil}
        PROVE  \E x \in repositories : x[1] = p.id /\ x[3] = r
    <3>1. <<p.id, p.slug, r>> \in repositories
      BY <1>3
    <3> QED
      BY <3>1
  <2> QED
    BY <2>1, <2>2
<1>5. ASSUME NEW p \in projects, p.id \notin Captured(h)
      PROVE  ~\E x \in repositories : x[1] = p.id
  <2>1. names(p.id) = {}
    BY <1>5 DEF names
  <2>2. ASSUME NEW x \in repositories, x[1] = p.id PROVE FALSE
    <3>1. x[3] \in {y[3] : y \in {z \in repositories : z[1] = p.id}}
      BY <2>2
    <3> QED
      BY <1>4, <2>1, <3>1
  <2> QED
    BY <2>2
<1>6. ASSUME NEW p \in projects, p.id \in Captured(h)
      PROVE  {x[3] : x \in {y \in repositories : y[1] = p.id}}
               = ToSet(asArray(h[Latest(RepoBodies(h, p.id))])) \ {HarNil}
  BY <1>4, <1>6 DEF names
<1> DEFINE m == harToManifest(h)
<1>7. m.projects = projects /\ m.repositories = repositories /\ m.missing = missing
  BY <1>1
<1> HIDE DEF m
<1>8. \A p \in m.projects :
        /\ p.id \notin Captured(h) => p \in m.missing /\ ~\E x \in m.repositories : x[1] = p.id
        /\ p.id \in Captured(h) =>
             {x[3] : x \in {y \in m.repositories : y[1] = p.id}}
               = ToSet(asArray(h[Latest(RepoBodies(h, p.id))])) \ {HarNil}
  BY <1>5, <1>6, <1>7
<1> QED
  BY <1>8 DEF m

\* Whatever was recorded in whatever order, what the capture lacks is said to be missing.
THEOREM GapsNamed == HarSpec => []GapExplicit
<1>1. HarInit => Recording
  BY EmptySeq DEF HarInit, Recording
<1>2. Recording /\ [HarNext]_harVars => Recording'
  <2> SUFFICES ASSUME Recording, [HarNext]_harVars PROVE Recording'
    OBVIOUS
  <2>1. CASE Record
    BY <2>1, AppendProperties DEF Record, Recording
  <2>2. CASE Extract
    BY <2>2 DEF Extract, Recording
  <2>3. CASE UNCHANGED harVars
    BY <2>3 DEF harVars, Recording
  <2> QED
    BY <2>1, <2>2, <2>3 DEF HarNext
<1>3. Recording => GapExplicit
  <2> SUFFICES ASSUME Recording, manifest # HarNil PROVE GapExplicit
    BY DEF GapExplicit
  <2>1. manifest = harToManifest(har) /\ har \in Seq(Entry) /\ Len(har) \in Nat
    BY LenProperties DEF Recording
  <2>2. ASSUME NEW p \in manifest.projects
        PROVE  \/ p \in manifest.missing /\ ~\E x \in manifest.repositories : x[1] = p.id
               \/ \E i \in 1..Len(har) :
                    /\ har[i].kind = "repos" /\ har[i].project = p.id /\ har[i].text
                    /\ \A j \in (i + 1)..Len(har) : har[j].kind # "repos" \/ har[j].project # p.id \/ ~har[j].text
                    /\ {x[3] : x \in {y \in manifest.repositories : y[1] = p.id}}
                         = {r \in ToSet(asArray(har[i])) : r # HarNil}
    <3>1. CASE p.id \notin Captured(har)
      BY <2>1, <3>1, RepositoriesOf
    <3>2. CASE p.id \in Captured(har)
      <4> DEFINE bodies == RepoBodies(har, p.id)
                 i == Latest(bodies)
      <4>1. bodies \in SUBSET (1..Len(har)) /\ bodies # {}
        BY <3>2 DEF RepoBodies, Captured
      <4>2. i \in bodies /\ \A j \in bodies : j <= i
        BY <2>1, <4>1, LatestIsLast
      <4>3. {x[3] : x \in {y \in manifest.repositories : y[1] = p.id}}
              = {r \in ToSet(asArray(har[i])) : r # HarNil}
        BY <2>1, <3>2, RepositoriesOf
      <4> HIDE DEF i
      <4>4. har[i].kind = "repos" /\ har[i].project = p.id /\ har[i].text /\ i \in 1..Len(har)
        BY <4>2 DEF RepoBodies, Usable
      <4>5. \A j \in (i + 1)..Len(har) : har[j].kind # "repos" \/ har[j].project # p.id \/ ~har[j].text
        BY <2>1, <4>2, <4>4 DEF RepoBodies, Usable
      <4> QED
        BY <4>3, <4>4, <4>5
    <3> QED
      BY <3>1, <3>2
  <2>3. \A x \in manifest.repositories : \E p \in manifest.projects : p.id = x[1]
    BY <2>1 DEF harToManifest
  <2> QED
    BY <2>2, <2>3 DEF GapExplicit
<1> QED
  BY <1>1, <1>2, <1>3, PTL DEF HarSpec
=============================================================================
