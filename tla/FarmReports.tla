------------------------------ MODULE FarmReports ------------------------------
(***************************************************************************)
(* git/local-changes.mjs and git/audit.mjs: what a clone holds that its     *)
(* remotes do not, and what is odd about a farm of clones.  A run reads     *)
(* every clone of its choice and reports; nothing is changed.               *)
(***************************************************************************)
EXTENDS ForgeRemotes, FarmTree, SequencesExt

CONSTANTS
  Subject,    \* bound: the clones looked at
  LookOption, \* bound: the command lines of local-changes
  AuditFarm,  \* the farm that is audited: directories and what git says of them
  Slug        \* Slug[u]: the owner and repo of a GitHub URL, lower case, or Nil

\* What git says of a clone: an entry is untracked, ignored, or has a letter or a blank
\* for either side; a branch is level with its upstream or has none (Nil), has distances
\* from it, or lost it (<<>>).  What it does not ask: unpushed, the commits of a branch
\* that no remote has, and stray, those that only a detached HEAD holds.  A branch whose
\* upstream is a remote's has no more than it is ahead.
Status == {" ", "M", "T", "A", "D", "R", "C", "U"}
ReportAssumption ==
  /\ Nil # <<>> /\ \A o \in LookOption : o.ignored \in BOOLEAN
  /\ \A s \in Subject :
       /\ s.entries = [i \in 1..Len(s.entries) |-> s.entries[i]] /\ Len(s.entries) \in Nat
       /\ \A i \in 1..Len(s.entries) :
            s.entries[i].xy \in {<<"?", "?">>, <<"!", "!">>}
                                  \cup ((Status \X Status) \ {<<" ", " ">>})
       /\ s.stashes = [i \in 1..Len(s.stashes) |-> s.stashes[i]] /\ Len(s.stashes) \in Nat
       /\ IsFiniteSet(s.branches)
       /\ s.stray \in Nat /\ (s.stray > 0 => s.head = Nil)
       /\ \A b \in s.branches :
            /\ b.track \in {Nil, <<>>} \cup (Nat \X Nat)
            /\ b.unpushed \in Nat
            /\ b.upstream = "remote" =>
                 /\ b.track = Nil => b.unpushed = 0
                 /\ b.track \notin {Nil, <<>>} => b.unpushed <= b.track[1]
ASSUME ReportAssumption

VARIABLES
  rphase,   \* "start", "inspected", "shown", "audited"
  subject,  \* the clone
  look,     \* the options
  info,     \* RepoInfo
  shown,    \* the sections printed
  report    \* the audit

reportVars == <<rphase, subject, look, info, shown, report>>

ReportInit ==
  /\ rphase = "start" /\ subject = Nil /\ look = Nil
  /\ info = Nil /\ shown = {} /\ report = Nil

-----------------------------------------------------------------------------
(* local-changes *)

\* status --porcelain=v1 -z: an entry is a token; a rename or a copy has its source
\* as a token of its own behind it, which may look like an entry.
Moved(xy) == xy[1] \in {"R", "C"} \/ xy[2] \in {"R", "C"}
SourceToken(e) == IF Moved(e.xy) THEN <<[xy |-> <<"?", "?">>, path |-> e.from]>> ELSE <<>>
EntryTokens(e) == <<[xy |-> e.xy, path |-> e.path]>> \o SourceToken(e)

\* What git prints: tokens[i] for its first i entries; ignored ones are asked for.
Tokens(entries, includeIgnored) ==
  LET tokens[i \in 0..Len(entries)] ==
        IF i = 0 THEN <<>>
        ELSE IF entries[i].xy = <<"!", "!">> /\ ~includeIgnored THEN tokens[i - 1]
        ELSE tokens[i - 1] \o EntryTokens(entries[i])
  IN tokens[Len(entries)]

NoBuckets == [staged |-> <<>>, unstaged |-> <<>>, untracked |-> <<>>, ignored |-> <<>>, skip |-> FALSE]

\* Faulty variant: only the index column announces a source.
BucketIndexOnly(b, t) ==
  IF b.skip THEN [b EXCEPT !.skip = FALSE]
  ELSE IF t.xy = <<"?", "?">> THEN [b EXCEPT !.untracked = Append(@, t.path)]
  ELSE IF t.xy = <<"!", "!">> THEN [b EXCEPT !.ignored = Append(@, t.path)]
  ELSE [b EXCEPT !.skip = t.xy[1] \in {"R", "C"},
                 !.staged = IF t.xy[1] \in {" ", "?"} THEN @ ELSE Append(@, t.path),
                 !.unstaged = IF t.xy[2] \in {" ", "?"} THEN @ ELSE Append(@, t.path)]

Bucket(b, t) ==
  IF b.skip THEN [b EXCEPT !.skip = FALSE]
  ELSE IF t.xy = <<"?", "?">> THEN [b EXCEPT !.untracked = Append(@, t.path)]
  ELSE IF t.xy = <<"!", "!">> THEN [b EXCEPT !.ignored = Append(@, t.path)]
  ELSE [b EXCEPT !.skip = Moved(t.xy),
                 !.staged = IF t.xy[1] \in {" ", "?"} THEN @ ELSE Append(@, t.path),
                 !.unstaged = IF t.xy[2] \in {" ", "?"} THEN @ ELSE Append(@, t.path)]

\* read[i] is what the first i tokens filled.
Parsed(ts) ==
  LET read[i \in 0..Len(ts)] == IF i = 0 THEN NoBuckets ELSE Bucket(read[i - 1], ts[i])
  IN read[Len(ts)]

\* A git that fails printed nothing, and is read like one that had nothing to print.
statusBuckets(repo, includeIgnored) ==
  IF repo.answers THEN Parsed(Tokens(repo.entries, includeIgnored)) ELSE NoBuckets

\* upstream:track: nothing, how far the two are apart, or, as <<>>, [gone].
parseTrack(t) ==
  IF t = Nil THEN [ahead |-> 0, behind |-> 0, gone |-> FALSE]
  ELSE IF t = <<>> THEN [ahead |-> 0, behind |-> 0, gone |-> TRUE]
  ELSE [ahead |-> t[1], behind |-> t[2], gone |-> FALSE]

\* A branch is on a remote when a remote-tracking ref, HEAD's apart, shares its name.
branchInfo(repo) ==
  IF ~repo.answers THEN {}
  ELSE {[name |-> b.name, upstream |-> b.upstream, track |-> parseTrack(b.track),
         onRemote |-> b.name \in repo.remoteRefs \ {"HEAD"}] : b \in repo.branches}

stashInfo(repo) == IF repo.answers THEN repo.stashes ELSE <<>>

\* Stashes and the work tree of a bare repository are not looked at.  HEAD is told with
\* the distances of its branch, and finds nothing by itself.
inspectRepo(repo, o) ==
  LET work == IF repo.bare THEN NoBuckets ELSE statusBuckets(repo, o.ignored)
      stashes == IF repo.bare THEN <<>> ELSE stashInfo(repo)
      branches == branchInfo(repo)
      localOnly == {b \in branches : ~b.onRemote}
      aheadBranches == {b \in branches : b.track.ahead > 0}
      goneBranches == {b \in branches : b.track.gone}
      detached == ~repo.answers \/ repo.head = Nil
      onHead == {b \in branches : ~detached /\ b.name = repo.head}
      of(field(_), none) == IF onHead = {} THEN none ELSE field(CHOOSE b \in onHead : TRUE)
  IN [bare |-> repo.answers /\ repo.bare, detached |-> detached,
      upstream |-> of(LAMBDA b : b.upstream, Nil),
      ahead |-> of(LAMBDA b : b.track.ahead, 0), behind |-> of(LAMBDA b : b.track.behind, 0),
      uncommitted |-> work, stashes |-> stashes, localOnly |-> localOnly,
      aheadBranches |-> aheadBranches, goneBranches |-> goneBranches,
      findings |-> Len(work.staged) + Len(work.unstaged) + Len(work.untracked)
                   + Len(work.ignored) + Len(stashes) + Cardinality(localOnly)
                   + Cardinality(aheadBranches) + Cardinality(goneBranches)]

\* A list of more than max entries ends in a line that counts the rest.
capped(n, max) == IF n <= max THEN n ELSE max + 1

\* The line that every clone that is shown has.
HeadLine(i) ==
  {<<IF i.detached /\ ~i.bare THEN "detached" ELSE "HEAD", 1>>}
  \cup (IF i.upstream = Nil \/ i.bare \/ i.detached THEN {} ELSE {<<"upstream", 1>>})
  \cup (IF i.ahead = 0 /\ i.behind = 0 THEN {} ELSE {<<"HEAD+", i.ahead>>, <<"HEAD-", i.behind>>})

\* The sections that are printed with their lines; clean stands alone.
formatRepo(i, o) ==
  LET size == [staged |-> Len(i.uncommitted.staged), unstaged |-> Len(i.uncommitted.unstaged),
               untracked |-> Len(i.uncommitted.untracked), ignored |-> Len(i.uncommitted.ignored),
               localOnly |-> Cardinality(i.localOnly), ahead |-> Cardinality(i.aheadBranches),
               gone |-> Cardinality(i.goneBranches)]
  IN HeadLine(i)
     \cup {<<s, capped(size[s], o.maxEntries)>> : s \in {t \in DOMAIN size : size[t] > 0}}
     \cup (IF i.stashes = <<>> THEN {} ELSE {<<"stashes", Len(i.stashes)>>})
     \cup (IF i.findings = 0 THEN {<<"clean", 1>>} ELSE {})

Inspect ==
  /\ rphase = "start"
  /\ subject' \in Subject /\ look' \in LookOption
  /\ info' = inspectRepo(subject', look')
  /\ rphase' = "inspected"
  /\ UNCHANGED <<shown, report>>

\* Under --root a clone without findings is left out, unless --all is given.
Show ==
  /\ rphase = "inspected"
  /\ shown' = IF look.root /\ ~look.all /\ info.findings = 0 THEN {} ELSE formatRepo(info, look)
  /\ rphase' = "shown"
  /\ UNCHANGED <<subject, look, info, report>>

-----------------------------------------------------------------------------
(* audit *)

githubSlug(u) == IF u = Nil THEN Nil ELSE Slug[u]

OnGithub(d) == Len(d) >= 3 /\ d[1] = "github"

\* The clone whose path is a proper prefix; the root's own path is empty and never one.
nestedIn(d, clones) == {c \in clones : c # <<>> /\ IsAbove(c, d)}

audit(maxDepth) ==
  LET clones == findCloneRoots(AuditFarm, maxDepth)
      url(d) == AuditFarm[d].url
      remote(d) == parseSoftwareForgeRemote(url(d))
  IN [total |-> Cardinality(clones),
      hosts |-> {IF url(d) = Nil THEN Nil ELSE url(d).host : d \in clones},
      noOrigin |-> {d \in clones : url(d) = Nil},
      shallow |-> {d \in clones : AuditFarm[d].shallow},
      softwareForgeRemotes |->
        {<<d, softwareForgeMirrorRelPath(remote(d)), softwareForgeGlassUrl(remote(d)),
           softwareForgeHttpsUrl(remote(d))>> : d \in {c \in clones : remote(c) # Nil}},
      nonstandardPath |-> {d \in clones : ~OnGithub(d)},
      pathOriginMismatch |->
        {d \in clones : OnGithub(d) /\ githubSlug(url(d)) \notin {Nil, Tail(d)}},
      nested |-> {d \in clones : nestedIn(d, clones) # {}},
      duplicateOrigins |->
        {same \in {{d \in clones : url(d) = u} : u \in {url(d) : d \in clones} \ {Nil}} :
           Cardinality(same) > 1},
      detached |-> {d \in clones : AuditFarm[d].detached},
      dirty |-> {d \in clones : AuditFarm[d].dirty}]

Audit ==
  /\ rphase = "start"
  /\ \E maxDepth \in 1..5 : report' = audit(maxDepth)
  /\ rphase' = "audited"
  /\ UNCHANGED <<subject, look, info, shown>>

ReportNext == Inspect \/ Show \/ Audit

ReportSpec == ReportInit /\ [][ReportNext]_reportVars

-----------------------------------------------------------------------------
(* Properties *)

\* What local-changes says of a clone can be acted on.  Every path git names is reported
\* once for each side it changed on, and the source of a rename never is
\* (statusBuckets).  A clone that git answers for and that is called clean, or left out of
\* a sweep, has no change and no stash, and none of its branches is unknown to a remote,
\* ahead or without the upstream it had.  "clean — nothing local that a remote lacks"
\* (formatRepo) then says too much in two cases only: of a branch that has commits of its
\* own, a namesake on a remote, and no upstream there; and of commits on a detached HEAD,
\* which a clone that is shown is at least said to have.
ReportExact ==
  rphase \in {"inspected", "shown"} /\ subject.answers /\ ~subject.bare =>
    LET e == subject.entries
        paths(P(_)) == {e[i].path : i \in {j \in 1..Len(e) : P(e[j].xy)}}
        u == info.uncommitted
    IN /\ ToSet(u.untracked) = paths(LAMBDA xy : xy = <<"?", "?">>)
       /\ ToSet(u.staged) = paths(LAMBDA xy : xy[1] \notin {" ", "?", "!"})
       /\ ToSet(u.unstaged) = paths(LAMBDA xy : xy[2] \notin {" ", "?", "!"})
       /\ rphase = "shown" /\ (shown = {} \/ <<"clean", 1>> \in shown) =>
            /\ \A i \in 1..Len(e) : ~look.ignored /\ e[i].xy = <<"!", "!">>
            /\ subject.stashes = <<>>
            /\ \A b \in subject.branches :
                 /\ b.name \in subject.remoteRefs /\ b.track # <<>> /\ (b.track # Nil => b.track[1] = 0)
                 /\ b.unpushed > 0 => b.upstream # "remote"
            /\ subject.stray > 0 => shown = {} \/ <<"detached", 1>> \in shown
=============================================================================
