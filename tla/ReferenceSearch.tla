---------------------------- MODULE ReferenceSearch ----------------------------
(***************************************************************************)
(* git/search-references.mjs: index, a pool of engine containers over the   *)
(* mirrors that were asked for; serve, one container; query, answered by a  *)
(* server or, failing that, by a container over the index.                  *)
(***************************************************************************)
EXTENDS FarmTree

CONSTANTS
  Farm,         \* the mirrors' tree
  FarmOrder,    \* its directories, sorted
  Command,      \* bound: the command lines tried
  Tool,         \* what container runtimes the host may have
  Lines,        \* the lines that match the query
  Reach         \* Reach[n]: how many of them a server gives for --num n

ASSUME SearchAssumption ==
  /\ Lines \in Seq({Lines[i] : i \in 1..Len(Lines)})
  /\ \A c \in Command : Reach[c.num] \in 0..Len(Lines)

VARIABLES
  sphase,   \* "start", "index", "ask", "serve", "oneshot", "exit", "aborted"
  cmd,
  tool,     \* the container runtime, or "none"
  mirrors,  \* the mirrors to index
  scur,     \* the pool's cursor
  job,      \* job[w]: the mirror a container is at, or 0
  indexed,  \* indexed[i]: what indexOne returned
  shard,    \* the mirrors whose index is of this run
  heard,    \* what the server sent: "nothing", "files", "none", "broken" (history)
  answers,  \* the lines printed
  status

searchVars == <<sphase, cmd, tool, mirrors, scur, job, indexed, shard, heard, answers, status>>
NoCommand == [sub |-> "help", only |-> {}, exclude |-> {}, all |-> FALSE, jobs |-> 4, maxDepth |-> 5,
              query |-> FALSE, server |-> FALSE, json |-> FALSE, num |-> 50]
Job == 1..Len(FarmOrder)

SearchInit ==
  /\ sphase = "start" /\ cmd = NoCommand /\ tool = "none"
  /\ mirrors = <<>> /\ scur = 1 /\ job = [w \in Job |-> 0]
  /\ indexed = <<>> /\ shard = {} /\ heard = "nothing" /\ answers = <<>> /\ status = 0

\* The environment's choice, then podman, then docker.
containerTool(host) ==
  IF host.env # "none" THEN host.env
  ELSE IF "podman" \in host.path THEN "podman"
  ELSE IF "docker" \in host.path THEN "docker" ELSE "none"

Exit(code) == sphase' = "exit" /\ status' = code
Aborts == sphase' = "aborted" /\ status' = 1
searchRest == <<mirrors, scur, job, indexed, shard, heard, answers>>

\* cmdIndex up to the pool: nothing is selected by default.
IndexBegins(c, host) ==
  /\ c.sub = "index"
  /\ \/ c.only = {} /\ ~c.all /\ Exit(0) /\ UNCHANGED mirrors
     \/ /\ c.only # {} \/ c.all
        /\ containerTool(host) = "none" /\ Aborts /\ UNCHANGED mirrors
     \/ /\ c.only # {} \/ c.all
        /\ containerTool(host) # "none"
        /\ \E kept \in {Chosen(findBareMirrors(Farm, c.maxDepth), c.only, c.exclude)} :
             \E n \in 0..Len(FarmOrder) :
               /\ n = Cardinality(kept)
               /\ mirrors' \in {s \in [1..n -> kept] : Sorted(FarmOrder, s, kept)}
        /\ IF mirrors' = <<>> THEN Exit(0) ELSE sphase' = "index" /\ UNCHANGED status

\* cmdServe: the container is the command.
ServeBegins(c, host) ==
  /\ c.sub = "serve"
  /\ IF containerTool(host) = "none" THEN Aborts ELSE sphase' = "serve" /\ UNCHANGED status
  /\ UNCHANGED mirrors

\* cmdQuery: an engine is looked for only when there is no server to ask.
QueryBegins(c, host) ==
  /\ c.sub = "query"
  /\ IF ~c.query THEN Aborts
     ELSE IF c.server THEN sphase' = "ask" /\ UNCHANGED status
     ELSE IF containerTool(host) = "none" THEN Aborts
     ELSE sphase' = "oneshot" /\ UNCHANGED status
  /\ UNCHANGED mirrors

SearchBegins ==
  /\ sphase = "start"
  /\ \E c \in Command, host \in Tool :
       /\ cmd' = c /\ tool' = containerTool(host)
       /\ \/ IndexBegins(c, host) \/ ServeBegins(c, host) \/ QueryBegins(c, host)
          \/ c.sub = "help" /\ Exit(0) /\ UNCHANGED mirrors
          \* A word that is no command or flag, a root or an index that is not there.
          \/ c.sub # "help" /\ Aborts /\ UNCHANGED mirrors
  /\ UNCHANGED <<scur, job, indexed, shard, heard, answers>>

Engines == LET n == IF cmd.jobs < Len(mirrors) THEN cmd.jobs ELSE Len(mirrors)
           IN IF n < 1 THEN 1 ELSE n

IndexStarts(w) ==
  /\ sphase = "index" /\ w <= Engines
  /\ job[w] = 0 /\ scur <= Len(mirrors)
  /\ job' = [job EXCEPT ![w] = scur] /\ scur' = scur + 1
  /\ UNCHANGED <<sphase, cmd, tool, mirrors, indexed, shard, heard, answers, status>>

\* Faulty variant: what the worker returns is kept in order of completion.
IndexEndsUnordered(w, ok) ==
  /\ job[w] # 0
  /\ indexed' = [i \in DOMAIN indexed \cup {job[w]} |->
                   IF i = job[w] THEN TRUE ELSE indexed[i]]
  /\ shard' = IF ok THEN shard \cup {job[w]} ELSE shard
  /\ job' = [job EXCEPT ![w] = 0]
  /\ UNCHANGED <<sphase, cmd, tool, mirrors, scur, heard, answers, status>>

\* indexOne: one container for one mirror, its exit status is the answer.  A container
\* that cannot be started is exit status 127.
IndexEnds(w, ok) ==
  /\ job[w] # 0
  /\ indexed' = [i \in DOMAIN indexed \cup {job[w]} |-> IF i = job[w] THEN ok ELSE indexed[i]]
  /\ shard' = IF ok THEN shard \cup {job[w]} ELSE shard
  /\ job' = [job EXCEPT ![w] = 0]
  /\ UNCHANGED <<sphase, cmd, tool, mirrors, scur, heard, answers, status>>

IndexSummary ==
  /\ sphase = "index" /\ scur > Len(mirrors) /\ \A w \in Job : job[w] = 0
  /\ Exit(IF \E i \in DOMAIN indexed : ~indexed[i] THEN 1 ELSE 0)
  /\ UNCHANGED <<cmd, tool, searchRest>>

\* What a server gives of the lines: --num caps its answer, 50 unless it is given.
Told == SubSeq(Lines, 1, Reach[cmd.num])

\* A 2xx with JSON is printed, a line for each match or, with --json, as it came; a body
\* without files has nothing to print.
ServerAnswers ==
  /\ sphase = "ask"
  /\ \/ heard' = "files" /\ answers' = Told
     \/ heard' = "none" /\ UNCHANGED answers
     \/ /\ cmd.json /\ heard' = "broken"
        /\ \E k \in 0..Len(Told) : answers' = SubSeq(Told, 1, k)
  /\ Exit(0)
  /\ UNCHANGED <<cmd, tool, mirrors, scur, job, indexed, shard>>

FallsBack == IF tool = "none" THEN Aborts ELSE sphase' = "oneshot" /\ UNCHANGED status

\* Faulty variant: what was printed so far is taken for the answer.
PrintGivesUp(k) ==
  /\ sphase = "ask" /\ ~cmd.json
  /\ heard' = "broken" /\ answers' = SubSeq(Told, 1, k)
  /\ Exit(0)
  /\ UNCHANGED <<cmd, tool, mirrors, scur, job, indexed, shard>>

\* A body that breaks the printing loop behind its first k lines: they stay printed, and
\* the container is asked too.
PrintBreaks(k) ==
  /\ sphase = "ask" /\ ~cmd.json
  /\ heard' = "broken" /\ answers' = SubSeq(Told, 1, k)
  /\ FallsBack
  /\ UNCHANGED <<cmd, tool, mirrors, scur, job, indexed, shard>>

\* Unreachable, not 2xx, or not JSON: the container is asked instead.
ServerFails ==
  /\ sphase = "ask"
  /\ FallsBack
  /\ UNCHANGED <<cmd, tool, searchRest>>

\* run: the container's exit status is the command's.  zoekt is not told of --num.
OneShot(code) ==
  /\ sphase = "oneshot"
  /\ answers' = IF code = 0 THEN answers \o Lines ELSE answers
  /\ Exit(code)
  /\ UNCHANGED <<cmd, tool, mirrors, scur, job, indexed, shard, heard>>

ServeEnds(code) ==
  /\ sphase = "serve"
  /\ Exit(code)
  /\ UNCHANGED <<cmd, tool, searchRest>>

SearchNext ==
  \/ SearchBegins \/ (\E w \in Job : IndexStarts(w) \/ \E ok \in BOOLEAN : IndexEnds(w, ok))
  \/ IndexSummary \/ ServerAnswers \/ ServerFails \/ (\E k \in 0..Len(Told) : PrintBreaks(k))
  \/ \E code \in {0, 1, 127} : OneShot(code) \/ ServeEnds(code)

SearchSpec == SearchInit /\ [][SearchNext]_searchVars

-----------------------------------------------------------------------------
(* Properties *)

\* What exit status 0 says.  An index run that was asked for mirrors has a shard of every
\* one of them.  A query has been answered to the end: by the container, all lines; or
\* by the server, what --num lets through of them, and nothing for a body that names no
\* files, which passes for no match.  Never is a part of either printed and no more: a
\* body that breaks off in the printing is followed by all lines, some of them for the
\* second time (with --json it is printed as it came).  (cmdIndex, cmdQuery.)
ZeroMeansAnswered ==
  sphase = "exit" /\ status = 0 =>
    /\ cmd.sub = "index" => \A i \in 1..Len(mirrors) : i \in shard
    /\ cmd.sub = "query" =>
         /\ heard = "nothing" => answers = Lines
         /\ heard = "files" => answers = Told
         /\ heard = "none" => answers = <<>>
         /\ heard = "broken" /\ ~cmd.json =>
              \E k \in 0..Len(Told) : answers = SubSeq(Told, 1, k) \o Lines
=============================================================================
