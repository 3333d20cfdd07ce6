------------------------------ MODULE BuildAll ------------------------------
(***************************************************************************)
(* build.mjs with lib/host-capabilities.mjs and lib/go-build.mjs: which     *)
(* targets a host registers, which of them are selected, the children that  *)
(* build them, and the log their output becomes; and generate.mjs, which     *)
(* runs the generators of three folders.                                    *)
(***************************************************************************)
EXTENDS Naturals, Sequences, FiniteSets

CONSTANTS
  HostFacts,  \* bound: hosts: [container, termux, devices, ram, cloud, go]
  Requests,   \* bound: names on the command line
  Output,     \* Output[t][s]: what a child of target t writes to s, character by character
  MaxChunk    \* bound: characters that arrive at once

INFERENCE_MIN_RAM_GIB == 16
Images == {"coding-agent-image", "llama-swap-image", "llm-reverse-proxy-image"}
Provisioning == "termux-provisioning"
Native == "llm-reverse-proxy-native"
Target == Images \cup {Provisioning, Native}
Stream == {"stdout", "stderr"}
BuildAssumption ==
  /\ \A t \in Target, s \in Stream :
       Len(Output[t][s]) \in Nat /\ Output[t][s] = [i \in 1..Len(Output[t][s]) |-> Output[t][s][i]]
  /\ MaxChunk \in Nat /\ \A f \in HostFacts : f.container \in BOOLEAN /\ f.termux \in BOOLEAN
ASSUME BuildAssumption
FOLDERS == <<"llm-reverse-proxy", "llm-local-inference", "coding-agent">>

VARIABLES
  machine,    \* the host
  bphase,     \* "start", "run", "over"
  asked,      \* the names on the command line
  selected,   \* the selected targets, in order
  state,      \* state[t]: "waiting", "running", "ok", "failed"
  fed,        \* fed[t][s]: the characters read
  partial,    \* partial[t][s]: the line that is not complete
  lines,      \* lines[t][s]: the log's lines
  status,     \* the exit status of build.mjs, 0 before it ends
  folders     \* how the generators ended so far
buildVars == <<machine, bphase, asked, selected, state, fed, partial, lines, status, folders>>

detectContainerTool(f) == f.container
detectGpuDevices(f) == f.devices
totalMemGiB(f) == f.ram
cloudReachable(f) == f.cloud

Registered(f) ==
  (IF f.termux THEN {Provisioning} ELSE {})
  \cup (IF ~detectContainerTool(f) THEN {Native}
        ELSE {"coding-agent-image"}
             \cup (IF detectGpuDevices(f) > 0 /\ totalMemGiB(f) >= INFERENCE_MIN_RAM_GIB
                   THEN {"llama-swap-image"} ELSE {})
             \cup (IF cloudReachable(f) THEN {"llm-reverse-proxy-image"} ELSE {}))

\* The order of registration; provisioning is put in front.
BuildOrder == <<Provisioning, "coding-agent-image", "llama-swap-image", "llm-reverse-proxy-image", Native>>

\* Every other name is gated off, and known.
noteGated(f) == Target \ Registered(f)

Serial(f) == f.termux \/ ~detectContainerTool(f)

\* Provisioning is selected whatever is asked for; kept[i] is of the first i in the order.
Selected(f, names) ==
  LET chosen == {t \in Registered(f) : t = Provisioning \/ names = {} \/ t \in names}
      kept[i \in 0..Len(BuildOrder)] ==
        IF i = 0 THEN <<>>
        ELSE IF BuildOrder[i] \in chosen THEN Append(kept[i - 1], BuildOrder[i]) ELSE kept[i - 1]
  IN kept[Len(BuildOrder)]

BuildInit ==
  /\ machine \in HostFacts
  /\ bphase = "start" /\ asked = {} /\ selected = <<>>
  /\ state = [t \in Target |-> "waiting"]
  /\ fed = [t \in Target |-> [s \in Stream |-> 0]]
  /\ partial = [t \in Target |-> [s \in Stream |-> <<>>]]
  /\ lines = [t \in Target |-> [s \in Stream |-> <<>>]]
  /\ status = 0
  /\ folders = <<>>

outputVars == <<fed, partial, lines>>

Select ==
  /\ bphase = "start" /\ folders = <<>>
  /\ asked' \in Requests
  /\ LET known == Registered(machine) \cup noteGated(machine)
         chosen == Selected(machine, asked')
     IN IF ~(asked' \subseteq known)
        THEN bphase' = "over" /\ status' = 94 /\ UNCHANGED selected
        ELSE IF chosen = <<>>
        THEN bphase' = "over" /\ status' = 91 /\ UNCHANGED selected
        ELSE bphase' = "run" /\ selected' = chosen /\ UNCHANGED status
  /\ UNCHANGED <<machine, state, outputVars, folders>>

Ended(t) == state[t] \in {"ok", "failed"}

\* Faulty variant: every host starts its targets at once.
MayBeginAtOnce(i) == i \in DOMAIN selected

\* A serial host waits for the target before, whether that failed or not.
MayBegin(i) == ~Serial(machine) \/ \A j \in 1..(i - 1) : Ended(selected[j])

\* The native target asks for a toolchain before it spawns its child.
goToolchainReady(f) == f.go

TargetBegins(i) ==
  /\ bphase = "run" /\ i <= Len(selected) /\ state[selected[i]] = "waiting" /\ MayBegin(i)
  /\ state' = [state EXCEPT ![selected[i]] =
                 IF selected[i] = Native /\ ~goToolchainReady(machine) THEN "failed" ELSE "running"]
  /\ UNCHANGED <<machine, bphase, asked, selected, outputVars, status, folders>>

\* The last frame of a line that redraws itself, empty where there is none.
collapseRedrawFrames(line) ==
  LET text == {i \in DOMAIN line : line[i] # "\r"}
      end == CHOOSE i \in text : \A j \in text : j <= i
      start == CHOOSE i \in 0..end : /\ i = 0 \/ line[i] = "\r"
                                     /\ \A j \in (i + 1)..end : line[j] # "\r"
  IN IF text = {} THEN <<>> ELSE SubSeq(line, start + 1, end)

Logged(log, line) ==
  IF collapseRedrawFrames(line) = <<>> THEN log ELSE Append(log, collapseRedrawFrames(line))

\* A line break completes the partial line.
Reads(b, c) ==
  IF c = "\n" THEN [part |-> <<>>, log |-> Logged(b.log, b.part)]
  ELSE [part |-> Append(b.part, c), log |-> b.log]

\* A chunk, character by character.
Feed(buffer, chunk) ==
  LET read[i \in 0..Len(chunk)] == IF i = 0 THEN buffer ELSE Reads(read[i - 1], chunk[i])
  IN read[Len(chunk)]

ChunkArrives(t, s, n) ==
  /\ state[t] = "running" /\ fed[t][s] + n <= Len(Output[t][s])
  /\ LET b == Feed([part |-> partial[t][s], log |-> lines[t][s]],
                   SubSeq(Output[t][s], fed[t][s] + 1, fed[t][s] + n))
     IN /\ partial' = [partial EXCEPT ![t][s] = b.part]
        /\ lines' = [lines EXCEPT ![t][s] = b.log]
  /\ fed' = [fed EXCEPT ![t][s] = @ + n]
  /\ UNCHANGED <<machine, bphase, asked, selected, state, status, folders>>

AllRead(t) == \A s \in Stream : fed[t][s] = Len(Output[t][s])

\* The streams end, what is left of each is a line, and the child closes.
ChildCloses(t, ok) ==
  /\ state[t] = "running" /\ AllRead(t)
  /\ lines' = [lines EXCEPT ![t] = [s \in Stream |-> Logged(lines[t][s], partial[t][s])]]
  /\ state' = [state EXCEPT ![t] = IF ok THEN "ok" ELSE "failed"]
  /\ UNCHANGED <<machine, bphase, asked, selected, fed, partial, status, folders>>

\* There is no child: error.
SpawnFails(t) ==
  /\ state[t] = "running" /\ \A s \in Stream : fed[t][s] = 0
  /\ state' = [state EXCEPT ![t] = "failed"]
  /\ UNCHANGED <<machine, bphase, asked, selected, outputVars, status, folders>>

BuildEnds ==
  /\ bphase = "run" /\ \A i \in DOMAIN selected : Ended(selected[i])
  /\ bphase' = "over"
  /\ status' = IF \E i \in DOMAIN selected : state[selected[i]] = "failed" THEN 1 ELSE 0
  /\ UNCHANGED <<machine, asked, selected, state, outputVars, folders>>

\* generate.mjs, on its own: the next folder, whatever became of the one before.
GenerateFolder ==
  /\ bphase = "start" /\ Len(folders) < Len(FOLDERS)
  /\ \E ok \in BOOLEAN : folders' = Append(folders, ok)
  /\ UNCHANGED <<machine, bphase, asked, selected, state, outputVars, status>>

GenerateEnds ==
  /\ bphase = "start" /\ Len(folders) = Len(FOLDERS)
  /\ bphase' = "over"
  /\ status' = IF \E i \in DOMAIN folders : ~folders[i] THEN 1 ELSE 0
  /\ UNCHANGED <<machine, asked, selected, state, outputVars, folders>>

BuildNext ==
  \/ Select \/ (\E i \in 1..Cardinality(Target) : TargetBegins(i))
  \/ (\E t \in Target : \/ \E s \in Stream, n \in 1..MaxChunk : ChunkArrives(t, s, n)
                        \/ \E ok \in BOOLEAN : ChildCloses(t, ok)
                        \/ SpawnFails(t))
  \/ BuildEnds \/ GenerateFolder \/ GenerateEnds

BuildSpec == BuildInit /\ [][BuildNext]_buildVars
-----------------------------------------------------------------------------
\* A text's lines: i ends one where there is a break, or the text has ended; the line is
\* what stands between the break before i and i.
EndsLine(text, i) == i = Len(text) + 1 \/ text[i] = "\n"
LineBefore(text, i) ==
  LET cut == CHOOSE j \in 0..(i - 1) : /\ j = 0 \/ text[j] = "\n"
                                       /\ \A k \in (j + 1)..(i - 1) : text[k] # "\n"
  IN SubSeq(text, cut + 1, i - 1)
LogOf(text) ==
  LET log[i \in 0..(Len(text) + 1)] ==
        IF i = 0 THEN <<>>
        ELSE IF EndsLine(text, i) THEN Logged(log[i - 1], LineBefore(text, i)) ELSE log[i - 1]
  IN log[Len(text) + 1]

\* A build that exits 0 has built every selected target and at least one; an unknown name
\* or an empty selection starts no child.  A Termux or bare host runs one target at a time
\* and none before provisioning has ended, a container host any number.  However the
\* output of the children is cut and interleaved, the log of a target that ended is the
\* lines of that target's own output.
BuildTells ==
  /\ bphase = "over" /\ status = 0 /\ folders = <<>> =>
       selected # <<>> /\ \A i \in DOMAIN selected : state[selected[i]] = "ok"
  /\ status \in {91, 94} => \A t \in Target : state[t] = "waiting"
  /\ Serial(machine) => Cardinality({t \in Target : state[t] = "running"}) <= 1
  /\ machine.termux => \A t \in Target \ {Provisioning} : state[t] # "waiting" => Ended(Provisioning)
  /\ \A t \in Target, s \in Stream : Ended(t) /\ AllRead(t) =>
       lines[t][s] = LogOf(Output[t][s])
  /\ bphase = "over" /\ folders # <<>> =>
       (status = 0 <=> folders = [i \in DOMAIN FOLDERS |-> TRUE])
=============================================================================
