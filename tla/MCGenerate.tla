------------------------------ MODULE MCGenerate ------------------------------
(* Values for the generators, the extensions, the probes and the build.  They share no  *)
(* state here: one runs while the others have not begun.                                *)
EXTENDS ProviderFolder, Watchdogs, RouteProbe, AgentInstall, BuildAll, TLC

CONSTANTS m1, m2, m3, m4, m5, alias, embed, junk, hf1, hf2, priceText
CONSTANTS proxyA, proxyB, hostP, hostL, prov, swap, gone, local

\* pi-hyper.
HyperRow(id, reasons, levels, image, window, prices) ==
  [id |-> id, can_reason |-> reasons, reasoning_levels |-> levels, supports_attachments |-> image,
   context_window |-> window, default_max_tokens |-> Nil, price |-> prices]
Prices(i, o) == [in |-> i, out |-> o, in_cached |-> Nil, out_cached |-> Nil]
Listing(ok, body, rows) == [ok |-> ok, body |-> body, rows |-> rows]
HyperAnswers ==
  LET full == HyperRow(m1, TRUE, {"low", "high", "none"}, TRUE, 1000, Prices(1, 2))
      plain == HyperRow(m2, FALSE, Nil, FALSE, junk, Prices(Nil, Nil))
      onoff == HyperRow(m2, TRUE, {}, FALSE, Nil, Prices(0, Nil))
  IN {Listing(TRUE, "list", {full, plain, HyperRow(Nil, FALSE, Nil, FALSE, Nil, Prices(Nil, Nil))}),
      Listing(TRUE, "wrapped", {[full EXCEPT !.reasoning_levels = {"max"}], onoff}),
      Listing(TRUE, "list", {[full EXCEPT !.id = ""]}),
      Listing(FALSE, "other", {}), Listing(TRUE, "other", {full})}

\* pi-verboo.
VerbooRow(id, window, reasoning) ==
  [id |-> id, context_window |-> window, vision |-> FALSE, reasoning |-> reasoning]
VerbooAnswers ==
  {Listing(TRUE, "list", {VerbooRow(m1, 1000, [effort_levels |-> {"low", "medium"}]),
                          [VerbooRow(m2, junk, Nil) EXCEPT !.vision = TRUE]}),
   Listing(TRUE, "list", {VerbooRow(m1, 1000, [effort_levels |-> {"high"}]), VerbooRow("", 1, Nil)}),
   Listing(TRUE, "wrapped", {VerbooRow(m3, Nil, [effort_levels |-> Nil])}),
   Listing(FALSE, "other", {})}

\* pi-synthetic: an alias tier that moves, a price as text, a family that is not served.
SynthRow(id, serves, efforts) ==
  [id |-> id, display_name |-> Nil, hugging_face_id |-> serves, input |-> {"text", "image"},
   output |-> {"text"}, context_length |-> 1000, max_output_length |-> junk, features |-> Nil,
   efforts |-> efforts,
   pricing |-> [prompt |-> priceText, completion |-> 2, input_cache_reads |-> 0, input_cache_writes |-> 0]]
SynthAnswers ==
  {Listing(TRUE, "list", {SynthRow(m1, hf1, {"low", "none"}), SynthRow(alias, hf1, {"low"})}),
   Listing(TRUE, "list", {[SynthRow(m2, hf2, {"none"}) EXCEPT !.features = {"reasoning"},
                                                             !.pricing.prompt = Nil],
                          SynthRow(alias, hf2, {}), SynthRow(m5, Nil, Nil)}),
   Listing(TRUE, "wrapped", {[SynthRow(m1, Nil, {"high"}) EXCEPT !.output = {"audio"}]}),
   Listing(TRUE, "list", {SynthRow(m5, Nil, Nil)}), Listing(FALSE, "other", {})}
MCHf == (hf1 :> m1) @@ (hf2 :> m2)
MCSpelled == priceText :> 3

\* pi-cline-pass: m1, m2, m3 and embed are prefixed, m4 and m5 are not.
Record(id, family, input, options) ==
  [id |-> id, family |-> family, input |-> input, output |-> {"text"}, context |-> 1000,
   limit |-> Nil, reasoning |-> TRUE, reasoning_options |-> options, cost |-> Nil]
Effort(values) == {[type |-> "effort", values |-> values], [type |-> "toggle", values |-> {"max"}]}
MCSlice ==
  (m1 :> Record(m4, Nil, Nil, Effort({"low", "high"}))) @@ (m2 :> Record(Nil, Nil, {"text"}, Effort({})))
  @@ (m3 :> Record(Nil, Nil, {"audio"}, {})) @@ (m5 :> Record(m1, Nil, Nil, {}))
  @@ (embed :> Record(Nil, "text-embedding", Nil, {}))
Sources(ok, slice, docsOk, table) == [ok |-> ok, slice |-> slice, docsOk |-> docsOk, table |-> table]
ClineAnswers ==
  {Sources(TRUE, MCSlice, TRUE, {m1, m2, m3, m5}),
   Sources(TRUE, m2 :> MCSlice[m2], TRUE, {m1, m2, m3}),
   Sources(TRUE, m1 :> Record(Nil, Nil, Nil, Effort({"max"})), FALSE, {m1}),
   Sources(TRUE, m3 :> MCSlice[m3], TRUE, {m4}), Sources(TRUE, Nil, TRUE, Nil),
   Sources(FALSE, Nil, FALSE, Nil)}

MCAnswers ==
  ("pi-hyper" :> HyperAnswers) @@ ("pi-verboo" :> VerbooAnswers)
  @@ ("pi-synthetic" :> SynthAnswers) @@ ("pi-cline-pass" :> ClineAnswers)

\* The proxy's bases, and the artifacts' ids: prov is a provider, swap the local one that
\* opencode calls local, gone has lost its row.
Base(scheme, h) == [scheme |-> scheme, host |-> h]
A == Base("https", proxyA)
B == Base("http", proxyB)
MCEnvironment ==
  {<<>>, <<Nothing, Base("degenerate", proxyA)>>, <<A, B>>, <<B, Base("https", Nothing), A>>}
MCUpstream ==
  (prov :> URL(Nothing, hostP, <<Seg("v1")>>)) @@ (swap :> URL(Nothing, hostL, <<>>))
MCFactId == local :> swap
MCOverride == {Unset, Nothing, A, Base("https", Nothing)}
Reply(s, json, rows) == [status |-> s, json |-> json, rows |-> rows]
Rows1 == {[id |-> m1, name |-> Nothing], [id |-> Nothing, name |-> "models/m2"], [id |-> Nothing, name |-> Nothing]}
MCReplies ==
  {Reply(Nothing, FALSE, Nothing), Reply(200, TRUE, Rows1), Reply(200, TRUE, {}), Reply(200, TRUE, Nothing),
   Reply(200, FALSE, Nothing), Reply(200, TRUE, {[id |-> r, name |-> Nothing] : r \in {m3, m4}})}
  \cup {Reply(s, FALSE, Nothing) : s \in {401, 404, 429, 500, 502}}
MCStripped == "models/m2" :> m2

Host(t, o, w, s) == [termux |-> t, ocSet |-> o, writable |-> w, source |-> s]
MCProfile ==
  {Host(FALSE, FALSE, TRUE, TRUE), Host(FALSE, FALSE, FALSE, TRUE), Host(TRUE, FALSE, TRUE, FALSE),
   Host(TRUE, TRUE, TRUE, TRUE)}
MCGenerated ==
  {Nothing, <<>>, (prov :> MCUpstream[prov]) @@ (swap :> URL(Nothing, hostL, <<Seg("v1")>>)),
   (prov :> MCUpstream[prov]) @@ (gone :> URL(Nothing, hostP, <<>>)),
   prov :> URL(A, hostP, <<Seg("v1")>>), (prov :> Nothing) @@ (swap :> MCUpstream[swap])}
MCGeneratedOc ==
  {local :> URL(Nothing, hostL, <<Seg("v1")>>), prov :> URL(Nothing, hostP, <<Seg("v1"), Joined("beta")>>),
   prov :> URL(Nothing, hostL, <<>>)}

MCHostFacts ==
  {[container |-> c, termux |-> FALSE, devices |-> d, ram |-> r, cloud |-> cl, go |-> g] :
     c, cl, g \in BOOLEAN, d \in {0, 1}, r \in {8, 16}}
  \cup {[container |-> FALSE, termux |-> TRUE, devices |-> 0, ram |-> 8, cloud |-> TRUE, go |-> g] :
          g \in BOOLEAN}
MCRequests == {{}, {"nope"}, {Provisioning}, {Native}, {"coding-agent-image", "llama-swap-image"}}
MCOutput ==
  [t \in Target |->
     [s \in Stream |->
        IF t = Native /\ s = "stdout" THEN <<"a", "\r", "b", "\n", "\r", "\n", "c">>
        ELSE IF t = "llama-swap-image" THEN <<"a", "\n", "b">>
        ELSE IF t = "coding-agent-image" /\ s = "stderr" THEN <<"\n", "b", "\r">>
        ELSE <<>>]]

-----------------------------------------------------------------------------
\* tool is the one that runs; where the others would begin does not matter.
VARIABLE tool
generateVars == <<tool, folderVars, watchVars, probeVars, installVars, buildVars>>

GenerateInit ==
  /\ tool \in {"folder", "watch", "probe", "install", "build"}
  /\ FolderInit /\ (tool # "folder" =>
       folder = "pi-verboo" /\ served = CHOOSE a \in VerbooAnswers : Verboo!fetchListing(a) # Nil)
  /\ WatchInit /\ (tool # "watch" => keyed)
  /\ ProbeInit /\ (tool # "probe" => env = <<>> /\ ~tlsOff)
  /\ InstallInit /\ (tool # "install" =>
       host = (CHOOSE h \in MCProfile : TRUE) /\ agent.settings = Nothing /\ agent.mcp = Nothing)
  /\ BuildInit /\ (tool # "build" => machine = CHOOSE f \in MCHostFacts : TRUE)

GenerateNext ==
  /\ UNCHANGED tool
  /\ \/ /\ tool = "folder" /\ FolderNext
        /\ UNCHANGED <<watchVars, probeVars, installVars, buildVars>>
     \/ /\ tool = "watch" /\ WatchNext
        /\ UNCHANGED <<folderVars, probeVars, installVars, buildVars>>
     \/ /\ tool = "probe" /\ ProbeNext
        /\ UNCHANGED <<folderVars, watchVars, installVars, buildVars>>
     \/ /\ tool = "install" /\ InstallNext
        /\ UNCHANGED <<folderVars, watchVars, probeVars, buildVars>>
     \/ /\ tool = "build" /\ BuildNext
        /\ UNCHANGED <<folderVars, watchVars, probeVars, installVars>>

GenerateSpec == GenerateInit /\ [][GenerateNext]_generateVars
=============================================================================
