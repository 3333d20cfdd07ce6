------------------------------ MODULE HarManifest ------------------------------
(***************************************************************************)
(* git/vbs-har.mjs: from the responses a browser recorded, in the order it  *)
(* recorded them, the manifest of the repositories to mirror.               *)
(***************************************************************************)
EXTENDS Naturals, Sequences, FiniteSets, SequencesExt

CONSTANTS
  Entry,    \* the recorded responses
  HarNil,   \* an absent or empty field
  Recorded  \* bound: entries in a recording

\* An entry: what it answers ("projects", "repos" of a project, "other"), whether its
\* body was kept and parses, the shape of the body and the list in it.  A listed
\* project has id and slug, a listed repository is its name.
VARIABLES har, manifest
harVars == <<har, manifest>>

HarInit == har = <<>> /\ manifest = HarNil

\* An array, a named list or a map of objects is a list; any other body is an empty one.
asArray(e) == IF e.shape \in {"array", "named", "map"} THEN e.list ELSE <<>>

\* A field, or, where it has no value, what is looked at next.
pick(value, next) == IF value = HarNil THEN next ELSE value

slugFromId(id) == IF id = HarNil THEN HarNil ELSE <<"slug", id>>

Usable(e) == e.text

\* A later entry replaces an earlier one.
Latest(indices) == CHOOSE i \in indices : \A j \in indices : j <= i

\* The lists of projects that are not empty.
ProjectLists(h) ==
  {i \in 1..Len(h) : Usable(h[i]) /\ h[i].kind = "projects" /\ asArray(h[i]) # <<>>}

\* The bodies of one project, and the projects that have one.
RepoBodies(h, id) == {i \in 1..Len(h) : Usable(h[i]) /\ h[i].kind = "repos" /\ h[i].project = id}
Captured(h) == {h[i].project : i \in {j \in 1..Len(h) : Usable(h[j]) /\ h[j].kind = "repos"}}

\* Without a list of projects, those whose repositories were seen.
projectList(h) ==
  LET listed == IF ProjectLists(h) = {} THEN {}
                ELSE {[id |-> p.id, slug |-> pick(p.slug, slugFromId(p.id))] :
                        p \in ToSet(asArray(h[Latest(ProjectLists(h))]))}
      known == {p \in listed : p.id # HarNil}
  IN IF known # {} THEN known ELSE {[id |-> i, slug |-> slugFromId(i)] : i \in Captured(h)}

\* Faulty variant: a project whose list is empty is not missing either.
harToManifestLoose(h) ==
  LET projects == projectList(h)
  IN [projects |-> projects,
      repositories |->
        {<<p.id, p.slug, r>> : p \in projects, r \in
           UNION {ToSet(asArray(h[i])) : i \in {j \in 1..Len(h) : h[j].kind = "repos"}}},
      missing |-> {p \in projects : p.id \notin Captured(h)}]

harToManifest(h) ==
  LET projects == projectList(h)
      repos(p) == IF p.id \in Captured(h) THEN ToSet(asArray(h[Latest(RepoBodies(h, p.id))])) ELSE {}
  IN [projects |-> projects,
      repositories |-> UNION {{<<p.id, p.slug, r>> : r \in repos(p) \ {HarNil}} : p \in projects},
      missing |-> {p \in projects : p.id \notin Captured(h)}]

Record ==
  /\ manifest = HarNil /\ Len(har) < Recorded
  /\ \E e \in Entry : har' = Append(har, e)
  /\ UNCHANGED manifest

Extract ==
  /\ manifest = HarNil /\ har # <<>>
  /\ manifest' = harToManifest(har)
  /\ UNCHANGED har

HarNext == Record \/ Extract

HarSpec == HarInit /\ [][HarNext]_harVars

\* The gap is explicit: a project of the manifest is missing, or its repositories are
\* those of the last answer for it, and no repository comes without its project
\* ("so the gap is explicit rather than silent", vbs-har.mjs).
GapExplicit ==
  manifest # HarNil =>
    /\ \A p \in manifest.projects :
         \/ p \in manifest.missing /\ ~\E x \in manifest.repositories : x[1] = p.id
         \/ \E i \in 1..Len(har) :
              /\ har[i].kind = "repos" /\ har[i].project = p.id /\ har[i].text
              /\ \A j \in (i + 1)..Len(har) : har[j].kind # "repos" \/ har[j].project # p.id \/ ~har[j].text
              /\ {x[3] : x \in {y \in manifest.repositories : y[1] = p.id}}
                   = {r \in ToSet(asArray(har[i])) : r # HarNil}
    /\ \A x \in manifest.repositories : \E p \in manifest.projects : p.id = x[1]
=============================================================================
