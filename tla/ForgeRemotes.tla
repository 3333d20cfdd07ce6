----------------------------- MODULE ForgeRemotes -----------------------------
(***************************************************************************)
(* git/software-forge-remotes.mjs: one repository, three URLs.  And, from   *)
(* git/forge-mirror.mjs, the directory a public forge's URL names.          *)
(*                                                                         *)
(* A URL is what the WHATWG parser makes of it: path and fragment are       *)
(* sequences of non-empty segments, a host and a scheme are lower case, and  *)
(* the port is Nil where it is the scheme's own.                            *)
(* Strings are model values; what is cut off a string is a function.        *)
(***************************************************************************)
EXTENDS Naturals, Sequences

CONSTANTS
  Nil,        \* null, an absent segment and the empty string
  OrgOf,      \* OrgOf[h]: the leading label of a host under the forge's suffix, or Nil
  Dotted,     \* the hosts with a dot
  Odd,        \* segments with white space, ?, # or a backslash
  WithoutGit, \* WithoutGit[s]: s less its .git suffix; Nil for .git alone
  WithGit,    \* WithGit[s]: s with .git behind it
  IdOrg,      \* IdOrg[i], IdSlug[i]: the parts of <org>_<slug>_<numeric>;
  IdSlug,     \*   the suffix may be missing, not the slug
  Email       \* Email[u]: u without idcs-<hex>.

stripGitSuffix(s) == IF s = Nil THEN Nil ELSE WithoutGit[s]

slugFromProjectId(id, org) == IF IdOrg[id] = org THEN IdSlug[id] ELSE Nil

\* An index past the end of a JavaScript array.
At(s, i) == IF i \in 1..Len(s) THEN s[i] ELSE Nil
Or(a, b) == IF a = Nil THEN b ELSE a

Remote(kind, u, org, id, slug, repo) ==
  [kind |-> kind, host |-> u.host, org |-> org, projectId |-> id,
   projectSlug |-> slug, repo |-> repo, user |-> u.user]

\* The browser's link: the identity is in the fragment, the id unknown.
GlassRemote(u) ==
  LET repo == stripGitSuffix(At(u.hash, 4))
  IN IF /\ At(u.hash, 1) = "projects" /\ At(u.hash, 3) = "scm"
        /\ repo # Nil
     THEN Remote("glass", u, Or(At(u.path, 1), OrgOf[u.host]), Nil, u.hash[2], repo)
     ELSE Nil

HttpsRemote(u) ==
  LET repo == stripGitSuffix(At(u.path, 5))
  IN IF /\ At(u.path, 2) = "s" /\ At(u.path, 4) = "scm"
        /\ repo # Nil
     THEN Remote("https", u, u.path[1], u.path[3],
                 slugFromProjectId(u.path[3], u.path[1]), repo)
     ELSE Nil

\* Faulty variant: the slug is left out where the URL does not spell it.
SshRemoteNoSlug(u) ==
  LET repo == stripGitSuffix(At(u.path, 2))
  IN IF u.scheme = "ssh" /\ Len(u.path) = 2 /\ repo # Nil
     THEN Remote("ssh", u, OrgOf[u.host], u.path[1], Nil, repo)
     ELSE Nil

SshRemote(u) ==
  LET repo == stripGitSuffix(At(u.path, 2))
  IN IF u.scheme = "ssh" /\ Len(u.path) = 2 /\ repo # Nil
     THEN Remote("ssh", u, OrgOf[u.host], u.path[1],
                 slugFromProjectId(u.path[1], OrgOf[u.host]), repo)
     ELSE Nil

parseSoftwareForgeRemote(u) ==
  IF u = Nil \/ OrgOf[u.host] = Nil THEN Nil
  ELSE Or(GlassRemote(u), Or(HttpsRemote(u), SshRemote(u)))

softwareForgeUserEmail(r) == IF r.user = Nil THEN Nil ELSE Email[r.user]

\* The fetch URLs; only a parse that knows the project id has them.
softwareForgeHttpsUrl(r) ==
  IF r.projectId = Nil THEN Nil
  ELSE [scheme |-> "https", host |-> r.host, user |-> softwareForgeUserEmail(r),
        port |-> Nil, path |-> <<r.org, "s", r.projectId, "scm", WithGit[r.repo]>>,
        hash |-> <<>>]

softwareForgeSshUrl(r) ==
  IF r.projectId = Nil THEN Nil
  ELSE [scheme |-> "ssh", host |-> r.host, user |-> r.user,
        port |-> Nil, path |-> <<r.projectId, WithGit[r.repo]>>, hash |-> <<>>]

softwareForgeGlassUrl(r) ==
  IF r.projectSlug = Nil THEN Nil
  ELSE [scheme |-> "https", host |-> r.host, user |-> Nil, port |-> Nil, path |-> <<r.org>>,
        hash |-> <<"projects", r.projectSlug, "scm", WithGit[r.repo], "tree">>]

softwareForgeMirrorRelPath(r) == <<r.org, Or(r.projectSlug, r.projectId), r.repo>>

\* forge-mirror.mjs: the directory of an https forge's URL, or Nil.  A query is
\* refused like a fragment; the port is dropped with url.host.
parsePublicForgeUrl(u) ==
  LET n == Len(u.path)
  IN IF /\ u.scheme = "https" /\ u.user = Nil /\ u.hash = <<>> /\ u.host \in Dotted
        /\ n >= 2
        /\ \A i \in 1..n : u.path[i] \notin Odd
        /\ stripGitSuffix(u.path[n]) # Nil
     THEN <<u.host>> \o SubSeq(u.path, 1, n - 1) \o <<stripGitSuffix(u.path[n])>>
     ELSE Nil
=============================================================================
