---------------------------- MODULE ReleaseRegistry ----------------------------
(***************************************************************************)
(* What both publication routes together promise the users of a            *)
(* repository, without commands, workflow runs, checkouts or failures.  A  *)
(* version is tagged once and never again, by somebody who annotated the   *)
(* tag, and published once, at its tag.                                    *)
(* Where the workflow publishes, a commit has one version, a published one *)
(* gets no other release, and a release is first a draft.  As long as it   *)
(* read nothing wrong, that draft is the only release of its version, and  *)
(* becomes stable when it is complete.                                     *)
(* Nothing is removed, and a stable release gets at most the assets it     *)
(* lacks, and those only from a workflow that races with the direct route. *)
(***************************************************************************)
EXTENDS ReleasePolicy

VARIABLES
  strategy,   \* the repository's publication route, "workflow" or "direct"
  tags,       \* [version, commit, annotated]
  releases,
  reliable    \* no workflow run took a failed read for an absence

vars == <<strategy, tags, releases, reliable>>

TagOf(release) == [version |-> release.version, commit |-> release.commit, annotated |-> TRUE]

Alone == strategy = "workflow" /\ reliable

Init ==
  /\ strategy \in {"workflow", "direct"}
  /\ tags = {TagOf(r) : r \in releases}
  /\ releases = Stable(releases)
  /\ \A r, s \in releases : r.version = s.version \/ r.commit = s.commit => r = s
  /\ reliable = TRUE

\* A version gets its tag, which is not one that GitHub makes for a release.
TagVersion ==
  /\ \E t \in tags' \ tags :
       /\ t.annotated
       /\ \A u \in tags : u.version # t.version
       /\ tags' = tags \cup {t}
  /\ UNCHANGED <<strategy, releases, reliable>>

\* The draft of a tagged version.
Drafted(r) ==
  /\ r.draft
  /\ strategy = "workflow" =>
       \A s \in releases : s.commit = r.commit => s.version = r.version /\ s.draft
  /\ Alone => \A s \in releases : s.version # r.version

\* The direct route publishes at once.
Published(r) ==
  /\ ~r.draft /\ strategy = "direct"
  /\ \A s \in Stable(releases) : s.version # r.version

\* A tagged version gets a release.
Open ==
  /\ \E r \in releases' \ releases :
       /\ TagOf(r) \in tags
       /\ Drafted(r) \/ Published(r)
       /\ releases' = releases \cup {r}
  /\ UNCHANGED <<strategy, tags, reliable>>

Change(r, changed) ==
  /\ releases' = (releases \ {r}) \cup {changed}
  /\ UNCHANGED <<strategy, tags, reliable>>

\* A release gets the assets it lacks.
Upload ==
  \E r \in releases :
    /\ ~r.complete
    /\ r.draft \/ strategy = "direct"
    /\ Change(r, [r EXCEPT !.complete = TRUE])

\* A draft becomes the stable release of its version.
Publish ==
  \E r \in releases :
    /\ r.draft
    /\ \A s \in Stable(releases) : s.version # r.version
    /\ Alone => r.complete
    /\ Change(r, [r EXCEPT !.draft = FALSE])

\* A workflow run does not see what is there.
Misread ==
  /\ reliable' = FALSE
  /\ UNCHANGED <<strategy, tags, releases>>

Next == TagVersion \/ Open \/ Upload \/ Publish \/ Misread

Spec == Init /\ [][Next]_vars
================================================================================
