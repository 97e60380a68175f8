---------------------------- MODULE ReleasePolicy ----------------------------
(***************************************************************************)
(* What a release is and which one comes next: release, the pure parts of  *)
(* release_ops, release_preparation, release_classification and            *)
(* release_recommendation_aggregation, and the plan step of the release    *)
(* workflow.                                                               *)
(*                                                                         *)
(* A version is <<minor, patch>>: a major increment is to minor what minor *)
(* is to patch and is left out, as are prereleases, which nothing creates. *)
(* main is the sequence of its merge commits; a commit is its position.    *)
(***************************************************************************)
EXTENDS Naturals, Sequences

Version == Nat \X Nat
Level == {"patch", "minor"}

\* A pull request's release:* label, and what its Contract declares.
Label == Level \cup {"none", "missing"}
Impact == Level \cup {"none", "unclassified"}

\* A merge commit: the version its files declare, its label and its Contract.
MergeCommit == [version : Version, label : Label, impact : Impact]

\* The release of a tag; complete: all assets and checksums are uploaded.  id tells two
\* drafts of one tag apart.
Release == [id : Nat, version : Version, commit : Nat, draft : BOOLEAN, complete : BOOLEAN]

-------------------------------------------------------------------------------
(* Versions. *)

\* calculate_next_version, SemanticVersion.bump.
Bump(v, level) == IF level = "minor" THEN <<v[1] + 1, 0>> ELSE <<v[1], v[2] + 1>>

Newer(v, w) == v[1] > w[1] \/ (v[1] = w[1] /\ v[2] > w[2])

Newest(versions) == CHOOSE v \in versions : \A w \in versions \ {v} : Newer(v, w)

\* _RECOMMENDATION_RANK, _INCREMENT_RANK: the highest level asked for.
Highest(levels) ==
  IF "minor" \in levels THEN "minor" ELSE IF "patch" \in levels THEN "patch" ELSE "none"

-------------------------------------------------------------------------------
(* Releases.  Every commit of the model is reachable from main. *)

Stable(releases) == {r \in releases : ~r.draft}

\* latest_stable_version.
LatestStable(releases, initial) ==
  IF Stable(releases) = {} THEN initial ELSE Newest({r.version : r \in Stable(releases)})

StableFirst(releases) == IF Stable(releases) = {} THEN releases ELSE Stable(releases)

\* release_for_target_commit: a stable release before a draft.
ReleasesOf(releases, commit) == StableFirst({r \in releases : r.commit = commit})

\* gh release view: the published release of a tag, or else one of its drafts.
Viewed(releases, version) == StableFirst({r \in releases : r.version = version})

\* The commits after the one of the latest stable release.
Unreleased(main, releases) ==
  LET latest == {r.commit : r \in {s \in Stable(releases) :
                                     s.version = LatestStable(releases, <<0, 0>>)}} IN
  {c \in DOMAIN main : \A d \in latest : c > d}

-------------------------------------------------------------------------------
(* `devbot release preview`. *)

\* build_release_preview: the highest label of the unreleased commits, counted
\* from the latest stable release or, without one, from `initial`.  An unvalidated
\* target, a dirty checkout, a released target and a missing label are blockers.
Preview(main, releases, initial, blocked) ==
  LET commits == Unreleased(main, releases)
      level == Highest({main[c].label : c \in commits})
      base == LatestStable(releases, initial)
  IN [commit |-> Len(main),
      level |-> level,
      version |-> IF level = "none" THEN base ELSE Bump(base, level),
      ready |-> /\ ~blocked
                /\ Stable(ReleasesOf(releases, Len(main))) = {}
                /\ \A c \in commits : main[c].label # "missing"
                /\ level # "none"]

\* build_release_recommendation_aggregation over classify_release: one Contract
\* that cannot be classified refuses the whole recommendation.
Recommendation(main, releases) ==
  LET impacts == {main[c].impact : c \in Unreleased(main, releases)} IN
  IF "unclassified" \in impacts THEN "unclassified" ELSE Highest(impacts)

-------------------------------------------------------------------------------
(* The release workflow. *)

NoPlan == [publish |-> FALSE, version |-> <<0, 0>>]

\* manual_release_plan, and release_plan_for_pr with the level of the label: a
\* draft of the target is resumed, a released target is left alone, and the first
\* release has the version of the files.
Plan(level, commit, main, releases) ==
  LET here == ReleasesOf(releases, commit) IN
  IF here # {}
  THEN IF Stable(here) # {} THEN NoPlan
       ELSE [publish |-> TRUE, version |-> Newest({r.version : r \in here})]
  ELSE IF level \notin Level THEN NoPlan
  ELSE [publish |-> TRUE,
        version |-> IF Stable(releases) = {} THEN main[commit].version
                    ELSE Bump(LatestStable(releases, <<0, 0>>), level)]

\* "Prepare idempotent release publication": never move a tag, never touch a
\* stable release.  targets: the commits that ls-remote shows for the tag; seen: the
\* release that gh shows, if any.
PublicationState(commit, targets, seen) ==
  IF (targets \ {commit}) # {} \/ \E r \in seen : r.commit # commit THEN "refused"
  ELSE IF Stable(seen) # {}
  THEN IF \A r \in seen : r.complete THEN "already-published" ELSE "refused"
  ELSE IF seen # {} THEN "resume-draft"
  ELSE IF targets # {} THEN "resume-with-tag" ELSE "create"
===============================================================================
