--------------------------- MODULE ReleasePipeline ---------------------------
(***************************************************************************)
(* The releases of one repository: the operator's release commands         *)
(* (release_orchestration, release_publish, release_preparation,           *)
(* release_ops) and the release workflow (.github/workflows/release.yml)   *)
(* that runs on every push to main and on every dispatch, over one origin. *)
(*                                                                         *)
(* The reads of one preview or plan are one step, and so is each git or    *)
(* GitHub write.  Other people merge pull requests at any time; the        *)
(* operator touches the checkout between commands.                         *)
(*                                                                         *)
(* GitHub, as the code uses it: a tag has at most one published release    *)
(* and any number of drafts beside it; what asks for the release of a tag  *)
(* is answered with the published one, and only gh, for want of one, with  *)
(* a draft.                                                                *)
(*                                                                         *)
(* Bounds: MaxMain commits, MaxCommands commands, MaxDispatches dispatches *)
(* by hand, MaxFaults failing calls, and MaxBlindReads runs that take a    *)
(* failed read for an absence.                                             *)
(***************************************************************************)
EXTENDS ReleasePolicy, FiniteSets

CONSTANTS
  Changes,      \* [label, impact] of the pull requests people merge
  MaxMain,
  MaxCommands,
  MaxDispatches,
  MaxFaults,
  MaxBlindReads

ASSUME ReleasePipelineAssumption ==
  /\ Changes \subseteq [label : Label, impact : Impact]
  /\ MaxMain \in Nat \ {0}
  /\ MaxCommands \in Nat
  /\ MaxDispatches \in Nat
  /\ MaxFaults \in Nat
  /\ MaxBlindReads \in Nat

VARIABLES
  strategy,     \* publish_strategy of the repository
  main,         \* origin's main
  releases,
  remoteTags,   \* origin's tags
  localTags,    \* the checkout's tags
  checkout,
  cmd,          \* the command in progress
  workflow,     \* the run in progress
  queued,       \* the run that waits for it
  reported,     \* auxiliary: what the last command reported
  commands,
  dispatches,
  faults,
  blindReads    \* auxiliary but for its bound

originVars == <<main, releases, remoteTags>>
localVars == <<localTags, checkout>>
workflowVars == <<workflow, queued>>
bounds == <<commands, dispatches, faults, blindReads>>
vars == <<strategy, originVars, localVars, cmd, workflowVars, reported, bounds>>

\* annotated: pushed as a tag, not made by GitHub for a release.
Tag == [version : Version, commit : Nat, annotated : BOOLEAN]

\* onMain: HEAD is main.  main: where the local main is.  py, lock: the version
\* in pyproject.toml and in uv.lock.
Checkout == [onMain : BOOLEAN, main : Nat, py : Version, lock : Version, dirty : BOOLEAN]

Command == {"none", "publish", "run", "publish-prepared"}

Step == {"idle", "prepare", "dispatch", "wait", "preview", "tag", "push", "release"}

Cmd ==
  [kind : Command, step : Step, level : Level \cup {"none"}, commit : Nat,
   version : Version, ready : BOOLEAN]

NoCmd ==
  [kind |-> "none", step |-> "idle", level |-> "none", commit |-> 0,
   version |-> <<0, 0>>, ready |-> FALSE]

WorkflowStep == {"none", "plan", "state", "tag", "draft", "upload", "stable"}

Run ==
  [event : {"push", "dispatch"}, level : Label, commit : Nat,
   step : WorkflowStep, version : Version]

NoRun ==
  [event |-> "push", level |-> "none", commit |-> 0, step |-> "none", version |-> <<0, 0>>]

Outcome ==
  {"none", "refused", "partial", "prepared-pending-commit", "published", "already-published"}

NoReport == [outcome |-> "none", commit |-> 0, version |-> <<0, 0>>]

\* A first commit that declares 0.1, released as 0.1 or not at all.
Init ==
  /\ strategy \in {"workflow", "direct"}
  /\ main = <<[version |-> <<0, 1>>, label |-> "none", impact |-> "none"]>>
  /\ releases \in {{}, {[id |-> 1, version |-> <<0, 1>>, commit |-> 1, draft |-> FALSE,
                         complete |-> TRUE]}}
  /\ remoteTags = {[version |-> r.version, commit |-> 1, annotated |-> TRUE] : r \in releases}
  /\ localTags = {[version |-> r.version, commit |-> 1] : r \in releases}
  /\ checkout = [onMain |-> TRUE, main |-> 1, py |-> <<0, 1>>, lock |-> <<0, 1>>, dirty |-> FALSE]
  /\ cmd = NoCmd
  /\ workflow = NoRun
  /\ queued = NoRun
  /\ reported = NoReport
  /\ commands = 0
  /\ dispatches = 0
  /\ faults = 0
  /\ blindReads = 0

-------------------------------------------------------------------------------
Fault == faults < MaxFaults /\ faults' = faults + 1
NoFault == UNCHANGED faults

Go(step) == cmd' = [cmd EXCEPT !.step = step] /\ UNCHANGED reported

End(outcome) ==
  /\ cmd' = NoCmd
  /\ reported' = [outcome |-> outcome, commit |-> cmd.commit, version |-> cmd.version]

\* The commits a version's tag points at.
Targets(tags, version) == {t.commit : t \in {u \in tags : u.version = version}}

\* git push: origin rejects a tag it has.
TagIsFree(version) == Targets(remoteTags, version) = {}

\* read_current_version: both files declare it.
SourcesAgree == checkout.py = checkout.lock

Start(command) ==
  /\ cmd = NoCmd
  /\ commands < MaxCommands
  /\ commands' = commands + 1
  /\ cmd' = command
  /\ reported' = NoReport
  /\ UNCHANGED <<strategy, originVars, localVars, workflowVars, dispatches, faults, blindReads>>

-------------------------------------------------------------------------------
(* Commands. *)

\* devbot release publish: nothing is dispatched unless the preview is ready.
StartPublish ==
  /\ strategy = "workflow"
  /\ LET preview == Preview(main, releases, main[1].version, checkout.dirty) IN
     /\ preview.ready
     /\ Start([NoCmd EXCEPT !.kind = "publish", !.step = "dispatch", !.level = preview.level,
                            !.commit = preview.commit, !.version = preview.version,
                            !.ready = TRUE])

\* The newest release that was published, whatever it targets.
Baseline == LatestStable(releases, <<0, 0>>)

\* devbot release run at the recommended level.  The workflow route releases the
\* next version of the labels and refuses when they disagree; the direct route
\* that of the recommendation.
StartRun ==
  LET level == Recommendation(main, releases) IN
  /\ level \in Level
  /\ SourcesAgree
  /\ \/ /\ strategy = "workflow"
        /\ \E unvalidated \in BOOLEAN :
             LET preview == Preview(main, releases, main[1].version,
                                    checkout.dirty \/ unvalidated) IN
             /\ preview.level = level
             /\ Start([NoCmd EXCEPT !.kind = "run", !.step = "prepare", !.level = level,
                                    !.commit = preview.commit, !.version = preview.version,
                                    !.ready = preview.ready])
     \/ /\ strategy = "direct"
        /\ Start([NoCmd EXCEPT !.kind = "run", !.step = "prepare", !.level = level,
                               !.version = Bump(Baseline, level)])

\* devbot release publish-prepared.
StartPublishPrepared ==
  /\ strategy = "direct"
  /\ Start([NoCmd EXCEPT !.kind = "publish-prepared", !.step = "preview"])

\* prepare_release: both files, or after a crash only pyproject.toml.  An error
\* on uv.lock rolls pyproject.toml back.
Prepared(level) ==
  LET next == Bump(checkout.py, level) IN
  \/ checkout' = [checkout EXCEPT !.py = next, !.lock = next, !.dirty = TRUE] /\ NoFault
  \/ checkout' \in {checkout, [checkout EXCEPT !.py = next, !.dirty = TRUE]} /\ Fault

\* The direct route skips it when the clean checkout already holds the target.
\* Both compare what was prepared with what is to be published only afterwards,
\* and so does the workflow route with the blockers of its preview.
Prepare ==
  /\ cmd.step = "prepare"
  /\ IF strategy = "direct" /\ ~checkout.dirty /\ SourcesAgree /\ checkout.py = cmd.version
     THEN Go("preview") /\ NoFault /\ UNCHANGED checkout
     ELSE IF ~SourcesAgree THEN End("refused") /\ NoFault /\ UNCHANGED checkout
     ELSE /\ Prepared(cmd.level)
          /\ IF checkout'.lock # cmd.version \/ faults' # faults THEN End("refused")
             ELSE IF strategy = "direct" THEN Go("preview")
             ELSE IF cmd.ready THEN Go("dispatch") ELSE End("refused")
  /\ UNCHANGED <<strategy, originVars, localTags, workflowVars, commands, dispatches, blindReads>>

\* devbot release prepare.
PrepareOnly ==
  /\ cmd = NoCmd /\ SourcesAgree
  /\ commands < MaxCommands
  /\ commands' = commands + 1
  /\ \E level \in Level : Prepared(level)
  /\ reported' = NoReport
  /\ UNCHANGED <<strategy, originVars, localTags, cmd, workflowVars, dispatches, blindReads>>

-------------------------------------------------------------------------------
(* The workflow route: dispatch, wait, validate. *)

\* The concurrency group keeps one waiting run; a newer one replaces it.
Enqueue(event, level, commit) ==
  /\ queued' = [event |-> event, level |-> level, commit |-> commit,
                step |-> "plan", version |-> <<0, 0>>]
  /\ UNCHANGED workflow

\* A lost answer does not say whether the run exists, or exists twice.
Dispatch ==
  /\ cmd.step = "dispatch"
  /\ \/ Enqueue("dispatch", cmd.level, cmd.commit) /\ Go("wait") /\ NoFault
     \/ /\ Enqueue("dispatch", cmd.level, cmd.commit) \/ UNCHANGED workflowVars
        /\ End("refused") /\ Fault
  /\ UNCHANGED <<strategy, originVars, localVars, commands, dispatches, blindReads>>

\* Faulty: the conclusion of the run is taken for the release.
ConclusionTrusted == TRUE

\* validate_published_release of the previewed version, after the workflow said
\* success.
Validated ==
  \E r \in Stable(releases) :
    r.version = cmd.version /\ r.commit = cmd.commit /\ r.complete

ValidatedOutcome == IF Validated THEN "published" ELSE "refused"

\* The awaited run failed, was cancelled, or did not appear or end in time.
WaitFails ==
  /\ cmd.step = "wait"
  /\ End("refused")
  /\ UNCHANGED <<strategy, originVars, localVars, workflowVars, bounds>>

\* A dispatched run that ended is taken for the awaited one: the newest since
\* the dispatch, which may be somebody else's.
Finish ==
  /\ workflow' = NoRun
  /\ \/ UNCHANGED <<cmd, reported>>
     \/ workflow.event = "dispatch" /\ cmd.step = "wait" /\ End(ValidatedOutcome)
  /\ UNCHANGED queued

-------------------------------------------------------------------------------
(* The direct route: preview, tag, push, release. *)

\* Faulty: the local main is not compared with origin's.
StaleMainAccepted == FALSE

\* A missing local main is not a blocker; this checkout has one.
StaleMain == checkout.main # Len(main)

\* preview_release_publish.  `run` reports an uncommitted or unpushed version as
\* prepared.  The version is that of the files, whatever HEAD is.
PreviewPublish ==
  /\ cmd.step = "preview"
  /\ LET version == checkout.py
         target == Len(main)
         tags == Targets(localTags, version) \cup Targets(remoteTags, version)
         made == {r \in Stable(releases) : r.version = version}
     IN IF ~SourcesAgree THEN End("refused")
        ELSE IF checkout.dirty \/ StaleMain
        THEN End(IF cmd.kind = "run" THEN "prepared-pending-commit" ELSE "refused")
        ELSE IF (tags \ {target}) # {} \/ \E r \in made : r.commit # target THEN End("refused")
        ELSE IF tags # {} /\ made # {}
        THEN /\ cmd' = NoCmd
             /\ reported' = [outcome |-> "already-published", commit |-> target,
                             version |-> version]
        ELSE /\ cmd' = [cmd EXCEPT !.step = "tag", !.commit = target, !.version = version]
             /\ UNCHANGED reported
  /\ UNCHANGED <<strategy, originVars, localVars, workflowVars, bounds>>

\* _ensure_tag_created_and_pushed, the local half.
TagLocally ==
  /\ cmd.step = "tag"
  /\ LET targets == Targets(localTags, cmd.version) IN
     \/ targets = {} /\ Go("push") /\ NoFault
        /\ localTags' = localTags \cup {[version |-> cmd.version, commit |-> cmd.commit]}
     \/ targets = {cmd.commit} /\ Go("push") /\ NoFault /\ UNCHANGED localTags
     \/ targets \notin {{}, {cmd.commit}} /\ End("refused") /\ NoFault /\ UNCHANGED localTags
     \/ End("refused") /\ Fault /\ UNCHANGED localTags
  /\ UNCHANGED <<strategy, originVars, checkout, workflowVars, commands, dispatches, blindReads>>

TagIsPushed == cmd.commit \in Targets(remoteTags, cmd.version)

\* The remote half: only origin's own tag makes the push unnecessary.
PushTag ==
  /\ cmd.step = "push"
  /\ LET pushed == remoteTags \cup
           {[version |-> cmd.version, commit |-> cmd.commit, annotated |-> TRUE]}
     IN \/ TagIsPushed /\ Go("release") /\ NoFault /\ UNCHANGED remoteTags
        \/ ~TagIsPushed /\ TagIsFree(cmd.version) /\ Go("release") /\ NoFault /\ remoteTags' = pushed
        \/ ~TagIsPushed /\ ~TagIsFree(cmd.version) /\ End("refused") /\ NoFault /\ UNCHANGED remoteTags
        \/ /\ End("refused") /\ Fault
           /\ remoteTags' \in {remoteTags} \cup (IF TagIsFree(cmd.version) THEN {pushed} ELSE {})
  /\ UNCHANGED <<strategy, main, releases, localVars, workflowVars, commands, dispatches, blindReads>>

\* Releases are numbered as they come; none is removed.
NewRelease(version, commit, draft, complete) ==
  [id |-> Cardinality(releases) + 1, version |-> version, commit |-> commit,
   draft |-> draft, complete |-> complete]

\* create_release.  GitHub refuses a second published release of a tag, does not mind a
\* draft, and tags the commit itself when the tag is missing.
Released(tags) ==
  /\ releases' = releases \cup {NewRelease(cmd.version, cmd.commit, FALSE, FALSE)}
  /\ remoteTags' = IF Targets(tags, cmd.version) # {} THEN tags
                   ELSE tags \cup {[version |-> cmd.version, commit |-> cmd.commit,
                                    annotated |-> FALSE]}

CreateRelease ==
  /\ cmd.step = "release"
  /\ LET taken == \E r \in Stable(releases) : r.version = cmd.version IN
     \/ ~taken /\ Released(remoteTags) /\ End("published") /\ NoFault
     \/ ~taken /\ Released(remoteTags) /\ End("partial") /\ Fault
     \/ UNCHANGED <<releases, remoteTags>> /\ End("partial")
        /\ ((taken /\ NoFault) \/ Fault)
  /\ UNCHANGED <<strategy, main, localVars, workflowVars, commands, dispatches, blindReads>>

-------------------------------------------------------------------------------
(* The release workflow. *)

StartQueued ==
  /\ workflow = NoRun /\ queued # NoRun
  /\ workflow' = queued
  /\ queued' = NoRun
  /\ UNCHANGED <<strategy, originVars, localVars, cmd, reported, bounds>>

WorkflowGo(step) ==
  workflow' = [workflow EXCEPT !.step = step] /\ UNCHANGED <<queued, cmd, reported>>

\* A push is released at the level of its own label.
WorkflowPlan ==
  /\ workflow.step = "plan"
  /\ LET plan == Plan(workflow.level, workflow.commit, main, releases) IN
     IF plan.publish
     THEN /\ workflow' = [workflow EXCEPT !.step = "state", !.version = plan.version]
          /\ UNCHANGED <<queued, cmd, reported>>
     ELSE Finish
  /\ UNCHANGED <<strategy, originVars, localVars, bounds>>

\* Faulty: a failed run keeps the concurrency group.
StopHolding ==
  workflow' = [workflow EXCEPT !.step = "failed"] /\ UNCHANGED <<queued, cmd, reported>>

\* A run that fails is not the awaited one's success.
Stop == workflow' = NoRun /\ UNCHANGED <<queued, cmd, reported>>

\* Tag and release are looked up by commands whose exit status decides: one that fails
\* says that there is none.
WorkflowState ==
  /\ workflow.step = "state"
  /\ LET tagged == Targets(remoteTags, workflow.version)
         shown == Viewed(releases, workflow.version)
     IN \E targets \in {tagged, {}}, seen \in {{}} \cup {{r} : r \in shown} :
          LET state == PublicationState(workflow.commit, targets, seen) IN
          /\ IF targets = tagged /\ (seen = {} => shown = {}) THEN UNCHANGED blindReads
             ELSE blindReads < MaxBlindReads /\ blindReads' = blindReads + 1
          /\ CASE state = "create" -> WorkflowGo("tag")
               [] state = "resume-with-tag" -> WorkflowGo("draft")
               [] state = "resume-draft" -> WorkflowGo("upload")
               [] state = "already-published" -> Finish
               [] OTHER -> Stop
  /\ UNCHANGED <<strategy, originVars, localVars, commands, dispatches, faults>>

WorkflowTag ==
  /\ workflow.step = "tag"
  /\ IF TagIsFree(workflow.version)
     THEN /\ remoteTags' = remoteTags \cup {[version |-> workflow.version,
                                            commit |-> workflow.commit, annotated |-> TRUE]}
          /\ WorkflowGo("draft")
     ELSE Stop /\ UNCHANGED remoteTags
  /\ UNCHANGED <<strategy, main, releases, localVars, bounds>>

\* The draft and its assets: an upload that fails leaves an incomplete draft.  A draft is
\* made whatever else the tag has.
WorkflowDraft ==
  /\ workflow.step = "draft"
  /\ \E complete \in BOOLEAN :
       /\ releases' = releases \cup
            {NewRelease(workflow.version, workflow.commit, TRUE, complete)}
       /\ IF complete THEN WorkflowGo("stable") /\ NoFault ELSE Stop /\ Fault
  /\ UNCHANGED <<strategy, main, remoteTags, localVars, commands, dispatches, blindReads>>

\* Faulty: the draft that a failed run left is not completed.
UploadSkipped ==
  /\ workflow.step = "upload"
  /\ WorkflowGo("stable")
  /\ UNCHANGED <<strategy, originVars, localVars, bounds>>

\* gh release upload --clobber, and edit --draft=false: of the release gh shows.
WorkflowUpload ==
  /\ workflow.step = "upload"
  /\ \E r \in Viewed(releases, workflow.version) :
       releases' = (releases \ {r}) \cup {[r EXCEPT !.complete = TRUE]}
  /\ WorkflowGo("stable")
  /\ UNCHANGED <<strategy, main, remoteTags, localVars, bounds>>

WorkflowPublish ==
  /\ workflow.step = "stable"
  /\ \E r \in Viewed(releases, workflow.version) :
       releases' = (releases \ {r}) \cup {[r EXCEPT !.draft = FALSE]}
  /\ Finish
  /\ UNCHANGED <<strategy, main, remoteTags, localVars, bounds>>

\* Any job of a run fails; what it did stays.
WorkflowFails ==
  /\ workflow # NoRun
  /\ Stop /\ Fault
  /\ UNCHANGED <<strategy, originVars, localVars, commands, dispatches, blindReads>>

-------------------------------------------------------------------------------
(* People. *)

\* main advances, and the push starts the workflow.
Merged(change, version) ==
  /\ main' = Append(main, [version |-> version, label |-> change.label, impact |-> change.impact])
  /\ Enqueue("push", change.label, Len(main) + 1)

PersonMerges ==
  /\ Len(main) < MaxMain
  /\ \E change \in Changes : Merged(change, main[Len(main)].version)
  /\ UNCHANGED <<strategy, releases, remoteTags, localVars, cmd, reported, bounds>>

\* The operator commits the prepared files on a branch.
CommitPrepared ==
  /\ cmd = NoCmd /\ checkout.dirty /\ SourcesAgree
  /\ checkout' = [checkout EXCEPT !.dirty = FALSE, !.onMain = FALSE]
  /\ UNCHANGED <<strategy, originVars, localTags, cmd, workflowVars, reported, bounds>>

\* And its pull request is merged, or that of another operator.
MergePrepared ==
  /\ Len(main) < MaxMain
  /\ \E version \in {Bump(main[Len(main)].version, "patch")} \cup
                    (IF checkout.onMain \/ checkout.dirty THEN {} ELSE {checkout.py}) :
       /\ version # main[Len(main)].version
       /\ Merged([label |-> "none", impact |-> "none"], version)
  /\ UNCHANGED <<strategy, releases, remoteTags, localVars, cmd, reported, bounds>>

\* git checkout main and git pull, which brings origin's tags; changes are discarded.
SyncCheckout ==
  /\ cmd = NoCmd
  /\ LET version == main[Len(main)].version IN
     checkout' = [onMain |-> TRUE, main |-> Len(main), py |-> version, lock |-> version,
                  dirty |-> FALSE]
  /\ localTags' = localTags \cup
       {[version |-> t.version, commit |-> t.commit] :
          t \in {u \in remoteTags : Targets(localTags, u.version) = {}}}
  /\ UNCHANGED <<strategy, originVars, cmd, workflowVars, reported, bounds>>

\* Somebody dispatches the workflow, or runs it again, for a commit of main.
PersonDispatches ==
  /\ dispatches < MaxDispatches
  /\ dispatches' = dispatches + 1
  /\ \E level \in Level, commit \in DOMAIN main : Enqueue("dispatch", level, commit)
  /\ UNCHANGED <<strategy, originVars, localVars, cmd, reported, commands, faults, blindReads>>

-------------------------------------------------------------------------------
Commands ==
  \/ StartPublish \/ StartRun \/ StartPublishPrepared \/ PrepareOnly
  \/ Prepare \/ Dispatch \/ WaitFails
  \/ PreviewPublish \/ TagLocally \/ PushTag \/ CreateRelease

Workflow ==
  \/ StartQueued \/ WorkflowPlan \/ WorkflowState \/ WorkflowTag \/ WorkflowDraft
  \/ WorkflowUpload \/ WorkflowPublish \/ WorkflowFails

People ==
  \/ PersonMerges \/ CommitPrepared \/ MergePrepared \/ SyncCheckout \/ PersonDispatches

Next == Commands \/ Workflow \/ People

Spec == Init /\ [][Next]_vars

-------------------------------------------------------------------------------
(* Properties. *)

\* Every variable has its type.
TypeOK ==
  /\ strategy \in {"workflow", "direct"}
  /\ main \in Seq(MergeCommit)
  /\ releases \subseteq Release
  /\ remoteTags \subseteq Tag
  /\ localTags \subseteq [version : Version, commit : Nat]
  /\ checkout \in Checkout
  /\ cmd \in Cmd
  /\ workflow \in Run
  /\ queued \in Run
  /\ reported \in [outcome : Outcome, commit : Nat, version : Version]
  /\ commands \in 0..MaxCommands
  /\ dispatches \in 0..MaxDispatches
  /\ faults \in 0..MaxFaults
  /\ blindReads \in 0..MaxBlindReads

\* Task 049: a release, draft or not, stands on an annotated tag somebody pushed,
\* at the commit the release targets; GitHub never had to make the tag itself.
ReleaseStandsOnPushedTag ==
  \A r \in releases :
    [version |-> r.version, commit |-> r.commit, annotated |-> TRUE] \in remoteTags

\* Both routes and the workflow race for tags and releases: a version is one tag and one
\* published release all the same, whatever drafts stand beside it.
VersionIsUnique ==
  /\ \A t, u \in remoteTags : t.version = u.version => t = u
  /\ \A r, s \in Stable(releases) : r.version = s.version => r = s

\* Where only the workflow publishes, a commit is released under one version and
\* published once, whatever was dispatched, repeated, resumed or misread.
CommitReleasedOnce ==
  strategy = "workflow" =>
    \A r, s \in releases : r.commit = s.commit =>
      r.version = s.version /\ (r.draft \/ s.draft \/ r = s)

\* A command that reports a publication names a release that is published, and so seen by
\* the users of the repository; a dispatched one has its assets.
ReportIsTrue ==
  reported.outcome \in {"published", "already-published"} =>
    \E r \in Stable(releases) :
      /\ r.version = reported.version /\ r.commit = reported.commit
      /\ strategy = "workflow" => r.complete

\* Task 049: a tag the direct route makes from a checkout of main points at the
\* commit that declares its version, though main advances during the command.
DirectTagDeclaresVersion ==
  [][localTags' # localTags /\ cmd.step = "tag" /\ checkout.onMain =>
       main[cmd.commit].version = cmd.version]_vars

\* Whatever the commands, the workflow runs and people do to each other, and wherever they
\* fail, tags and releases come and change as ReleaseRegistry promises.
Registry == INSTANCE ReleaseRegistry WITH tags <- remoteTags, reliable <- blindReads = 0

ImplementsRegistry == Registry!Spec

\* A release that is stable stays as it is, but that in a race with the direct route the
\* workflow may add the assets it lacks.
StableIsFinal ==
  [][\A r \in Stable(releases) :
       \/ r \in releases'
       \/ strategy = "direct" /\ [r EXCEPT !.complete = TRUE] \in releases']_vars
==============================================================================
