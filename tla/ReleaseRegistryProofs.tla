------------------------- MODULE ReleaseRegistryProofs -------------------------
(***************************************************************************)
(* The release pipeline is typed: the version of a release is one that a   *)
(* file declares or the successor of another release's, and the newest     *)
(* version of a finite set of releases is one of them.  And it implements  *)
(* ReleaseRegistry.                                                        *)
(***************************************************************************)
EXTENDS ReleasePipelineProofs, FiniteSetTheorems

(* Versions. *)

LEMMA NewerIsOrder ==
  ASSUME NEW u \in Version, NEW v \in Version
  PROVE  /\ ~Newer(u, u)
         /\ u # v => Newer(u, v) \/ Newer(v, u)
         /\ \A w \in Version : Newer(w, u) /\ Newer(u, v) => Newer(w, v)
<1>1. \A w \in Version : w = <<w[1], w[2]>> /\ w[1] \in Nat /\ w[2] \in Nat
  BY DEF Version
<1> QED
  BY <1>1 DEF Newer

LEMMA NewestIsMember ==
  ASSUME NEW V \in SUBSET Version, IsFiniteSet(V), V # {}
  PROVE  Newest(V) \in V
<1> DEFINE newerThan(v) == {w \in V : Newer(w, v)}
           T == {newerThan(v) : v \in V}
<1>1. IsWellFoundedOn(StrictSubsetOrdering(V), SUBSET V)
  BY FS_FiniteSubsetsOfFinite, FS_StrictSubsetOrderingWellFounded
<1>2. T \subseteq SUBSET V /\ T # {}
  OBVIOUS
<1>3. PICK X \in T : \A Y \in T : <<Y, X>> \notin StrictSubsetOrdering(V)
  <2> HIDE DEF T
  <2> QED
    BY <1>1, <1>2, WFMin
<1>4. PICK v \in V : X = newerThan(v)
  BY <1>3
<1>5. ASSUME NEW w \in V, Newer(w, v)
      PROVE  FALSE
  <2>1. newerThan(w) \subseteq newerThan(v) /\ w \in newerThan(v) /\ w \notin newerThan(w)
    BY <1>5, NewerIsOrder
  <2>2. <<newerThan(w), X>> \in StrictSubsetOrdering(V)
    BY <1>2, <1>4, <2>1 DEF StrictSubsetOrdering
  <2> QED
    BY <1>3, <2>2
<1>6. \A w \in V \ {v} : Newer(v, w)
  BY <1>5, NewerIsOrder
<1> QED
  BY <1>6 DEF Newest

\* The newest version of a finite set of releases.
LEMMA NewestOfReleases ==
  ASSUME NEW R \in SUBSET Release, IsFiniteSet(R), R # {}
  PROVE  Newest({r.version : r \in R}) \in Version
<1> DEFINE V == {r.version : r \in R}
           version == [r \in R |-> r.version]
<1>1. V \in SUBSET Version /\ V # {}
  BY DEF Release
<1>2. version \in Surjection(R, V)
  BY DEF Surjection
<1>3. IsFiniteSet(V)
  <2> HIDE DEF V, version
  <2> QED
    BY <1>2, FS_Surjection
<1> HIDE DEF V
<1>4. Newest(V) \in Version
  BY <1>1, <1>3, NewestIsMember
<1> QED
  BY <1>4 DEF V

LEMMA LatestStableIsVersion ==
  ASSUME NEW R \in SUBSET Release, IsFiniteSet(R), NEW initial \in Version
  PROVE  LatestStable(R, initial) \in Version
<1>1. Stable(R) \in SUBSET Release /\ Stable(R) \in SUBSET R
  BY DEF Stable
<1>2. IsFiniteSet(Stable(R))
  BY <1>1, FS_Subset
<1> QED
  BY <1>1, <1>2, NewestOfReleases DEF LatestStable

LEMMA HighestIsLevel ==
  ASSUME NEW levels
  PROVE  Highest(levels) \in Level \cup {"none"}
BY DEF Highest, Level

-------------------------------------------------------------------------------
(* The inductive invariant. *)

\* What is to be released is a commit of main.
InMain ==
  /\ queued.step = "plan" => queued.commit \in 1..Len(main)
  /\ workflow.step = "plan" => workflow.commit \in 1..Len(main)
  /\ cmd.step = "dispatch" => strategy = "workflow"
  /\ strategy = "workflow" /\ cmd.step \in {"prepare", "dispatch"} => cmd.commit \in 1..Len(main)

Typed == Inv /\ TypeOK /\ IsFiniteSet(releases) /\ InMain

LEMMA PlanIsTyped ==
  ASSUME Typed, workflow.step = "plan"
  PROVE  Plan(workflow.level, workflow.commit, main, releases).version \in Version
<1> DEFINE here == ReleasesOf(releases, workflow.commit)
<1>1. here \in SUBSET Release /\ here \in SUBSET releases
  BY DEF ReleasesOf, StableFirst, Stable, Typed, TypeOK
<1>2. here # {} => Newest({r.version : r \in here}) \in Version
  <2>1. IsFiniteSet(here)
    BY <1>1, FS_Subset DEF Typed
  <2> HIDE DEF here
  <2> QED
    BY <1>1, <2>1, NewestOfReleases
<1>3. main[workflow.commit].version \in Version
  BY CheckoutFields DEF Typed, InMain, MergeCommit
<1>4. LatestStable(releases, <<0, 0>>) \in Version /\ <<0, 0>> \in Version
  BY LatestStableIsVersion DEF Typed, TypeOK, Version
<1>5. \A level : Bump(LatestStable(releases, <<0, 0>>), level) \in Version
  BY <1>4, BumpIsVersion
<1> QED
  BY <1>2, <1>3, <1>4, <1>5 DEF Plan, NoPlan

LEMMA PreviewIsTyped ==
  ASSUME Typed, NEW blocked \in BOOLEAN
  PROVE  LET preview == Preview(main, releases, main[1].version, blocked) IN
         /\ preview.commit \in 1..Len(main)
         /\ preview.level \in Level \cup {"none"}
         /\ preview.version \in Version
         /\ preview.ready \in BOOLEAN
<1>1. main[1].version \in Version /\ Len(main) \in 1..Len(main)
  BY CheckoutFields DEF Typed, MergeCommit
<1>2. LatestStable(releases, main[1].version) \in Version
  BY <1>1, LatestStableIsVersion DEF Typed, TypeOK
<1>3. \A level : Bump(LatestStable(releases, main[1].version), level) \in Version
  BY <1>2, BumpIsVersion
<1> DEFINE commits == Unreleased(main, releases)
           level == Highest({main[c].label : c \in commits})
<1>4. level \in Level \cup {"none"}
  BY HighestIsLevel
<1> HIDE DEF level
<1> QED
  BY <1>1, <1>2, <1>3, <1>4 DEF Preview, level

LEMMA InitTyped == Init => Typed
<1> SUFFICES ASSUME Init PROVE Typed
  OBVIOUS
<1> DEFINE first == [id |-> 1, version |-> <<0, 1>>, commit |-> 1, draft |-> FALSE,
                     complete |-> TRUE]
<1>1. Inv
  BY InitInv
<1>2. first \in Release /\ releases \in {{}, {first}}
  BY DEF Init, Release, Version
<1>3. releases \subseteq Release /\ IsFiniteSet(releases)
  <2> HIDE DEF first
  <2> QED
    BY <1>2, FS_EmptySet, FS_Singleton
<1>4. \A r \in releases : r.version = <<0, 1>>
  BY <1>2
<1>5. remoteTags \subseteq Tag /\ localTags \subseteq [version : Version, commit : Nat]
  <2>1. \A r \in releases : r.version \in Version
    BY <1>4 DEF Version
  <2>2. /\ remoteTags = {[version |-> r.version, commit |-> 1, annotated |-> TRUE] : r \in releases}
        /\ localTags = {[version |-> r.version, commit |-> 1] : r \in releases}
    BY DEF Init
  <2>3. \A v \in Version : /\ [version |-> v, commit |-> 1, annotated |-> TRUE] \in Tag
                            /\ [version |-> v, commit |-> 1] \in [version : Version, commit : Nat]
    BY DEF Tag
  <2>4. \A t \in remoteTags : t \in Tag
    BY <2>1, <2>2, <2>3
  <2>5. \A t \in localTags : t \in [version : Version, commit : Nat]
    BY <2>1, <2>2, <2>3
  <2> QED
    BY <2>4, <2>5
<1>6. cmd \in Cmd /\ workflow \in Run /\ queued \in Run
      /\ reported \in [outcome : Outcome, commit : Nat, version : Version]
  BY DEF Init, NoCmd, Cmd, NoRun, Run, NoReport, Outcome, Command, Step, Level, Version,
     WorkflowStep, Label
<1>7. /\ commands \in 0..MaxCommands /\ dispatches \in 0..MaxDispatches
      /\ faults \in 0..MaxFaults /\ blindReads \in 0..MaxBlindReads
  BY ReleasePipelineAssumption DEF Init
<1>8. cmd.step = "idle" /\ workflow.step = "none" /\ queued.step = "none"
  BY DEF Init, NoCmd, NoRun
<1>9. strategy \in {"workflow", "direct"}
  BY DEF Init
<1> QED
  BY <1>1, <1>3, <1>5, <1>6, <1>7, <1>8, <1>9 DEF Typed, TypeOK, InMain, Inv, Shape

-------------------------------------------------------------------------------
(* The fields of commands and runs. *)

LEMMA CmdFields ==
  ASSUME cmd \in Cmd
  PROVE  /\ cmd.step \in Step /\ cmd.level \in Level \cup {"none"} /\ cmd.commit \in Nat
         /\ cmd.version \in Version /\ cmd.ready \in BOOLEAN
BY DEF Cmd

LEMMA NothingIsTyped ==
  NoCmd \in Cmd /\ NoRun \in Run /\ NoReport \in [outcome : Outcome, commit : Nat, version : Version]
BY DEF NoCmd, Cmd, Command, Step, NoRun, Run, Label, Level, WorkflowStep, NoReport, Outcome, Version

LEMMA GoIsTyped ==
  ASSUME cmd \in Cmd, NEW step \in Step, Go(step)
  PROVE  cmd' \in Cmd /\ cmd'.step = step /\ cmd'.commit = cmd.commit /\ reported' = reported
BY DEF Go, Cmd

LEMMA EndIsTyped ==
  ASSUME cmd \in Cmd, NEW outcome \in Outcome, End(outcome)
  PROVE  cmd' \in Cmd /\ cmd'.step = "idle"
         /\ reported' \in [outcome : Outcome, commit : Nat, version : Version]
BY CmdFields, NothingIsTyped, NoCmdIsCmd DEF End

LEMMA WorkflowGoIsTyped ==
  ASSUME workflow \in Run, NEW step \in WorkflowStep \ {"plan"}, WorkflowGo(step)
  PROVE  workflow' \in Run /\ workflow'.step # "plan" /\ UNCHANGED <<queued, cmd, reported>>
BY DEF WorkflowGo, Run

LEMMA EnqueuedIsTyped ==
  ASSUME NEW event \in {"push", "dispatch"}, NEW level \in Label, NEW commit \in Nat,
         Enqueue(event, level, commit)
  PROVE  queued' \in Run /\ queued'.commit = commit /\ workflow' = workflow
BY DEF Enqueue, Run, WorkflowStep, Version

LEMMA FinishIsTyped ==
  ASSUME cmd \in Cmd, reported \in [outcome : Outcome, commit : Nat, version : Version], Finish
  PROVE  /\ workflow' = NoRun /\ queued' = queued
         /\ cmd' \in Cmd /\ (cmd' = cmd \/ cmd'.step = "idle")
         /\ reported' \in [outcome : Outcome, commit : Nat, version : Version]
<1>1. ValidatedOutcome \in Outcome
  BY DEF ValidatedOutcome, Outcome
<1> QED
  BY <1>1, EndIsTyped DEF Finish

LEMMA StopIsTyped == Stop => workflow' = NoRun /\ UNCHANGED <<queued, cmd, reported>>
BY DEF Stop

-------------------------------------------------------------------------------
(* Each part keeps its types. *)

\* A command that starts names a commit and a version that exist or come next.
LEMMA StartIsTyped ==
  ASSUME Typed, StartPublish \/ StartRun \/ StartPublishPrepared
  PROVE  /\ cmd' \in Cmd
         /\ cmd'.step = "dispatch" => strategy = "workflow"
         /\ strategy = "workflow" /\ cmd'.step \in {"prepare", "dispatch"} =>
              cmd'.commit \in 1..Len(main)
         /\ commands' \in 0..MaxCommands
         /\ UNCHANGED <<strategy, dispatches, faults, blindReads>>
<1> USE DEF Typed
<1>1. commands < MaxCommands => commands + 1 \in 0..MaxCommands
  BY ReleasePipelineAssumption DEF TypeOK
<1> DEFINE preview(blocked) == Preview(main, releases, main[1].version, blocked)
<1>2. \A blocked \in BOOLEAN :
        /\ preview(blocked).commit \in 1..Len(main) /\ preview(blocked).commit \in Nat
        /\ preview(blocked).level \in Level \cup {"none"}
        /\ preview(blocked).version \in Version
        /\ preview(blocked).ready \in BOOLEAN
  BY PreviewIsTyped
<1>3. checkout.dirty \in BOOLEAN
  BY DEF TypeOK, Checkout
<1> HIDE DEF preview
<1>4. ASSUME StartPublish
      PROVE  \E blocked \in BOOLEAN :
               /\ strategy = "workflow"
               /\ Start([NoCmd EXCEPT !.kind = "publish", !.step = "dispatch",
                                      !.level = preview(blocked).level,
                                      !.commit = preview(blocked).commit,
                                      !.version = preview(blocked).version, !.ready = TRUE])
  BY <1>3, <1>4 DEF StartPublish, preview
<1>5. ASSUME StartRun
      PROVE  \E level \in Level :
               \/ /\ strategy = "workflow"
                  /\ \E blocked \in BOOLEAN :
                       Start([NoCmd EXCEPT !.kind = "run", !.step = "prepare", !.level = level,
                                           !.commit = preview(blocked).commit,
                                           !.version = preview(blocked).version,
                                           !.ready = preview(blocked).ready])
               \/ /\ strategy = "direct"
                  /\ Start([NoCmd EXCEPT !.kind = "run", !.step = "prepare", !.level = level,
                                         !.version = Bump(Baseline, level)])
  BY <1>3, <1>5 DEF StartRun, preview
<1>6. CASE StartPublish
  BY <1>1, <1>2, <1>4, <1>6 DEF Start, NoCmd, Cmd, Command, Step
<1>7. CASE StartRun
  <2>1. \A level : Bump(Baseline, level) \in Version
    <3>1. <<0, 0>> \in Version
      BY DEF Version
    <3> QED
      BY <3>1, LatestStableIsVersion, BumpIsVersion DEF Baseline, TypeOK
  <2>2. ASSUME NEW level \in Level, NEW commit \in Nat, NEW version \in Version,
               NEW ready \in BOOLEAN,
               Start([NoCmd EXCEPT !.kind = "run", !.step = "prepare", !.level = level,
                                   !.commit = commit, !.version = version, !.ready = ready])
        PROVE  /\ cmd' \in Cmd /\ cmd'.step = "prepare" /\ cmd'.commit = commit
               /\ commands' \in 0..MaxCommands
               /\ UNCHANGED <<strategy, dispatches, faults, blindReads>>
    BY <1>1, <2>2 DEF Start, NoCmd, Cmd, Command, Step
  <2>3. ASSUME NEW level \in Level, NEW version \in Version,
               Start([NoCmd EXCEPT !.kind = "run", !.step = "prepare", !.level = level,
                                   !.version = version])
        PROVE  /\ cmd' \in Cmd /\ cmd'.step = "prepare"
               /\ commands' \in 0..MaxCommands
               /\ UNCHANGED <<strategy, dispatches, faults, blindReads>>
    BY <1>1, <2>3 DEF Start, NoCmd, Cmd, Command, Step
  <2>4. CASE strategy = "workflow"
    BY <1>2, <1>5, <1>7, <2>2, <2>4
  <2>5. CASE strategy = "direct"
    BY <1>5, <1>7, <2>1, <2>3, <2>5
  <2> QED
    BY <1>5, <1>7, <2>4, <2>5
<1>8. CASE StartPublishPrepared
  <2>1. cmd' = [NoCmd EXCEPT !.kind = "publish-prepared", !.step = "preview"]
        /\ commands' \in 0..MaxCommands
               /\ UNCHANGED <<strategy, dispatches, faults, blindReads>>
    BY <1>1, <1>8 DEF StartPublishPrepared, Start
  <2>2. cmd' \in Cmd /\ cmd'.step = "preview"
    BY <2>1 DEF NoCmd, Cmd, Command, Step, Level, Version
  <2> QED
    BY <2>1, <2>2
<1> QED
  BY <1>6, <1>7, <1>8

\* What a command may be after a step, and what it may have reported.
CommandTyped ==
  /\ cmd' \in Cmd
  /\ reported' \in [outcome : Outcome, commit : Nat, version : Version]
  /\ cmd'.step = "dispatch" => strategy = "workflow"
  /\ strategy = "workflow" /\ cmd'.step \in {"prepare", "dispatch"} => cmd'.commit \in 1..Len(main)

LEMMA CommandKeepsTypes == Typed /\ [Next]_vars => CommandTyped
<1> SUFFICES ASSUME Typed, [Next]_vars PROVE CommandTyped
  OBVIOUS
<1> USE DEF Typed, TypeOK
<1>1. ASSUME cmd' = cmd, reported' = reported \/ reported' = NoReport
      PROVE  CommandTyped
  BY <1>1, NothingIsTyped DEF CommandTyped, InMain
<1>2. ASSUME NEW outcome \in Outcome, End(outcome)
      PROVE  CommandTyped
  BY <1>2, EndIsTyped DEF CommandTyped
<1>3. ASSUME NEW step \in Step \ {"prepare", "dispatch"}, Go(step)
      PROVE  CommandTyped
  BY <1>3, GoIsTyped DEF CommandTyped
<1>4. {"refused", "partial", "prepared-pending-commit", "published"} \subseteq Outcome
      /\ {"preview", "wait", "tag", "push", "release"} \subseteq Step
  BY DEF Outcome, Step
<1>5. CASE StartPublish \/ StartRun \/ StartPublishPrepared
  BY <1>5, StartIsTyped, StartMoves, NothingIsTyped DEF CommandTyped
<1>6. CASE Prepare
  <2>1. CASE Go("dispatch")
    <3>1. ~Go("preview") /\ ~End("refused")
      BY <2>1, GoMoves, EndMoves DEF Inv, Shape
    <3>2. strategy = "workflow" /\ cmd.step = "prepare"
      BY <1>6, <3>1 DEF Prepare
    <3>3. "dispatch" \in Step
      BY DEF Step
    <3> QED
      BY <2>1, <3>2, <3>3, GoIsTyped DEF CommandTyped, InMain
  <2>2. Go("preview") \/ Go("dispatch") \/ End("refused")
    BY <1>6 DEF Prepare
  <2> QED
    BY <1>2, <1>3, <1>4, <2>1, <2>2
<1>7. CASE Dispatch
  BY <1>2, <1>3, <1>4, <1>7 DEF Dispatch
<1>8. CASE WaitFails
  BY <1>2, <1>4, <1>8 DEF WaitFails
<1>9. CASE PreviewPublish
  <2>1. Len(main) \in Nat /\ checkout.py \in Version
    BY CheckoutFields
  <2>2. \/ \E outcome \in {"refused", "prepared-pending-commit"} : End(outcome)
        \/ /\ cmd' = NoCmd
           /\ reported' = [outcome |-> "already-published", commit |-> Len(main),
                           version |-> checkout.py]
        \/ /\ cmd' = [cmd EXCEPT !.step = "tag", !.commit = Len(main), !.version = checkout.py]
           /\ UNCHANGED reported
    BY <1>9 DEF PreviewPublish
  <2>3. CASE cmd' = NoCmd /\ reported' = [outcome |-> "already-published", commit |-> Len(main),
                                          version |-> checkout.py]
    BY <2>1, <2>3, NothingIsTyped, NoCmdIsCmd DEF CommandTyped, Outcome
  <2>4. CASE /\ cmd' = [cmd EXCEPT !.step = "tag", !.commit = Len(main), !.version = checkout.py]
             /\ UNCHANGED reported
    BY <1>4, <2>1, <2>4 DEF CommandTyped, Cmd
  <2> QED
    BY <1>2, <1>4, <2>2, <2>3, <2>4
<1>10. CASE TagLocally \/ PushTag \/ CreateRelease
  BY <1>2, <1>3, <1>4, <1>10 DEF TagLocally, PushTag, CreateRelease
<1>11. CASE Workflow
  <2>1. Finish \/ UNCHANGED <<cmd, reported>>
    BY <1>11 DEF Workflow, StartQueued, WorkflowPlan, WorkflowState, WorkflowTag, WorkflowDraft,
       WorkflowUpload, WorkflowPublish, WorkflowFails, WorkflowGo, Stop
  <2>2. CASE Finish
    BY <2>2, FinishIsTyped DEF CommandTyped, InMain
  <2> QED
    BY <1>1, <2>1, <2>2
<1>12. CASE PrepareOnly \/ People \/ UNCHANGED vars
  BY <1>1, <1>12 DEF PrepareOnly, People, PersonMerges, CommitPrepared, MergePrepared,
     SyncCheckout, PersonDispatches, vars
<1> QED
  BY <1>5, <1>6, <1>7, <1>8, <1>9, <1>10, <1>11, <1>12 DEF Next, Commands

\* What may be queued and in progress after a step.
RunsTyped ==
  /\ workflow' \in Run /\ queued' \in Run
  /\ queued'.step = "plan" => queued'.commit \in 1..Len(main')
  /\ workflow'.step = "plan" => workflow'.commit \in 1..Len(main')

LEMMA RunsKeepTypes == Typed /\ [Next]_vars => RunsTyped
<1> SUFFICES ASSUME Typed, [Next]_vars PROVE RunsTyped
  OBVIOUS
<1> USE DEF Typed, TypeOK
<1>1. /\ \A c \in 1..Len(main) : c \in 1..Len(main') /\ c \in Nat
      /\ Len(main) \in 1..Len(main) /\ DOMAIN main = 1..Len(main)
  <2>1. Len(main) \in Nat /\ Len(main) \in 1..Len(main) /\ DOMAIN main = 1..Len(main)
    BY CheckoutFields, LenProperties
  <2>2. main' = main \/ Len(main') = Len(main) + 1
    BY MainSteps
  <2> QED
    BY <2>1, <2>2
<1>2. ASSUME workflow' = NoRun, queued' = queued PROVE RunsTyped
  BY <1>1, <1>2, NothingIsTyped, NoRunIsRun DEF RunsTyped, InMain
<1>3. ASSUME workflow' \in Run, workflow'.step # "plan", queued' = queued PROVE RunsTyped
  BY <1>1, <1>3 DEF RunsTyped, InMain
<1>4. ASSUME NEW event \in {"push", "dispatch"}, NEW level \in Label, NEW commit \in 1..Len(main'),
             Enqueue(event, level, commit)
      PROVE  RunsTyped
  <2>1. commit \in Nat
    OBVIOUS
  <2> QED
    BY <1>1, <1>4, <2>1, EnqueuedIsTyped DEF RunsTyped, InMain
<1>5. ASSUME UNCHANGED workflowVars PROVE RunsTyped
  BY <1>1, <1>5 DEF workflowVars, RunsTyped, InMain
<1>6. CASE StartPublish \/ StartRun \/ StartPublishPrepared
  BY <1>5, <1>6, StartMoves
<1>7. CASE PrepareOnly \/ Prepare \/ WaitFails \/ PreviewPublish \/ TagLocally \/ PushTag
           \/ CreateRelease \/ CommitPrepared \/ SyncCheckout \/ UNCHANGED vars
  BY <1>5, <1>7 DEF PrepareOnly, Prepare, WaitFails, PreviewPublish, TagLocally, PushTag,
     CreateRelease, CommitPrepared, SyncCheckout, vars
<1>8. CASE Dispatch
  <2>1. main' = main /\ cmd.step = "dispatch"
    BY <1>8 DEF Dispatch, originVars
  <2>2. cmd.commit \in 1..Len(main') /\ cmd.level \in Label
    BY <2>1, CmdFields DEF InMain, Label
  <2>3. Enqueue("dispatch", cmd.level, cmd.commit) \/ UNCHANGED workflowVars
    BY <1>8 DEF Dispatch
  <2> QED
    BY <1>4, <1>5, <2>2, <2>3
<1>9. CASE PersonMerges \/ MergePrepared
  <2>0. PICK change \in Changes \cup {[label |-> "none", impact |-> "none"]} :
          \E version : Merged(change, version)
    BY <1>9 DEF PersonMerges, MergePrepared
  <2>1. PICK version : Merged(change, version)
    BY <2>0
  <2>2. change.label \in Label
    BY ReleasePipelineAssumption DEF Label
  <2>3. Len(main') = Len(main) + 1 /\ Len(main) \in Nat
    BY <2>1, AppendProperties, CheckoutFields, <1>9, MainSteps DEF Merged
  <2>4. Len(main) + 1 \in 1..Len(main')
    BY <2>3
  <2> QED
    BY <1>4, <2>1, <2>2, <2>4 DEF Merged
<1>10. CASE PersonDispatches
  <2>1. PICK level \in Level, commit \in DOMAIN main : Enqueue("dispatch", level, commit)
    BY <1>10 DEF PersonDispatches
  <2> QED
    BY <1>1, <1>4, <2>1 DEF Label
<1>11. CASE StartQueued
  BY <1>1, <1>11, NothingIsTyped, NoRunIsRun DEF StartQueued, RunsTyped, InMain
<1>12. ASSUME Finish \/ Stop PROVE RunsTyped
  BY <1>2, <1>12 DEF Finish, Stop
<1>13. ASSUME NEW step \in {"tag", "draft", "upload", "stable"}, WorkflowGo(step)
       PROVE  RunsTyped
  <2>1. step \in WorkflowStep \ {"plan"}
    BY DEF WorkflowStep
  <2> QED
    BY <1>3, <1>13, <2>1, WorkflowGoIsTyped
<1>14. CASE WorkflowPlan
  <2> DEFINE plan == Plan(workflow.level, workflow.commit, main, releases)
  <2>1. plan.version \in Version
    BY <1>14, PlanIsTyped DEF WorkflowPlan
  <2>2. \/ Finish
        \/ /\ workflow' = [workflow EXCEPT !.step = "state", !.version = plan.version]
           /\ queued' = queued
    BY <1>14 DEF WorkflowPlan
  <2> HIDE DEF plan
  <2> QED
    BY <1>3, <1>12, <2>1, <2>2 DEF Run, WorkflowStep
<1>15. CASE WorkflowState \/ WorkflowTag \/ WorkflowDraft \/ WorkflowUpload \/ WorkflowPublish
            \/ WorkflowFails
  <2>1. \/ Finish \/ Stop
        \/ \E step \in {"tag", "draft", "upload", "stable"} : WorkflowGo(step)
    BY <1>15 DEF WorkflowState, WorkflowTag, WorkflowDraft, WorkflowUpload, WorkflowPublish,
       WorkflowFails
  <2> QED
    BY <1>12, <1>13, <2>1
<1> QED
  BY <1>6, <1>7, <1>8, <1>9, <1>10, <1>11, <1>14, <1>15 DEF Next, Commands, Workflow, People

LEMMA ReleasesKeepTypes ==
  Typed /\ [Next]_vars => releases' \subseteq Release /\ IsFiniteSet(releases')
<1> SUFFICES ASSUME Typed, [Next]_vars
             PROVE  releases' \subseteq Release /\ IsFiniteSet(releases')
  OBVIOUS
<1> USE DEF Typed, TypeOK
<1>1. CASE releases' = releases
  BY <1>1
<1>2. ASSUME NEW new \in Release, releases' = releases \cup {new}
      PROVE  releases' \subseteq Release /\ IsFiniteSet(releases')
  BY <1>2, FS_AddElement
<1>3. ASSUME NEW r \in releases, NEW new \in Release, releases' = (releases \ {r}) \cup {new}
      PROVE  releases' \subseteq Release /\ IsFiniteSet(releases')
  <2>1. IsFiniteSet(releases \ {r})
    BY FS_RemoveElement
  <2> QED
    BY <1>3, <2>1, FS_AddElement
<1>4. CASE CreateRelease \/ WorkflowDraft
  <2> DEFINE id == Cardinality(releases) + 1
  <2>1. id \in Nat
    BY FS_CardinalityType
  <2> HIDE DEF id
  <2>2. \A version \in Version : \A commit \in Nat : \A draft, complete \in BOOLEAN :
          [id |-> id, version |-> version, commit |-> commit, draft |-> draft,
           complete |-> complete] \in Release
    BY <2>1 DEF Release
  <2>3. CASE CreateRelease
    <3>1. \/ releases' = releases
          \/ releases' = releases \cup {[id |-> id, version |-> cmd.version,
                 commit |-> cmd.commit, draft |-> FALSE, complete |-> FALSE]}
      BY <2>3 DEF CreateRelease, Released, NewRelease, id
    <3>2. [id |-> id, version |-> cmd.version, commit |-> cmd.commit, draft |-> FALSE,
           complete |-> FALSE] \in Release
      BY <2>1, CmdFields DEF Release
    <3> QED
      BY <1>2, <3>1, <3>2
  <2>4. CASE WorkflowDraft
    <3>1. PICK complete \in BOOLEAN :
            releases' = releases \cup {[id |-> id, version |-> workflow.version,
              commit |-> workflow.commit, draft |-> TRUE, complete |-> complete]}
      BY <2>4 DEF WorkflowDraft, NewRelease, id
    <3>2. workflow.version \in Version /\ workflow.commit \in Nat
      BY DEF Run
    <3>3. [id |-> id, version |-> workflow.version, commit |-> workflow.commit,
           draft |-> TRUE, complete |-> complete] \in Release
      BY <2>1, <3>2 DEF Release
    <3> QED
      BY <1>2, <3>1, <3>3
  <2> QED
    BY <1>4, <2>3, <2>4
<1>5. CASE WorkflowUpload \/ WorkflowPublish
  <2>1. PICK r \in releases :
          \/ releases' = (releases \ {r}) \cup {[r EXCEPT !.complete = TRUE]}
          \/ releases' = (releases \ {r}) \cup {[r EXCEPT !.draft = FALSE]}
    BY <1>5, ViewedIsStableFirst DEF WorkflowUpload, WorkflowPublish
  <2>2. [r EXCEPT !.complete = TRUE] \in Release /\ [r EXCEPT !.draft = FALSE] \in Release
    BY DEF Release
  <2> QED
    BY <1>3, <2>1, <2>2
<1>6. releases' = releases \/ CreateRelease \/ WorkflowDraft \/ WorkflowUpload \/ WorkflowPublish
  <2>1. CASE StartPublish \/ StartRun \/ StartPublishPrepared
    BY <2>1, StartMoves DEF originVars
  <2>2. CASE \/ PrepareOnly \/ Prepare \/ Dispatch \/ WaitFails \/ PreviewPublish
             \/ TagLocally \/ PushTag
    BY <2>2 DEF PrepareOnly, Prepare, Dispatch, WaitFails, PreviewPublish, TagLocally, PushTag,
       originVars
  <2>3. CASE StartQueued \/ WorkflowPlan \/ WorkflowState \/ WorkflowTag \/ WorkflowFails
    BY <2>3 DEF StartQueued, WorkflowPlan, WorkflowState, WorkflowTag, WorkflowFails, originVars
  <2>4. CASE People \/ UNCHANGED vars
    BY <2>4 DEF People, PersonMerges, CommitPrepared, MergePrepared, SyncCheckout,
       PersonDispatches, originVars, vars
  <2> QED
    BY <2>1, <2>2, <2>3, <2>4 DEF Next, Commands, Workflow
<1> QED
  BY <1>1, <1>4, <1>5, <1>6

LEMMA TagsKeepTypes ==
  Typed /\ [Next]_vars =>
    remoteTags' \subseteq Tag /\ localTags' \subseteq [version : Version, commit : Nat]
<1> SUFFICES ASSUME Typed, [Next]_vars
             PROVE  remoteTags' \subseteq Tag /\ localTags' \subseteq [version : Version, commit : Nat]
  OBVIOUS
<1> USE DEF Typed, TypeOK
<1> DEFINE LocalTag == [version : Version, commit : Nat]
<1>1. \A version \in Version : \A commit \in Nat : \A annotated \in BOOLEAN :
        /\ [version |-> version, commit |-> commit, annotated |-> annotated] \in Tag
        /\ [version |-> version, commit |-> commit] \in LocalTag
  BY DEF Tag
<1>2. CASE PushTag \/ CreateRelease
  <2>1. \A annotated \in BOOLEAN :
          [version |-> cmd.version, commit |-> cmd.commit, annotated |-> annotated] \in Tag
    BY <1>1, CmdFields
  <2>2. remoteTags' \subseteq remoteTags \cup
          {[version |-> cmd.version, commit |-> cmd.commit, annotated |-> annotated] :
             annotated \in BOOLEAN}
    BY <1>2 DEF PushTag, CreateRelease, Released
  <2>3. localTags' = localTags
    BY <1>2 DEF PushTag, CreateRelease, localVars
  <2> QED
    BY <2>1, <2>2, <2>3
<1>3. CASE WorkflowTag
  <2> DEFINE new == [version |-> workflow.version, commit |-> workflow.commit, annotated |-> TRUE]
  <2>1. workflow.version \in Version /\ workflow.commit \in Nat
    BY DEF Run
  <2>2. new \in Tag
    BY <1>1, <2>1
  <2>3. remoteTags' \in {remoteTags, remoteTags \cup {new}} /\ localTags' = localTags
    BY <1>3 DEF WorkflowTag, localVars
  <2> QED
    BY <2>2, <2>3
<1>4. CASE TagLocally
  <2>1. [version |-> cmd.version, commit |-> cmd.commit] \in LocalTag
    BY <1>1, CmdFields
  <2>2. localTags' \subseteq localTags \cup {[version |-> cmd.version, commit |-> cmd.commit]}
    BY <1>4 DEF TagLocally
  <2>3. remoteTags' = remoteTags
    BY <1>4 DEF TagLocally, originVars
  <2> QED
    BY <2>1, <2>2, <2>3
<1>5. CASE SyncCheckout
  <2>1. \A t \in Tag : [version |-> t.version, commit |-> t.commit] \in LocalTag
    BY DEF Tag
  <2>2. \A t \in remoteTags : [version |-> t.version, commit |-> t.commit] \in LocalTag
    BY <2>1
  <2>3. \A l \in localTags' : l \in localTags \/
          \E t \in remoteTags : l = [version |-> t.version, commit |-> t.commit]
    BY <1>5 DEF SyncCheckout
  <2> QED
    BY <1>5, <2>2, <2>3 DEF SyncCheckout, originVars
<1>6. CASE StartPublish \/ StartRun \/ StartPublishPrepared
  BY <1>6, StartMoves DEF originVars, localVars
<1>7. CASE PrepareOnly \/ Prepare \/ Dispatch \/ WaitFails \/ PreviewPublish
  BY <1>7 DEF PrepareOnly, Prepare, Dispatch, WaitFails, PreviewPublish, originVars, localVars
<1>8. CASE \/ StartQueued \/ WorkflowPlan \/ WorkflowState \/ WorkflowDraft \/ WorkflowUpload
           \/ WorkflowPublish \/ WorkflowFails
  BY <1>8 DEF StartQueued, WorkflowPlan, WorkflowState, WorkflowDraft, WorkflowUpload,
     WorkflowPublish, WorkflowFails, originVars, localVars
<1>9. CASE PersonMerges \/ CommitPrepared \/ MergePrepared \/ PersonDispatches \/ UNCHANGED vars
  BY <1>9 DEF PersonMerges, CommitPrepared, MergePrepared, PersonDispatches, originVars,
     localVars, vars
<1> QED
  BY <1>2, <1>3, <1>4, <1>5, <1>6, <1>7, <1>8, <1>9 DEF Next, Commands, Workflow, People

LEMMA BoundsKeepTypes ==
  Typed /\ [Next]_vars =>
    /\ commands' \in 0..MaxCommands
    /\ dispatches' \in 0..MaxDispatches
    /\ faults' \in 0..MaxFaults
    /\ blindReads' \in 0..MaxBlindReads
<1> SUFFICES ASSUME Typed, [Next]_vars
             PROVE  /\ commands' \in 0..MaxCommands
                    /\ dispatches' \in 0..MaxDispatches
                    /\ faults' \in 0..MaxFaults
                    /\ blindReads' \in 0..MaxBlindReads
  OBVIOUS
<1> USE DEF Typed, TypeOK
<1>1. /\ commands < MaxCommands => commands + 1 \in 0..MaxCommands
      /\ dispatches < MaxDispatches => dispatches + 1 \in 0..MaxDispatches
      /\ faults < MaxFaults => faults + 1 \in 0..MaxFaults
      /\ blindReads < MaxBlindReads => blindReads + 1 \in 0..MaxBlindReads
  BY ReleasePipelineAssumption
<1>2. Fault \/ NoFault => faults' \in 0..MaxFaults
  BY <1>1 DEF Fault, NoFault
<1>3. CASE StartPublish \/ StartRun \/ StartPublishPrepared
  BY <1>3, StartIsTyped
<1>4. CASE PrepareOnly \/ Prepare
  <2>1. \A level : Prepared(level) => Fault \/ NoFault
    BY DEF Prepared
  <2> QED
    BY <1>1, <1>2, <1>4, <2>1 DEF PrepareOnly, Prepare
<1>5. CASE Dispatch \/ WaitFails \/ PreviewPublish \/ TagLocally \/ PushTag \/ CreateRelease
  BY <1>2, <1>5 DEF Dispatch, WaitFails, PreviewPublish, TagLocally, PushTag, CreateRelease, bounds
<1>6. CASE WorkflowDraft \/ WorkflowFails
  BY <1>2, <1>6 DEF WorkflowDraft, WorkflowFails
<1>7. CASE \/ StartQueued \/ WorkflowPlan \/ WorkflowTag \/ WorkflowUpload \/ WorkflowPublish
  BY <1>7 DEF StartQueued, WorkflowPlan, WorkflowTag, WorkflowUpload, WorkflowPublish, bounds
<1>10. CASE WorkflowState
  BY <1>1, <1>10 DEF WorkflowState
<1>8. CASE PersonDispatches
  BY <1>1, <1>8 DEF PersonDispatches
<1>9. CASE PersonMerges \/ CommitPrepared \/ MergePrepared \/ SyncCheckout \/ UNCHANGED vars
  BY <1>9 DEF PersonMerges, CommitPrepared, MergePrepared, SyncCheckout, bounds, vars
<1> QED
  BY <1>3, <1>4, <1>5, <1>6, <1>7, <1>8, <1>9, <1>10 DEF Next, Commands, Workflow, People

LEMMA TypedKept == Typed /\ [Next]_vars => Typed'
<1> SUFFICES ASSUME Typed, [Next]_vars PROVE Typed'
  OBVIOUS
<1>1. Inv' /\ strategy' = strategy
  BY InvKept, StrategyStays DEF Typed
<1>2. CommandTyped /\ RunsTyped
  BY CommandKeepsTypes, RunsKeepTypes
<1>3. TypeOK'
  BY <1>1, <1>2, ReleasesKeepTypes, TagsKeepTypes, BoundsKeepTypes
  DEF TypeOK, Typed, Inv, Shape, CommandTyped, RunsTyped
<1>4. \A c \in 1..Len(main) : c \in 1..Len(main')
  <2>1. Len(main) \in Nat /\ (main' = main \/ Len(main') = Len(main) + 1)
    BY MainSteps, CheckoutFields DEF Typed
  <2> QED
    BY <2>1
<1> QED
  BY <1>1, <1>2, <1>3, <1>4, ReleasesKeepTypes DEF Typed, InMain, CommandTyped, RunsTyped

LEMMA TypedInvariance == Spec => []Typed
BY InitTyped, TypedKept, PTL DEF Spec

\* For any bounds and any pull requests the variables have their types: every version a
\* command, a run or a release names is one that exists or follows one, though each is the
\* newest of a set that both routes add to.
THEOREM ReleaseTypeCorrect == Spec => []TypeOK
<1>1. Typed => TypeOK
  BY DEF Typed
<1> QED
  BY <1>1, TypedInvariance, PTL

-------------------------------------------------------------------------------
(* The refinement of ReleaseRegistry. *)

\* A step leaves the tags or the releases alone, and a misreading both.
LEMMA OneOfBoth ==
  ASSUME Inv, [Next]_vars
  PROVE  /\ remoteTags' = remoteTags \/ releases' = releases
         /\ blindReads' = blindReads \/ UNCHANGED <<remoteTags, releases>>
<1>0. WorkflowState => UNCHANGED <<remoteTags, releases>>
  BY DEF WorkflowState, originVars
<1> SUFFICES remoteTags' = remoteTags \/ releases' = releases
  BY <1>0, BlindReadsGrow
<1>1. CASE CreateRelease
  <2>1. Pushed(cmd.version, cmd.commit) \in remoteTags
    BY <1>1 DEF CreateRelease, TagBeforeRelease, Inv
  <2>2. Targets(remoteTags, cmd.version) # {}
    BY <2>1 DEF Targets, Pushed
  <2> QED
    BY <1>1, <2>2 DEF CreateRelease, Released
<1>2. CASE StartPublish \/ StartRun \/ StartPublishPrepared
  BY <1>2, StartMoves DEF originVars
<1>3. CASE PrepareOnly \/ Prepare \/ Dispatch \/ WaitFails \/ PreviewPublish \/ TagLocally \/ PushTag
  BY <1>3 DEF PrepareOnly, Prepare, Dispatch, WaitFails, PreviewPublish, TagLocally, PushTag,
     originVars
<1>4. CASE Workflow
  BY <1>4 DEF Workflow, StartQueued, WorkflowPlan, WorkflowState, WorkflowTag, WorkflowDraft,
     WorkflowUpload, WorkflowPublish, WorkflowFails, originVars
<1>5. CASE People \/ UNCHANGED vars
  BY <1>5 DEF People, PersonMerges, CommitPrepared, MergePrepared, SyncCheckout,
     PersonDispatches, originVars, vars
<1> QED
  BY <1>1, <1>2, <1>3, <1>4, <1>5 DEF Next, Commands

LEMMA TagRefines ==
  ASSUME Inv, [Next]_vars, remoteTags' # remoteTags
  PROVE  Registry!TagVersion
<1>1. UNCHANGED <<releases, strategy, blindReads>>
  BY OneOfBoth, StrategyStays
<1>2. PICK version, commit :
        TagIsFree(version) /\ remoteTags' = remoteTags \cup {Pushed(version, commit)}
  BY TagSteps
<1> DEFINE t == Pushed(version, commit)
<1>3. \A u \in remoteTags : u.version # version
  BY <1>2 DEF TagIsFree, Targets
<1>4. t.version = version /\ t.annotated
  BY DEF Pushed
<1> HIDE DEF t
<1>5. t \in remoteTags' \ remoteTags
  BY <1>2, <1>3, <1>4 DEF t
<1> QED
  BY <1>1, <1>2, <1>3, <1>4, <1>5 DEF Registry!TagVersion, t

\* What a step does to releases leaves the rest of the registry as it is.
LEMMA ReleaseStepsStay ==
  ASSUME Inv, [Next]_vars, releases' # releases
  PROVE  UNCHANGED <<strategy, remoteTags, blindReads>>
BY OneOfBoth, StrategyStays

LEMMA OpenRefines ==
  ASSUME Inv, [Next]_vars, releases' # releases, NEW new, Opens(new)
  PROVE  Registry!Open
<1>1. Registry!TagOf(new) \in remoteTags
  BY DEF Opens, Registry!TagOf, Pushed
<1>2. new \in releases' \ releases /\ releases' = releases \cup {new} /\ new.draft \in BOOLEAN
  BY DEF Opens, IsRelease
<1>3. strategy \in {"workflow", "direct"}
  BY DEF Inv, Shape
<1>4. Registry!Drafted(new) \/ Registry!Published(new)
  BY <1>2, <1>3 DEF Opens, Alone, Stable, Registry!Drafted, Registry!Published, Registry!Alone,
     Registry!Stable
<1> QED
  BY <1>1, <1>2, <1>4, ReleaseStepsStay DEF Registry!Open

\* The workflow's upload and publication are those of the registry.
LEMMA ChangeRefines ==
  ASSUME Inv, [Next]_vars, releases' # releases, NEW r \in releases, Uploads(r) \/ Publishes(r)
  PROVE  Registry!Upload \/ Registry!Publish
<1>1. r \in [id : {r.id}, version : {r.version}, commit : {r.commit}, draft : BOOLEAN,
             complete : BOOLEAN]
  BY DEF Inv, Shape, IsRelease
<1>2. CASE Uploads(r)
  <2>1. ~r.complete
    <3>1. ASSUME r.complete
          PROVE  FALSE
      <4>1. [r EXCEPT !.complete = TRUE] = r
        BY <1>1, <3>1
      <4> QED
        BY <1>2, <4>1 DEF Uploads
    <3> QED
      BY <3>1
  <2> QED
    BY <1>2, <2>1, ReleaseStepsStay DEF Uploads, Registry!Upload, Registry!Change
<1>3. CASE Publishes(r)
  BY <1>3, ReleaseStepsStay
  DEF Publishes, Alone, Stable, Registry!Publish, Registry!Change, Registry!Alone, Registry!Stable
<1> QED
  BY <1>2, <1>3

LEMMA InitRefines == Init => Registry!Init
<1> SUFFICES ASSUME Init PROVE Registry!Init
  OBVIOUS
<1> DEFINE v == <<0, 1>>
           first == [id |-> 1, version |-> v, commit |-> 1, draft |-> FALSE, complete |-> TRUE]
<1>1. releases \in {{}, {first}} /\ strategy \in {"workflow", "direct"} /\ blindReads = 0
  BY DEF Init
<1>2. remoteTags = {[version |-> r.version, commit |-> 1, annotated |-> TRUE] : r \in releases}
  BY DEF Init
<1>3. first.version = v /\ first.commit = 1 /\ ~first.draft
  OBVIOUS
<1> HIDE DEF v, first
<1>4. remoteTags = {Registry!TagOf(r) : r \in releases}
  BY <1>1, <1>2, <1>3 DEF Registry!TagOf
<1>5. releases = Registry!Stable(releases)
  BY <1>1, <1>3 DEF Registry!Stable
<1> QED
  BY <1>1, <1>4, <1>5 DEF Registry!Init

\* For any bounds and any pull requests: a version is tagged once and published once, at its
\* tag, though GitHub lets drafts stand beside; where the workflow publishes, a commit has
\* one version and a published one gets no other release, and as long as the workflow sees
\* what there is, a version has one release, which becomes stable when it is complete;
\* nothing is removed, wherever a command or a run fails.
THEOREM ReleaseImplementsRegistry == Spec => ImplementsRegistry
<1>1. Init => Inv /\ Registry!Init
  BY InitInv, InitRefines
<1>2. Inv /\ [Next]_vars => Inv' /\ [Registry!Next]_(Registry!vars)
  <2> SUFFICES ASSUME Inv, [Next]_vars PROVE [Registry!Next]_(Registry!vars)
    BY InvKept
  <2>1. CASE remoteTags' # remoteTags
    BY <2>1, TagRefines DEF Registry!Next
  <2>2. CASE releases' # releases
    BY <2>2, ReleaseSteps, OpenRefines, ChangeRefines DEF Registry!Next
  <2>3. CASE UNCHANGED <<remoteTags, releases>>
    <3>1. CASE blindReads' = blindReads
      BY <2>3, <3>1, StrategyStays DEF Registry!vars
    <3>2. CASE blindReads' # blindReads
      <4>1. (blindReads' = 0) = FALSE
        <5>1. blindReads' = 0 => blindReads = 0
          BY BlindReadsGrow
        <5> QED
          BY <3>2, <5>1
      <4> QED
        BY <2>3, <4>1, StrategyStays DEF Registry!Next, Registry!Misread
    <3> QED
      BY <3>1, <3>2
  <2> QED
    BY <2>1, <2>2, <2>3
<1> QED
  BY <1>1, <1>2, PTL DEF Spec, ImplementsRegistry, Registry!Spec

===============================================================================
