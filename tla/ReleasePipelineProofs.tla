------------------------- MODULE ReleasePipelineProofs -------------------------
(* Theorems about ReleasePipeline, for any bounds and any pull requests. *)
EXTENDS ReleasePipeline, SequenceTheorems, TLAPS

\* The records, with versions of any kind: which version is the newest of a set is a
\* choice, of which nothing is needed here.
IsRelease(r) ==
  r \in [id : {r.id}, version : {r.version}, commit : {r.commit}, draft : BOOLEAN,
         complete : BOOLEAN]

IsCmd(c) ==
  c = [kind |-> c.kind, step |-> c.step, level |-> c.level, commit |-> c.commit,
       version |-> c.version, ready |-> c.ready]

IsRun(w) ==
  w = [event |-> w.event, level |-> w.level, commit |-> w.commit, step |-> w.step,
       version |-> w.version]

Pushed(version, commit) == [version |-> version, commit |-> commit, annotated |-> TRUE]

Shape ==
  /\ main \in Seq(MergeCommit) /\ Len(main) # 0
  /\ checkout \in Checkout
  /\ \A r \in releases : IsRelease(r)
  /\ \A t \in remoteTags : t = Pushed(t.version, t.commit)
  /\ IsCmd(cmd) /\ IsRun(workflow) /\ IsRun(queued) /\ queued.step \in {"none", "plan"}
  /\ blindReads \in Nat /\ strategy \in {"workflow", "direct"}

\* The commands of the direct route run under its strategy.
Route == cmd.step \in {"preview", "tag", "push", "release"} => strategy = "direct"

\* A release is about to be made: its tag was pushed.
TagBeforeRelease ==
  /\ cmd.step = "release" => Pushed(cmd.version, cmd.commit) \in remoteTags
  /\ workflow.step \in {"draft", "upload", "stable"} =>
       Pushed(workflow.version, workflow.commit) \in remoteTags

\* Where only the workflow publishes, the commit it works on is not published, and what
\* drafts it has are of the version in hand.
CommitInHand ==
  strategy = "workflow" /\ workflow.step \in {"state", "tag", "draft", "upload", "stable"} =>
    \A r \in releases : r.commit = workflow.commit => r.version = workflow.version /\ r.draft

\* Only the workflow publishes, and it saw what there is.
Alone == strategy = "workflow" /\ blindReads = 0

\* Then a version has one release, a version it drafts has none, and what it publishes has
\* its assets.
DraftInHand ==
  Alone =>
    /\ \A r, s \in releases : r.version = s.version => r = s
    /\ workflow.step \in {"tag", "draft"} => \A r \in releases : r.version # workflow.version
    /\ workflow.step = "stable" =>
         \A r \in releases : r.version = workflow.version => r.complete

\* A clean checkout of main declares what its commit declares, and so does the tag that
\* is made from it.
CheckoutIsMain ==
  /\ checkout.main \in 1..Len(main)
  /\ checkout.onMain /\ ~checkout.dirty => main[checkout.main].version = checkout.py
  /\ cmd.step = "tag" /\ checkout.onMain =>
       cmd.commit \in 1..Len(main) /\ main[cmd.commit].version = cmd.version

Inv ==
  /\ Shape /\ Route /\ TagBeforeRelease /\ DraftInHand /\ CommitInHand /\ CheckoutIsMain
  /\ ReleaseStandsOnPushedTag /\ VersionIsUnique /\ CommitReleasedOnce /\ ReportIsTrue

-------------------------------------------------------------------------------
LEMMA InitInv == Init => Inv
<1> SUFFICES ASSUME Init PROVE Inv
  OBVIOUS
<1> DEFINE first == [version |-> <<0, 1>>, label |-> "none", impact |-> "none"]
<1>1. main = <<first>> /\ first \in MergeCommit /\ <<0, 1>> \in Version
  BY DEF Init, MergeCommit, Version, Label, Impact, Level
<1>2. main \in Seq(MergeCommit) /\ Len(main) = 1 /\ main[1] = first
  <2> HIDE DEF first
  <2> QED
    BY <1>1
<1>3. \A r \in releases :
        r = [id |-> 1, version |-> <<0, 1>>, commit |-> 1, draft |-> FALSE, complete |-> TRUE]
  BY DEF Init
<1>4. remoteTags = {Pushed(r.version, 1) : r \in releases}
  BY DEF Init, Pushed
<1>5. IsCmd(cmd) /\ cmd.step = "idle" /\ IsRun(workflow) /\ IsRun(queued)
      /\ workflow.step = "none" /\ queued.step = "none"
  BY DEF Init, NoCmd, NoRun, IsCmd, IsRun
<1>6. checkout \in Checkout /\ checkout.main = 1 /\ checkout.py = <<0, 1>>
  BY <1>1 DEF Init, Checkout
<1>7. Shape
  <2>1. \A r \in releases : IsRelease(r)
    <3> SUFFICES ASSUME NEW r \in releases PROVE IsRelease(r)
      OBVIOUS
    <3> DEFINE v == <<0, 1>>
    <3>1. r = [id |-> 1, version |-> v, commit |-> 1, draft |-> FALSE, complete |-> TRUE]
      BY <1>3
    <3> QED
      <4> HIDE DEF v
      <4> QED
        BY <3>1 DEF IsRelease
  <2>2. \A t \in remoteTags : t = Pushed(t.version, t.commit)
    BY <1>4 DEF Pushed
  <2>3. blindReads = 0 /\ strategy \in {"workflow", "direct"}
    BY DEF Init
  <2> QED
    BY <1>2, <1>5, <1>6, <2>1, <2>2, <2>3 DEF Shape
<1>8. Route /\ TagBeforeRelease /\ DraftInHand /\ CommitInHand
  BY <1>3, <1>5 DEF Route, TagBeforeRelease, DraftInHand, CommitInHand
<1>9. CheckoutIsMain
  BY <1>2, <1>5, <1>6 DEF CheckoutIsMain
<1>10. ReleaseStandsOnPushedTag
  <2> SUFFICES ASSUME NEW r \in releases PROVE Pushed(r.version, r.commit) \in remoteTags
    BY DEF ReleaseStandsOnPushedTag, Pushed
  <2>1. r.commit = 1
    BY <1>3
  <2> QED
    BY <1>4, <2>1
<1>11. VersionIsUnique /\ CommitReleasedOnce
  BY <1>3, <1>4 DEF VersionIsUnique, CommitReleasedOnce, Pushed, Stable
<1>12. ReportIsTrue
  BY DEF Init, NoReport, ReportIsTrue
<1> QED
  BY <1>7, <1>8, <1>9, <1>10, <1>11, <1>12 DEF Inv

-------------------------------------------------------------------------------
(* Steps of the command and of the workflow. *)

LEMMA GoMoves ==
  ASSUME IsCmd(cmd), NEW step, Go(step)
  PROVE  /\ IsCmd(cmd') /\ cmd'.step = step /\ cmd'.version = cmd.version
         /\ cmd'.commit = cmd.commit /\ reported' = reported
<1>1. cmd' = [kind |-> cmd.kind, step |-> step, level |-> cmd.level, commit |-> cmd.commit,
              version |-> cmd.version, ready |-> cmd.ready]
  BY DEF IsCmd, Go
<1> QED
  BY <1>1 DEF IsCmd, Go

LEMMA EndMoves ==
  ASSUME NEW outcome, End(outcome)
  PROVE  /\ IsCmd(cmd') /\ cmd'.step = "idle"
         /\ reported' = [outcome |-> outcome, commit |-> cmd.commit, version |-> cmd.version]
BY DEF End, NoCmd, IsCmd

LEMMA WorkflowGoes ==
  ASSUME IsRun(workflow), NEW step, WorkflowGo(step)
  PROVE  /\ IsRun(workflow') /\ workflow'.step = step /\ workflow'.version = workflow.version
         /\ workflow'.commit = workflow.commit
         /\ queued' = queued /\ cmd' = cmd /\ reported' = reported
<1>1. workflow' = [event |-> workflow.event, level |-> workflow.level,
                   commit |-> workflow.commit, step |-> step, version |-> workflow.version]
  BY DEF IsRun, WorkflowGo
<1> QED
  BY <1>1 DEF IsRun, WorkflowGo

LEMMA NoRunIsRun == IsRun(NoRun) /\ NoRun.step = "none"
BY DEF IsRun, NoRun

LEMMA NoCmdIsCmd == IsCmd(NoCmd) /\ NoCmd.step = "idle"
BY DEF IsCmd, NoCmd

\* A queued run is at its plan.
LEMMA EnqueuedIsRun ==
  ASSUME NEW event, NEW level, NEW commit, Enqueue(event, level, commit)
  PROVE  IsRun(queued') /\ queued'.step = "plan" /\ workflow' = workflow
BY DEF Enqueue, IsRun

\* A tag that exists for a commit is the pushed one.
LEMMA TargetIsPushed ==
  ASSUME Shape, NEW version, NEW commit \in Targets(remoteTags, version)
  PROVE  Pushed(version, commit) \in remoteTags
BY DEF Shape, Targets

-------------------------------------------------------------------------------
(* What a step does to tags and releases. *)

\* A new tag is a pushed one, of a version that had none.
LEMMA TagSteps ==
  ASSUME Inv, [Next]_vars
  PROVE  \/ remoteTags' = remoteTags
         \/ \E version, commit :
              TagIsFree(version) /\ remoteTags' = remoteTags \cup {Pushed(version, commit)}
<1> USE DEF Inv
<1>1. CASE PushTag
  BY <1>1 DEF PushTag, Pushed
<1>2. CASE CreateRelease
  <2>1. Pushed(cmd.version, cmd.commit) \in remoteTags
    BY <1>2 DEF CreateRelease, TagBeforeRelease
  <2>2. Targets(remoteTags, cmd.version) # {}
    BY <2>1 DEF Targets, Pushed
  <2> QED
    BY <1>2, <2>2 DEF CreateRelease, Released
<1>3. CASE WorkflowTag
  BY <1>3 DEF WorkflowTag, Pushed
<1>4. CASE \/ StartPublish \/ StartRun \/ StartPublishPrepared \/ PrepareOnly
           \/ Prepare \/ Dispatch \/ WaitFails \/ PreviewPublish \/ TagLocally
  BY <1>4 DEF StartPublish, StartRun, StartPublishPrepared, Start, PrepareOnly, Prepare,
     Dispatch, WaitFails, PreviewPublish, TagLocally, originVars
<1>5. CASE \/ StartQueued \/ WorkflowPlan \/ WorkflowState \/ WorkflowDraft
           \/ WorkflowUpload \/ WorkflowPublish \/ WorkflowFails
  BY <1>5 DEF StartQueued, WorkflowPlan, WorkflowState, WorkflowDraft, WorkflowUpload,
     WorkflowPublish, WorkflowFails, originVars
<1>6. CASE People \/ UNCHANGED vars
  BY <1>6 DEF People, PersonMerges, CommitPrepared, MergePrepared, SyncCheckout,
     PersonDispatches, originVars, vars
<1> QED
  BY <1>1, <1>2, <1>3, <1>4, <1>5, <1>6 DEF Next, Commands, Workflow

\* A release that is made stands on a pushed tag.  A stable one is the direct route's and
\* the first of its version; a draft is not of a commit the workflow published, and where
\* the workflow saw what there is, of no version that has a release.
Opens(new) ==
  /\ IsRelease(new)
  /\ Pushed(new.version, new.commit) \in remoteTags
  /\ strategy = "workflow" =>
       /\ new.draft
       /\ \A r \in releases : r.commit = new.commit => r.version = new.version /\ r.draft
  /\ new.draft \/ \A r \in Stable(releases) : r.version # new.version
  /\ Alone => \A r \in releases : r.version # new.version
  /\ releases' = releases \cup {new}

\* Only in a race with the direct route is it a stable release that gets its assets.
Uploads(r) ==
  /\ r.draft \/ strategy = "direct"
  /\ releases' = (releases \ {r}) \cup {[r EXCEPT !.complete = TRUE]}

Publishes(r) ==
  /\ r.draft /\ \A s \in Stable(releases) : s.version # r.version
  /\ Alone => r.complete
  /\ releases' = (releases \ {r}) \cup {[r EXCEPT !.draft = FALSE]}

\* What gh shows is a release of the version, and a draft only where none is stable.
LEMMA ViewedIsStableFirst ==
  ASSUME NEW version, NEW r \in Viewed(releases, version)
  PROVE  /\ r \in releases /\ r.version = version
         /\ r.draft => \A s \in Stable(releases) : s.version # version
BY DEF Viewed, StableFirst, Stable

\* Where only the workflow publishes, what it sees of the version in hand is a draft.
LEMMA ViewedIsDraft ==
  ASSUME Inv, strategy = "workflow", workflow.step \in {"upload", "stable"},
         NEW r \in releases, r.version = workflow.version
  PROVE  r.draft
<1>1. Pushed(workflow.version, workflow.commit) \in remoteTags
  BY DEF Inv, TagBeforeRelease
<1>2. Pushed(r.version, r.commit) \in remoteTags
  BY DEF Inv, ReleaseStandsOnPushedTag, Pushed
<1>3. r.commit = workflow.commit
  BY <1>1, <1>2 DEF Inv, VersionIsUnique, Pushed
<1> QED
  BY <1>3 DEF Inv, CommitInHand

LEMMA ReleaseSteps ==
  ASSUME Inv, [Next]_vars
  PROVE  \/ releases' = releases
         \/ \E new : Opens(new)
         \/ \E r \in releases : Uploads(r) \/ Publishes(r)
<1> USE DEF Inv
<1>1. CASE CreateRelease
  <2> DEFINE new == NewRelease(cmd.version, cmd.commit, FALSE, FALSE)
  <2>1. Pushed(cmd.version, cmd.commit) \in remoteTags /\ strategy = "direct"
    BY <1>1 DEF CreateRelease, TagBeforeRelease, Route
  <2>2. CASE /\ \A r \in Stable(releases) : r.version # cmd.version
             /\ releases' = releases \cup {new}
    <3>0. new = NewRelease(cmd.version, cmd.commit, FALSE, FALSE)
      OBVIOUS
    <3> HIDE DEF new
    <3>1. IsRelease(new) /\ new.version = cmd.version /\ new.commit = cmd.commit
      BY <3>0 DEF NewRelease, IsRelease
    <3> QED
      BY <2>1, <2>2, <3>1 DEF Opens, Alone
  <2> QED
    BY <1>1, <2>2 DEF CreateRelease, Released
<1>2. CASE WorkflowDraft
  <2>1. Pushed(workflow.version, workflow.commit) \in remoteTags
    BY <1>2 DEF WorkflowDraft, TagBeforeRelease
  <2>2. PICK complete \in BOOLEAN :
          releases' = releases \cup {NewRelease(workflow.version, workflow.commit, TRUE, complete)}
    BY <1>2 DEF WorkflowDraft
  <2> DEFINE new == NewRelease(workflow.version, workflow.commit, TRUE, complete)
  <2>0. new = NewRelease(workflow.version, workflow.commit, TRUE, complete)
    OBVIOUS
  <2> HIDE DEF new
  <2>3. IsRelease(new) /\ new.version = workflow.version /\ new.commit = workflow.commit
        /\ new.draft
    BY <2>0 DEF NewRelease, IsRelease
  <2>4. workflow.step = "draft"
    BY <1>2 DEF WorkflowDraft
  <2>5. releases' = releases \cup {new}
    BY <2>2 DEF new
  <2> QED
    BY <2>1, <2>3, <2>4, <2>5 DEF Opens, CommitInHand, DraftInHand
<1>3. CASE WorkflowUpload
  <2>1. PICK r \in Viewed(releases, workflow.version) :
          releases' = (releases \ {r}) \cup {[r EXCEPT !.complete = TRUE]}
    BY <1>3 DEF WorkflowUpload
  <2>2. r \in releases /\ r.version = workflow.version
    BY ViewedIsStableFirst
  <2>3. strategy = "workflow" => r.draft
    BY <1>3, <2>2, ViewedIsDraft DEF WorkflowUpload
  <2>4. strategy \in {"workflow", "direct"}
    BY DEF Shape
  <2> QED
    BY <2>1, <2>2, <2>3, <2>4 DEF Uploads
<1>4. CASE WorkflowPublish
  <2>1. PICK r \in Viewed(releases, workflow.version) :
          releases' = (releases \ {r}) \cup {[r EXCEPT !.draft = FALSE]}
    BY <1>4 DEF WorkflowPublish
  <2>2. /\ r \in releases /\ r.version = workflow.version
        /\ r.draft => \A s \in Stable(releases) : s.version # r.version
    BY ViewedIsStableFirst
  <2>3. CASE r.draft
    BY <1>4, <2>1, <2>2, <2>3 DEF Publishes, DraftInHand, WorkflowPublish
  <2>4. CASE ~r.draft
    <3>1. [r EXCEPT !.draft = FALSE] = r
      BY <2>2, <2>4 DEF Shape, IsRelease
    <3> QED
      BY <2>1, <2>2, <3>1
  <2> QED
    BY <2>3, <2>4
<1>5. CASE \/ StartPublish \/ StartRun \/ StartPublishPrepared \/ PrepareOnly
           \/ Prepare \/ Dispatch \/ WaitFails \/ PreviewPublish \/ TagLocally \/ PushTag
  BY <1>5 DEF StartPublish, StartRun, StartPublishPrepared, Start, PrepareOnly, Prepare,
     Dispatch, WaitFails, PreviewPublish, TagLocally, PushTag, originVars
<1>6. CASE \/ StartQueued \/ WorkflowPlan \/ WorkflowState \/ WorkflowTag \/ WorkflowFails
  BY <1>6 DEF StartQueued, WorkflowPlan, WorkflowState, WorkflowTag, WorkflowFails, originVars
<1>7. CASE People \/ UNCHANGED vars
  BY <1>7 DEF People, PersonMerges, CommitPrepared, MergePrepared, SyncCheckout,
     PersonDispatches, originVars, vars
<1> QED
  BY <1>1, <1>2, <1>3, <1>4, <1>5, <1>6, <1>7 DEF Next, Commands, Workflow

\* Upload and publication change nothing but whether a release is complete or a draft.
LEMMA ChangedFields ==
  ASSUME Inv, NEW r \in releases
  PROVE  LET u == [r EXCEPT !.complete = TRUE]
             p == [r EXCEPT !.draft = FALSE]
         IN /\ IsRelease(r) /\ IsRelease(u) /\ IsRelease(p)
            /\ u.version = r.version /\ u.commit = r.commit /\ u.draft = r.draft /\ u.complete
            /\ p.version = r.version /\ p.commit = r.commit /\ p.complete = r.complete /\ ~p.draft
<1>1. r \in [id : {r.id}, version : {r.version}, commit : {r.commit}, draft : BOOLEAN,
             complete : BOOLEAN]
  BY DEF Inv, Shape, IsRelease
<1> QED
  BY <1>1 DEF IsRelease

-------------------------------------------------------------------------------
(* Tags and releases stay, and are one per version and per commit. *)

LEMMA TagsGrow ==
  ASSUME Inv, [Next]_vars
  PROVE  remoteTags \subseteq remoteTags'
BY TagSteps

LEMMA ReleasesGrow ==
  ASSUME Inv, [Next]_vars
  PROVE  \A r \in releases : \E s \in releases' :
           /\ s.version = r.version /\ s.commit = r.commit
           /\ r.complete => s.complete
           /\ ~r.draft => ~s.draft
<1> SUFFICES ASSUME NEW r \in releases
             PROVE  \E s \in releases' : /\ s.version = r.version /\ s.commit = r.commit
                                         /\ r.complete => s.complete
                                         /\ ~r.draft => ~s.draft
  OBVIOUS
<1>1. CASE r \in releases'
  BY <1>1
<1>2. CASE r \notin releases'
  <2>1. Uploads(r) \/ Publishes(r)
    BY <1>2, ReleaseSteps DEF Opens, Uploads, Publishes
  <2>2. CASE Uploads(r)
    <3> DEFINE u == [r EXCEPT !.complete = TRUE]
    <3>1. u \in releases' /\ u.version = r.version /\ u.commit = r.commit /\ u.draft = r.draft
          /\ u.complete
      BY <2>2, ChangedFields DEF Uploads
    <3> QED
      BY <3>1
  <2>3. CASE Publishes(r)
    <3> DEFINE p == [r EXCEPT !.draft = FALSE]
    <3>1. p \in releases' /\ p.version = r.version /\ p.commit = r.commit
          /\ p.complete = r.complete /\ ~p.draft
      BY <2>3, ChangedFields DEF Publishes
    <3> QED
      BY <3>1
  <2> QED
    BY <2>1, <2>2, <2>3
<1> QED
  BY <1>1, <1>2

\* A release of the next state is an old one, of which it has version and commit, or the
\* new one.
LEMMA ReleasesAreKnown ==
  ASSUME Inv, [Next]_vars
  PROVE  /\ \A s \in releases' : IsRelease(s)
         /\ \/ \A s \in releases' : \E r \in releases :
                 s.version = r.version /\ s.commit = r.commit
            \/ \E new : Opens(new)
<1>1. \A r \in releases : IsRelease(r)
  BY DEF Inv, Shape
<1>2. CASE releases' = releases
  BY <1>1, <1>2
<1>3. ASSUME NEW new, Opens(new)
      PROVE  \A s \in releases' : IsRelease(s)
  BY <1>1, <1>3 DEF Opens
<1>4. ASSUME NEW r \in releases, Uploads(r) \/ Publishes(r)
      PROVE  \A s \in releases' : IsRelease(s) /\ \E t \in releases :
               s.version = t.version /\ s.commit = t.commit
  <2> DEFINE u == [r EXCEPT !.complete = TRUE]
             p == [r EXCEPT !.draft = FALSE]
  <2>1. /\ IsRelease(u) /\ u.version = r.version /\ u.commit = r.commit
        /\ IsRelease(p) /\ p.version = r.version /\ p.commit = r.commit
    BY ChangedFields
  <2>2. releases' = (releases \ {r}) \cup {u} \/ releases' = (releases \ {r}) \cup {p}
    BY <1>4 DEF Uploads, Publishes
  <2> HIDE DEF u, p
  <2> QED
    BY <1>1, <2>1, <2>2
<1> QED
  BY <1>2, <1>3, <1>4, ReleaseSteps

\* The step that changes releases keeps two stable ones apart that were.
LEMMA VersionIsUniqueKept == Inv /\ [Next]_vars => VersionIsUnique'
<1> SUFFICES ASSUME Inv, [Next]_vars PROVE VersionIsUnique'
  OBVIOUS
<1> USE DEF Inv
<1>1. \A t, u \in remoteTags' : t.version = u.version => t = u
  <2>1. CASE remoteTags' = remoteTags
    BY <2>1 DEF VersionIsUnique
  <2>2. ASSUME NEW version, NEW commit, TagIsFree(version),
               remoteTags' = remoteTags \cup {Pushed(version, commit)}
        PROVE  \A t, u \in remoteTags' : t.version = u.version => t = u
    <3>1. \A t \in remoteTags : t.version # version
      BY <2>2 DEF TagIsFree, Targets
    <3>2. Pushed(version, commit).version = version
      BY DEF Pushed
    <3> QED
      BY <2>2, <3>1, <3>2 DEF VersionIsUnique
  <2> QED
    BY <2>1, <2>2, TagSteps
<1>2. ASSUME NEW r \in releases', NEW s \in releases', ~r.draft, ~s.draft, r.version = s.version
      PROVE  r = s
  <2>1. \A a, b \in releases : ~a.draft /\ ~b.draft /\ a.version = b.version => a = b
    BY DEF VersionIsUnique, Stable
  <2>2. CASE releases' = releases
    BY <1>2, <2>1, <2>2
  <2>3. ASSUME NEW new, Opens(new)
        PROVE  r = s
    <3>1. new.draft \/ \A a \in releases : ~a.draft => a.version # new.version
      BY <2>3 DEF Opens, Stable
    <3> QED
      BY <1>2, <2>1, <2>3, <3>1 DEF Opens
  <2>4. ASSUME NEW a \in releases, Uploads(a)
        PROVE  r = s
    <3> DEFINE u == [a EXCEPT !.complete = TRUE]
    <3>1. u.version = a.version /\ u.draft = a.draft
      BY ChangedFields
    <3>2. releases' = (releases \ {a}) \cup {u}
      BY <2>4 DEF Uploads
    <3> HIDE DEF u
    <3> QED
      BY <1>2, <2>1, <3>1, <3>2
  <2>5. ASSUME NEW a \in releases, Publishes(a)
        PROVE  r = s
    <3> DEFINE p == [a EXCEPT !.draft = FALSE]
    <3>1. p.version = a.version
      BY ChangedFields
    <3>2. releases' = (releases \ {a}) \cup {p} /\ \A b \in releases : ~b.draft => b.version # a.version
      BY <2>5 DEF Publishes, Stable
    <3> HIDE DEF p
    <3> QED
      BY <1>2, <2>1, <3>1, <3>2
  <2> QED
    BY <2>2, <2>3, <2>4, <2>5, ReleaseSteps
<1> QED
  BY <1>1, <1>2 DEF VersionIsUnique, Stable

LEMMA StandsKept == Inv /\ [Next]_vars => ReleaseStandsOnPushedTag'
<1> SUFFICES ASSUME Inv, [Next]_vars, NEW s \in releases'
             PROVE  Pushed(s.version, s.commit) \in remoteTags'
  BY DEF ReleaseStandsOnPushedTag, Pushed
<1> USE DEF Inv
<1>1. \A r \in releases : Pushed(r.version, r.commit) \in remoteTags
  BY DEF ReleaseStandsOnPushedTag, Pushed
<1>2. ASSUME NEW new, Opens(new)
      PROVE  Pushed(s.version, s.commit) \in remoteTags
  BY <1>1, <1>2 DEF Opens
<1> QED
  BY <1>1, <1>2, ReleasesAreKnown, TagsGrow

LEMMA StrategyStays ==
  ASSUME [Next]_vars
  PROVE  strategy' = strategy
<1>1. ASSUME NEW command, Start(command)
      PROVE  strategy' = strategy
  BY <1>1 DEF Start
<1>2. CASE StartPublish \/ StartPublishPrepared
  BY <1>1, <1>2 DEF StartPublish, StartPublishPrepared
<1>3. CASE StartRun
  <2>1. \E command : Start(command)
    BY <1>3 DEF StartRun
  <2> QED
    BY <1>1, <2>1
<1>4. CASE \/ PrepareOnly \/ Prepare \/ Dispatch \/ WaitFails
           \/ PreviewPublish \/ TagLocally \/ PushTag \/ CreateRelease
  BY <1>4 DEF PrepareOnly, Prepare, Dispatch, WaitFails, PreviewPublish, TagLocally, PushTag,
     CreateRelease
<1>5. CASE Workflow
  BY <1>5 DEF Workflow, StartQueued, WorkflowPlan, WorkflowState, WorkflowTag, WorkflowDraft,
     WorkflowUpload, WorkflowPublish, WorkflowFails
<1>6. CASE People \/ UNCHANGED vars
  BY <1>6 DEF People, PersonMerges, CommitPrepared, MergePrepared, SyncCheckout,
     PersonDispatches, vars
<1> QED
  BY <1>2, <1>3, <1>4, <1>5, <1>6 DEF Next, Commands

LEMMA CommitReleasedOnceKept == Inv /\ [Next]_vars => CommitReleasedOnce'
<1> SUFFICES ASSUME Inv, [Next]_vars, strategy = "workflow", NEW r \in releases',
                    NEW s \in releases', r.commit = s.commit
             PROVE  r.version = s.version
  BY StrategyStays, VersionIsUniqueKept DEF CommitReleasedOnce, VersionIsUnique, Stable
<1> USE DEF Inv
<1>1. \A a, b \in releases : a.commit = b.commit => a.version = b.version
  BY DEF CommitReleasedOnce
<1>2. ASSUME NEW new, Opens(new)
      PROVE  r.version = s.version
  BY <1>1, <1>2 DEF Opens
<1> QED
  BY <1>1, <1>2, ReleasesAreKnown

-------------------------------------------------------------------------------
(* The command. *)

\* A command that starts is at its first step.
LEMMA StartMoves ==
  ASSUME Inv, StartPublish \/ StartRun \/ StartPublishPrepared
  PROVE  /\ IsCmd(cmd') /\ cmd'.step \in {"dispatch", "prepare", "preview"}
         /\ cmd'.step = "preview" => strategy = "direct"
         /\ reported' = NoReport
         /\ UNCHANGED <<originVars, localVars, workflowVars>>
<1>1. CASE StartPublish
  <2>1. PICK preview :
          Start([NoCmd EXCEPT !.kind = "publish", !.step = "dispatch", !.level = preview.level,
                              !.commit = preview.commit, !.version = preview.version,
                              !.ready = TRUE])
    BY <1>1 DEF StartPublish
  <2> QED
    BY <2>1 DEF Start, NoCmd, IsCmd
<1>2. CASE StartRun
  <2>1. CASE \E level, preview :
          Start([NoCmd EXCEPT !.kind = "run", !.step = "prepare", !.level = level,
                              !.commit = preview.commit, !.version = preview.version,
                              !.ready = preview.ready])
    BY <2>1 DEF Start, NoCmd, IsCmd
  <2>2. CASE \E level :
          Start([NoCmd EXCEPT !.kind = "run", !.step = "prepare", !.level = level,
                              !.version = Bump(Baseline, level)])
    BY <2>2 DEF Start, NoCmd, IsCmd
  <2> QED
    BY <1>2, <2>1, <2>2 DEF StartRun
<1>3. CASE StartPublishPrepared
  BY <1>3 DEF StartPublishPrepared, Start, NoCmd, IsCmd
<1> QED
  BY <1>1, <1>2, <1>3

\* How a command comes to be where it is.
LEMMA CommandMoves ==
  ASSUME Inv, [Next]_vars
  PROVE  /\ IsCmd(cmd')
         /\ cmd'.step \in {"preview", "tag", "push", "release"} => strategy = "direct"
         /\ cmd'.step = "release" =>
              cmd' = cmd \/ Pushed(cmd'.version, cmd'.commit) \in remoteTags'
         /\ cmd'.step = "tag" => cmd' = cmd \/ PreviewPublish
<1> USE DEF Inv, Shape, Route
<1>1. CASE StartPublish \/ StartRun \/ StartPublishPrepared
  BY <1>1, StartMoves
<1>2. CASE Prepare
  <2>1. Go("preview") \/ Go("dispatch") \/ End("refused")
    BY <1>2 DEF Prepare
  <2>2. Go("preview") => strategy = "direct"
    <3>1. ~(Go("preview") /\ Go("dispatch")) /\ ~(Go("preview") /\ End("refused"))
      BY GoMoves, EndMoves
    <3> QED
      BY <1>2, <3>1 DEF Prepare
  <2> QED
    BY <2>1, <2>2, GoMoves, EndMoves
<1>3. CASE Dispatch \/ WaitFails
  BY <1>3, GoMoves, EndMoves DEF Dispatch, WaitFails
<1>4. CASE PreviewPublish
  <2>1. strategy = "direct"
    BY <1>4 DEF PreviewPublish
  <2>2. \/ \E outcome : End(outcome)
        \/ cmd' = NoCmd
        \/ \E commit, version :
             cmd' = [cmd EXCEPT !.step = "tag", !.commit = commit, !.version = version]
    BY <1>4 DEF PreviewPublish
  <2>3. ASSUME NEW commit, NEW version,
               cmd' = [cmd EXCEPT !.step = "tag", !.commit = commit, !.version = version]
        PROVE  IsCmd(cmd') /\ cmd'.step = "tag"
    <3>1. cmd' = [kind |-> cmd.kind, step |-> "tag", level |-> cmd.level, commit |-> commit,
                  version |-> version, ready |-> cmd.ready]
      BY <2>3 DEF IsCmd
    <3> QED
      BY <3>1 DEF IsCmd
  <2> QED
    BY <1>4, <2>1, <2>2, <2>3, EndMoves, NoCmdIsCmd
<1>5. CASE TagLocally
  <2>1. Go("push") \/ End("refused")
    BY <1>5 DEF TagLocally
  <2> QED
    BY <1>5, <2>1, GoMoves, EndMoves DEF TagLocally
<1>6. CASE PushTag
  <2>1. \/ /\ Go("release")
           /\ TagIsPushed \/ Pushed(cmd.version, cmd.commit) \in remoteTags'
           /\ remoteTags \subseteq remoteTags'
        \/ End("refused")
    BY <1>6 DEF PushTag, Pushed
  <2>2. TagIsPushed => Pushed(cmd.version, cmd.commit) \in remoteTags
    BY TargetIsPushed DEF TagIsPushed
  <2> QED
    BY <1>6, <2>1, <2>2, GoMoves, EndMoves DEF PushTag
<1>7. CASE CreateRelease
  BY <1>7, EndMoves DEF CreateRelease
<1>8. CASE Workflow
  <2>1. Finish => cmd' = cmd \/ \E outcome : End(outcome)
    BY DEF Finish
  <2>2. Finish \/ cmd' = cmd
    BY <1>8 DEF Workflow, StartQueued, WorkflowPlan, WorkflowState, WorkflowTag, WorkflowDraft,
       WorkflowUpload, WorkflowPublish, WorkflowFails, WorkflowGo, Stop
  <2> QED
    BY <2>1, <2>2, EndMoves
<1>9. CASE PrepareOnly \/ People \/ UNCHANGED vars
  BY <1>9 DEF PrepareOnly, People, PersonMerges, CommitPrepared, MergePrepared, SyncCheckout,
     PersonDispatches, vars
<1> QED
  BY <1>1, <1>2, <1>3, <1>4, <1>5, <1>6, <1>7, <1>8, <1>9 DEF Next, Commands

\* Reads that failed are counted, and by the workflow's own step.
LEMMA BlindReadsGrow ==
  ASSUME Inv, [Next]_vars
  PROVE  /\ blindReads' \in Nat /\ (blindReads' = 0 => blindReads = 0)
         /\ blindReads' = blindReads \/ WorkflowState
<1>1. blindReads \in Nat
  BY DEF Inv, Shape
<1>2. CASE WorkflowState
  <2>1. blindReads' = blindReads \/ blindReads' = blindReads + 1
    BY <1>2 DEF WorkflowState
  <2> QED
    BY <1>1, <1>2, <2>1
<1>3. ASSUME NEW command, Start(command)
      PROVE  blindReads' = blindReads
  BY <1>3 DEF Start
<1>4. CASE StartPublish \/ StartRun \/ StartPublishPrepared
  <2>1. \E command : Start(command)
    BY <1>4 DEF StartPublish, StartRun, StartPublishPrepared
  <2> QED
    BY <1>1, <1>3, <2>1
<1>5. CASE \/ PrepareOnly \/ Prepare \/ Dispatch \/ WaitFails
           \/ PreviewPublish \/ TagLocally \/ PushTag \/ CreateRelease
  BY <1>1, <1>5 DEF PrepareOnly, Prepare, Dispatch, WaitFails, PreviewPublish, TagLocally,
     PushTag, CreateRelease, bounds
<1>6. CASE \/ StartQueued \/ WorkflowPlan \/ WorkflowTag \/ WorkflowDraft
           \/ WorkflowUpload \/ WorkflowPublish \/ WorkflowFails
  BY <1>1, <1>6 DEF StartQueued, WorkflowPlan, WorkflowTag, WorkflowDraft, WorkflowUpload,
     WorkflowPublish, WorkflowFails, bounds
<1>7. CASE People \/ UNCHANGED vars
  BY <1>1, <1>7 DEF People, PersonMerges, CommitPrepared, MergePrepared, SyncCheckout,
     PersonDispatches, bounds, vars
<1> QED
  BY <1>2, <1>4, <1>5, <1>6, <1>7 DEF Next, Commands, Workflow

-------------------------------------------------------------------------------
(* The workflow. *)

\* What holds of a run at its step.
RunInv ==
  /\ IsRun(workflow)
  /\ workflow.step \in {"draft", "upload", "stable"} =>
       Pushed(workflow.version, workflow.commit) \in remoteTags
  /\ CommitInHand
  /\ Alone =>
       /\ workflow.step \in {"tag", "draft"} => \A r \in releases : r.version # workflow.version
       /\ workflow.step = "stable" =>
            \A r \in releases : r.version = workflow.version => r.complete

\* The steps of commands and people let the run be.
LEMMA RunStays ==
  ASSUME Inv, [Next]_vars, ~Workflow
  PROVE  /\ workflow' = workflow
         /\ IsRun(queued') /\ queued'.step \in {"none", "plan"}
         /\ releases' = releases \/ strategy = "direct"
<1> USE DEF Inv, Shape
<1>1. CASE StartPublish \/ StartRun \/ StartPublishPrepared
  BY <1>1, StartMoves DEF originVars, workflowVars
<1>2. CASE PrepareOnly \/ Prepare \/ WaitFails \/ PreviewPublish \/ TagLocally \/ PushTag
  BY <1>2 DEF PrepareOnly, Prepare, WaitFails, PreviewPublish, TagLocally, PushTag,
     originVars, workflowVars
<1>3. CASE Dispatch
  BY <1>3, EnqueuedIsRun DEF Dispatch, originVars, workflowVars
<1>4. CASE CreateRelease
  <2>1. strategy = "direct"
    BY <1>4 DEF CreateRelease, Route
  <2> QED
    BY <1>4, <2>1 DEF CreateRelease, Released, workflowVars
<1>5. CASE PersonMerges \/ MergePrepared \/ PersonDispatches
  BY <1>5, EnqueuedIsRun DEF PersonMerges, MergePrepared, PersonDispatches, Merged, originVars
<1>6. CASE CommitPrepared \/ SyncCheckout \/ UNCHANGED vars
  BY <1>6 DEF CommitPrepared, SyncCheckout, vars, originVars, workflowVars
<1> QED
  BY <1>1, <1>2, <1>3, <1>4, <1>5, <1>6 DEF Next, Commands, People

\* A run that is over.
LEMMA NoRunInv ==
  ASSUME workflow' = NoRun
  PROVE  RunInv'
BY NoRunIsRun DEF RunInv, CommitInHand

\* A run that is planned has a commit that is not published, and goes on with the version
\* of its drafts.
LEMMA PlannedRun == Inv /\ WorkflowPlan => RunInv'
<1> SUFFICES ASSUME Inv, WorkflowPlan PROVE RunInv'
  OBVIOUS
<1> USE DEF Inv
<1> DEFINE plan == Plan(workflow.level, workflow.commit, main, releases)
<1>1. CASE ~plan.publish
  BY <1>1, NoRunInv DEF WorkflowPlan, Finish
<1>2. CASE plan.publish
  <2>1. /\ workflow' = [workflow EXCEPT !.step = "state", !.version = plan.version]
        /\ UNCHANGED <<strategy, releases, remoteTags>>
    BY <1>2 DEF WorkflowPlan, originVars
  <2> HIDE DEF plan
  <2>2. workflow' = [event |-> workflow.event, level |-> workflow.level,
                     commit |-> workflow.commit, step |-> "state", version |-> plan.version]
    BY <2>1 DEF Shape, IsRun
  <2>3. IsRun(workflow') /\ workflow'.step = "state" /\ workflow'.commit = workflow.commit
        /\ workflow'.version = plan.version
    BY <2>2 DEF IsRun
  <2>4. ASSUME strategy = "workflow", NEW r \in releases, r.commit = workflow.commit
        PROVE  r.version = plan.version /\ r.draft
    <3> DEFINE here == {s \in releases : s.commit = workflow.commit}
    <3>1. r \in here /\ \A s \in here : s.version = r.version
      BY <2>4 DEF CommitReleasedOnce
    <3>2. ReleasesOf(releases, workflow.commit) = StableFirst(here)
      BY DEF ReleasesOf
    <3>3. Stable(here) = {}
      <4>1. ASSUME Stable(here) # {}
            PROVE  FALSE
        <5>1. StableFirst(here) = Stable(here) /\ Stable(Stable(here)) = Stable(here)
          BY <4>1 DEF StableFirst, Stable
        <5> QED
          BY <1>2, <3>2, <4>1, <5>1 DEF plan, Plan, NoPlan
      <4> QED
        BY <4>1
    <3>4. StableFirst(here) = here
      BY <3>3 DEF StableFirst
    <3>5. plan.version = Newest({s.version : s \in here})
      BY <1>2, <3>1, <3>2, <3>3, <3>4 DEF plan, Plan, NoPlan
    <3>6. {s.version : s \in here} = {r.version}
      <4> HIDE DEF here
      <4> QED
        BY <3>1
    <3>7. r.draft
      BY <3>1, <3>3 DEF Stable
    <3> QED
      BY <3>5, <3>6, <3>7 DEF Newest
  <2> QED
    BY <2>1, <2>3, <2>4 DEF RunInv, CommitInHand
<1> QED
  BY <1>1, <1>2

\* The run as it goes on, where its step leaves version and commit.
LEMMA StateKept == Inv /\ WorkflowState => RunInv' /\ queued' = queued
<1> SUFFICES ASSUME Inv, WorkflowState PROVE RunInv' /\ queued' = queued
  OBVIOUS
<1> USE DEF Inv, Shape
<1> DEFINE tagged == Targets(remoteTags, workflow.version)
           shown == Viewed(releases, workflow.version)
           state(targets, seen) == PublicationState(workflow.commit, targets, seen)
<1>1. PICK targets \in {tagged, {}} : \E seen \in {{}} \cup {{r} : r \in shown} :
        /\ targets # tagged \/ (seen = {} /\ shown # {}) => blindReads' = blindReads + 1
        /\ \/ WorkflowGo("tag") /\ state(targets, seen) = "create"
           \/ WorkflowGo("draft") /\ state(targets, seen) = "resume-with-tag"
           \/ WorkflowGo("upload") /\ state(targets, seen) = "resume-draft"
           \/ Finish \/ Stop
  BY DEF WorkflowState
<1>2. PICK seen \in {{}} \cup {{r} : r \in shown} :
        /\ targets # tagged \/ (seen = {} /\ shown # {}) => blindReads' = blindReads + 1
        /\ \/ WorkflowGo("tag") /\ state(targets, seen) = "create"
           \/ WorkflowGo("draft") /\ state(targets, seen) = "resume-with-tag"
           \/ WorkflowGo("upload") /\ state(targets, seen) = "resume-draft"
           \/ Finish \/ Stop
  BY <1>1
<1>3. UNCHANGED <<strategy, releases, remoteTags>> /\ workflow.step = "state"
  BY DEF WorkflowState, originVars
<1>4. \A r \in seen : r \in releases /\ r.version = workflow.version
  BY ViewedIsStableFirst
<1>5. ASSUME Alone', seen = {}
      PROVE  \A r \in releases : r.version # workflow.version
  <2>1. shown = {}
    BY <1>2, <1>3, <1>5 DEF Alone
  <2> QED
    BY <2>1 DEF Viewed, StableFirst, Stable
<1> HIDE DEF shown
<1>6. CASE Finish \/ Stop
  BY <1>6, NoRunInv DEF Finish, Stop
<1>7. ASSUME NEW step \in {"tag", "draft", "upload"}, WorkflowGo(step),
             step = "tag" => state(targets, seen) = "create",
             step = "draft" => state(targets, seen) = "resume-with-tag",
             step = "upload" => state(targets, seen) = "resume-draft"
      PROVE  RunInv' /\ queued' = queued
  <2>1. /\ IsRun(workflow') /\ workflow'.step = step /\ workflow'.version = workflow.version
        /\ workflow'.commit = workflow.commit /\ queued' = queued
    BY <1>7, WorkflowGoes
  <2>2. CommitInHand'
    BY <1>3, <2>1 DEF CommitInHand
  <2>3. ASSUME step = "draft"
        PROVE  Pushed(workflow.version, workflow.commit) \in remoteTags
    <3>1. targets \ {workflow.commit} = {} /\ targets # {}
      BY <1>7, <2>3 DEF PublicationState
    <3>2. workflow.commit \in tagged
      BY <3>1
    <3> QED
      BY <3>2, TargetIsPushed
  <2>4. ASSUME step = "upload"
        PROVE  Pushed(workflow.version, workflow.commit) \in remoteTags
    <3>1. PICK r \in seen : r.commit = workflow.commit
      BY <1>7, <2>4 DEF PublicationState
    <3> QED
      BY <1>4, <3>1 DEF ReleaseStandsOnPushedTag, Pushed
  <2>5. step \in {"tag", "draft"} => seen = {}
    BY <1>7 DEF PublicationState
  <2> QED
    BY <1>3, <1>5, <2>1, <2>2, <2>3, <2>4, <2>5 DEF RunInv
<1> HIDE DEF state
<1> QED
  BY <1>2, <1>6, <1>7 DEF Finish, Stop

LEMMA DraftKept == Inv /\ WorkflowDraft => RunInv' /\ queued' = queued
<1> SUFFICES ASSUME Inv, WorkflowDraft PROVE RunInv' /\ queued' = queued
  OBVIOUS
<1> USE DEF Inv, Shape
<1>1. PICK complete \in BOOLEAN :
        /\ releases' = releases \cup
             {NewRelease(workflow.version, workflow.commit, TRUE, complete)}
        /\ IF complete THEN WorkflowGo("stable") ELSE Stop
  BY DEF WorkflowDraft
<1> DEFINE new == NewRelease(workflow.version, workflow.commit, TRUE, complete)
<1>0. new = NewRelease(workflow.version, workflow.commit, TRUE, complete)
  OBVIOUS
<1>3. releases' = releases \cup {new}
  BY <1>1
<1> HIDE DEF new
<1>2. /\ new.version = workflow.version /\ new.commit = workflow.commit
      /\ new.draft /\ new.complete = complete
  BY <1>0 DEF NewRelease
<1>4. workflow.step = "draft" /\ UNCHANGED <<strategy, remoteTags, blindReads>>
  BY DEF WorkflowDraft
<1>5. CASE ~complete
  BY <1>1, <1>5, NoRunInv DEF Stop
<1>6. CASE complete
  <2>1. /\ IsRun(workflow') /\ workflow'.step = "stable" /\ workflow'.version = workflow.version
        /\ workflow'.commit = workflow.commit /\ queued' = queued
    BY <1>1, <1>6, WorkflowGoes
  <2>2. CommitInHand'
    BY <1>2, <1>3, <1>4, <2>1 DEF CommitInHand
  <2>3. Alone' => \A r \in releases' : r.version = workflow.version => r.complete
    BY <1>2, <1>3, <1>4, <1>6 DEF Alone, DraftInHand
  <2> QED
    BY <1>4, <2>1, <2>2, <2>3 DEF RunInv, TagBeforeRelease
<1> QED
  BY <1>5, <1>6

LEMMA UploadKept == Inv /\ WorkflowUpload => RunInv' /\ queued' = queued
<1> SUFFICES ASSUME Inv, WorkflowUpload PROVE RunInv' /\ queued' = queued
  OBVIOUS
<1> USE DEF Inv
<1>1. PICK r \in Viewed(releases, workflow.version) :
        releases' = (releases \ {r}) \cup {[r EXCEPT !.complete = TRUE]}
  BY DEF WorkflowUpload
<1> DEFINE u == [r EXCEPT !.complete = TRUE]
<1>2. r \in releases /\ r.version = workflow.version
  BY ViewedIsStableFirst
<1>3. u.version = r.version /\ u.commit = r.commit /\ u.draft = r.draft /\ u.complete
  BY <1>2, ChangedFields
<1>4. releases' = (releases \ {r}) \cup {u}
  BY <1>1
<1> HIDE DEF u
<1>5. /\ IsRun(workflow') /\ workflow'.step = "stable" /\ workflow'.version = workflow.version
      /\ workflow'.commit = workflow.commit /\ queued' = queued
  BY WorkflowGoes DEF WorkflowUpload, Shape
<1>6. UNCHANGED <<strategy, remoteTags, blindReads>> /\ workflow.step = "upload"
  BY DEF WorkflowUpload, bounds
<1>7. CommitInHand'
  BY <1>2, <1>3, <1>4, <1>5, <1>6 DEF CommitInHand
<1>8. Alone' => \A s \in releases' : s.version = workflow.version => s.complete
  BY <1>2, <1>3, <1>4, <1>6 DEF Alone, DraftInHand
<1> QED
  BY <1>5, <1>6, <1>7, <1>8 DEF RunInv, TagBeforeRelease

LEMMA RunInvKept == Inv /\ [Next]_vars => RunInv' /\ IsRun(queued') /\ queued'.step \in {"none", "plan"}
<1> SUFFICES ASSUME Inv, [Next]_vars
             PROVE  RunInv' /\ IsRun(queued') /\ queued'.step \in {"none", "plan"}
  OBVIOUS
<1> USE DEF Inv, Shape
<1>1. CASE ~Workflow
  <2>1. workflow' = workflow /\ strategy' = strategy /\ remoteTags \subseteq remoteTags'
        /\ (Alone' => Alone)
    BY <1>1, RunStays, StrategyStays, TagsGrow, BlindReadsGrow DEF Alone
  <2>2. CommitInHand'
    BY <1>1, <2>1, RunStays DEF CommitInHand
  <2>3. Alone' => releases' = releases
    BY <1>1, <2>1, RunStays DEF Alone
  <2> QED
    BY <1>1, <2>1, <2>2, <2>3, RunStays DEF RunInv, TagBeforeRelease, DraftInHand
<1>2. CASE StartQueued
  <2>1. workflow' = queued /\ queued' = NoRun
    BY <1>2 DEF StartQueued
  <2> QED
    BY <2>1, NoRunIsRun DEF RunInv, CommitInHand
<1>3. CASE WorkflowPlan
  BY <1>3, PlannedRun DEF WorkflowPlan, Finish
<1>4. CASE WorkflowState \/ WorkflowDraft \/ WorkflowUpload
  BY <1>4, StateKept, DraftKept, UploadKept
<1>5. CASE WorkflowTag
  <2>1. CASE Stop
    BY <1>5, <2>1, NoRunInv DEF Stop
  <2>2. CASE /\ WorkflowGo("draft")
             /\ remoteTags' = remoteTags \cup {Pushed(workflow.version, workflow.commit)}
    <3>1. /\ IsRun(workflow') /\ workflow'.step = "draft" /\ workflow'.version = workflow.version
          /\ workflow'.commit = workflow.commit /\ queued' = queued
      BY <2>2, WorkflowGoes
    <3>2. UNCHANGED <<strategy, releases, blindReads>> /\ workflow.step = "tag"
      BY <1>5 DEF WorkflowTag, bounds
    <3> QED
      BY <2>2, <3>1, <3>2 DEF RunInv, CommitInHand, DraftInHand, Alone
  <2> QED
    BY <1>5, <2>1, <2>2 DEF WorkflowTag, Pushed
<1>6. CASE WorkflowPublish \/ WorkflowFails
  BY <1>6, NoRunInv DEF WorkflowPublish, WorkflowFails, Finish, Stop
<1> QED
  BY <1>1, <1>2, <1>3, <1>4, <1>5, <1>6 DEF Workflow

\* As long as the workflow saw what there is, a version has one release.
LEMMA OneReleaseKept ==
  ASSUME Inv, [Next]_vars, Alone'
  PROVE  \A r, s \in releases' : r.version = s.version => r = s
<1>1. Alone
  BY StrategyStays, BlindReadsGrow DEF Alone
<1>2. \A r, s \in releases : r.version = s.version => r = s
  BY <1>1 DEF Inv, DraftInHand
<1>3. ASSUME NEW new, Opens(new)
      PROVE  \A r, s \in releases' : r.version = s.version => r = s
  BY <1>1, <1>2, <1>3 DEF Opens
<1>4. ASSUME NEW r \in releases, NEW s, releases' = (releases \ {r}) \cup {s},
             s.version = r.version
      PROVE  \A a, b \in releases' : a.version = b.version => a = b
  BY <1>2, <1>4
<1>5. ASSUME NEW r \in releases, Uploads(r) \/ Publishes(r)
      PROVE  \A a, b \in releases' : a.version = b.version => a = b
  <2>1. /\ [r EXCEPT !.complete = TRUE].version = r.version
        /\ [r EXCEPT !.draft = FALSE].version = r.version
    BY ChangedFields
  <2> QED
    BY <1>4, <1>5, <2>1 DEF Uploads, Publishes
<1> QED
  BY <1>2, <1>3, <1>5, ReleaseSteps

-------------------------------------------------------------------------------
(* main and the checkout. *)

LEMMA BumpIsVersion ==
  ASSUME NEW version \in Version, NEW level
  PROVE  Bump(version, level) \in Version
BY DEF Version, Bump

LEMMA CheckoutFields ==
  ASSUME Inv
  PROVE  /\ checkout \in [onMain : BOOLEAN, main : Nat, py : Version, lock : Version,
                          dirty : BOOLEAN]
         /\ checkout.py \in Version
         /\ Len(main) \in Nat /\ Len(main) \in 1..Len(main) /\ Len(main) + 1 \in Nat
         /\ \A c \in 1..Len(main) : main[c] \in MergeCommit
<1>1. checkout \in Checkout /\ main \in Seq(MergeCommit) /\ Len(main) # 0
  BY DEF Inv, Shape
<1>2. Len(main) \in Nat /\ \A c \in 1..Len(main) : main[c] \in MergeCommit
  BY <1>1, LenProperties, ElementOfSeq
<1> QED
  BY <1>1, <1>2 DEF Checkout

\* What prepare_release writes leaves a changed checkout dirty.
LEMMA PreparedCheckout ==
  ASSUME Inv, NEW level, Prepared(level)
  PROVE  /\ checkout' \in Checkout /\ checkout'.main = checkout.main
         /\ checkout'.onMain = checkout.onMain
         /\ checkout' = checkout \/ checkout'.dirty
<1> DEFINE next == Bump(checkout.py, level)
<1>1. next \in Version
  BY CheckoutFields, BumpIsVersion
<1> HIDE DEF next
<1>2. \/ checkout' = [checkout EXCEPT !.py = next, !.lock = next, !.dirty = TRUE]
      \/ checkout' = checkout
      \/ checkout' = [checkout EXCEPT !.py = next, !.dirty = TRUE]
  BY DEF Prepared, next
<1> QED
  BY <1>1, <1>2, CheckoutFields DEF Checkout

\* main only grows, and by commits that are typed.
LEMMA MainGrows ==
  ASSUME Inv, NEW change \in [label : Label, impact : Impact], NEW version \in Version,
         Merged(change, version)
  PROVE  /\ main' \in Seq(MergeCommit) /\ Len(main') = Len(main) + 1
         /\ \A c \in 1..Len(main) : main'[c] = main[c]
<1> DEFINE commit == [version |-> version, label |-> change.label, impact |-> change.impact]
<1>1. commit \in MergeCommit
  BY DEF MergeCommit
<1>2. main \in Seq(MergeCommit) /\ main' = Append(main, commit)
  BY DEF Inv, Shape, Merged
<1> HIDE DEF commit
<1> QED
  BY <1>1, <1>2, AppendProperties

LEMMA MainSteps ==
  ASSUME Inv, [Next]_vars
  PROVE  \/ main' = main
         \/ /\ UNCHANGED <<checkout, cmd>>
            /\ main' \in Seq(MergeCommit) /\ Len(main') = Len(main) + 1
            /\ \A c \in 1..Len(main) : main'[c] = main[c]
<1>1. CASE PersonMerges
  <2>1. main[Len(main)].version \in Version
    BY CheckoutFields DEF MergeCommit
  <2> QED
    BY <1>1, <2>1, MainGrows, ReleasePipelineAssumption DEF PersonMerges, localVars
<1>2. CASE MergePrepared
  <2>1. main[Len(main)].version \in Version
    BY CheckoutFields DEF MergeCommit
  <2>2. [label |-> "none", impact |-> "none"] \in [label : Label, impact : Impact]
    BY DEF Label, Impact
  <2>3. PICK version \in {Bump(main[Len(main)].version, "patch")} \cup {checkout.py} :
          Merged([label |-> "none", impact |-> "none"], version)
    BY <1>2 DEF MergePrepared
  <2>4. version \in Version
    BY <2>1, <2>3, CheckoutFields, BumpIsVersion
  <2> QED
    BY <1>2, <2>2, <2>3, <2>4, MainGrows DEF MergePrepared, localVars
<1>3. CASE StartPublish \/ StartRun \/ StartPublishPrepared
  BY <1>3, StartMoves DEF originVars
<1>4. CASE \/ PrepareOnly \/ Prepare \/ Dispatch \/ WaitFails
           \/ PreviewPublish \/ TagLocally \/ PushTag \/ CreateRelease
  BY <1>4 DEF PrepareOnly, Prepare, Dispatch, WaitFails, PreviewPublish, TagLocally, PushTag,
     CreateRelease, originVars
<1>5. CASE Workflow
  BY <1>5 DEF Workflow, StartQueued, WorkflowPlan, WorkflowState, WorkflowTag, WorkflowDraft,
     WorkflowUpload, WorkflowPublish, WorkflowFails, originVars
<1>6. CASE CommitPrepared \/ SyncCheckout \/ PersonDispatches \/ UNCHANGED vars
  BY <1>6 DEF CommitPrepared, SyncCheckout, PersonDispatches, vars, originVars
<1> QED
  BY <1>1, <1>2, <1>3, <1>4, <1>5, <1>6 DEF Next, Commands, People

\* The checkout changes by a preparation, a commit or a pull, and no command that has a
\* tag in hand does.
LEMMA CheckoutSteps ==
  ASSUME Inv, [Next]_vars
  PROVE  \/ checkout' = checkout
         \/ /\ \E level : Prepared(level)
            /\ cmd'.step # "tag"
         \/ CommitPrepared
         \/ SyncCheckout
<1>1. CASE PrepareOnly
  BY <1>1, NoCmdIsCmd DEF PrepareOnly
<1>2. CASE Prepare
  <2>1. Go("preview") \/ Go("dispatch") \/ End("refused")
    BY <1>2 DEF Prepare
  <2> QED
    BY <1>2, <2>1, GoMoves, EndMoves DEF Prepare, Inv, Shape
<1>3. CASE StartPublish \/ StartRun \/ StartPublishPrepared
  BY <1>3, StartMoves DEF localVars
<1>4. CASE \/ Dispatch \/ WaitFails \/ PreviewPublish \/ TagLocally \/ PushTag \/ CreateRelease
  BY <1>4 DEF Dispatch, WaitFails, PreviewPublish, TagLocally, PushTag, CreateRelease, localVars
<1>5. CASE Workflow
  BY <1>5 DEF Workflow, StartQueued, WorkflowPlan, WorkflowState, WorkflowTag, WorkflowDraft,
     WorkflowUpload, WorkflowPublish, WorkflowFails, localVars
<1>6. CASE People \/ UNCHANGED vars
  BY <1>6 DEF People, PersonMerges, CommitPrepared, MergePrepared, SyncCheckout,
     PersonDispatches, localVars, vars
<1> QED
  BY <1>1, <1>2, <1>3, <1>4, <1>5, <1>6 DEF Next, Commands

LEMMA CheckoutKept == Inv /\ [Next]_vars => checkout' \in Checkout /\ CheckoutIsMain'
<1> SUFFICES ASSUME Inv, [Next]_vars PROVE checkout' \in Checkout /\ CheckoutIsMain'
  OBVIOUS
<1> USE DEF Inv
<1>1. CASE main' # main
  <2>1. /\ UNCHANGED <<checkout, cmd>> /\ Len(main') = Len(main) + 1 /\ Len(main) \in Nat
        /\ \A c \in 1..Len(main) : main'[c] = main[c]
    BY <1>1, MainSteps, CheckoutFields
  <2>2. \A c \in 1..Len(main) : c \in 1..Len(main')
    BY <2>1
  <2> QED
    BY <2>1, <2>2 DEF CheckoutIsMain, Shape
<1>2. CASE main' = main /\ checkout' = checkout
  <2>1. CASE cmd' = cmd
    BY <1>2, <2>1 DEF CheckoutIsMain, Shape
  <2>2. CASE cmd'.step # "tag"
    BY <1>2, <2>2 DEF CheckoutIsMain, Shape
  <2>3. CASE PreviewPublish /\ cmd'.step = "tag"
    <3>1. /\ cmd' = [cmd EXCEPT !.step = "tag", !.commit = Len(main), !.version = checkout.py]
          /\ ~checkout.dirty /\ checkout.main = Len(main)
      BY <2>3, EndMoves, NoCmdIsCmd DEF PreviewPublish, StaleMain
    <3>2. cmd' = [kind |-> cmd.kind, step |-> "tag", level |-> cmd.level, commit |-> Len(main),
                  version |-> checkout.py, ready |-> cmd.ready]
      BY <3>1 DEF Shape, IsCmd
    <3>3. cmd'.commit = Len(main) /\ cmd'.version = checkout.py
      BY <3>2
    <3> QED
      BY <1>2, <3>1, <3>3, CheckoutFields DEF CheckoutIsMain, Shape
  <2> QED
    BY <2>1, <2>2, <2>3, CommandMoves
<1>3. CASE main' = main /\ (\E level : Prepared(level)) /\ cmd'.step # "tag"
  BY <1>3, PreparedCheckout DEF CheckoutIsMain, Shape
<1>4. CASE main' = main /\ CommitPrepared
  <2>1. checkout' \in Checkout /\ ~checkout'.onMain /\ checkout'.main = checkout.main
    BY <1>4, CheckoutFields DEF CommitPrepared, Checkout
  <2> QED
    BY <1>4, <2>1 DEF CheckoutIsMain
<1>5. CASE main' = main /\ SyncCheckout
  <2>1. main[Len(main)].version \in Version
    BY CheckoutFields DEF MergeCommit
  <2>2. /\ checkout' \in Checkout /\ checkout'.main = Len(main)
        /\ checkout'.py = main[Len(main)].version
    BY <1>5, <2>1, CheckoutFields DEF SyncCheckout, Checkout
  <2>3. cmd' = cmd /\ cmd.step = "idle"
    BY <1>5, NoCmdIsCmd DEF SyncCheckout
  <2> QED
    BY <1>5, <2>2, <2>3, CheckoutFields DEF CheckoutIsMain
<1> QED
  BY <1>1, <1>2, <1>3, <1>4, <1>5, CheckoutSteps

-------------------------------------------------------------------------------
(* Reports. *)

\* What a report of a publication says, of the releases of this state.
Told(report) ==
  report.outcome \in {"published", "already-published"} =>
    \E r \in Stable(releases) :
      /\ r.version = report.version /\ r.commit = report.commit
      /\ strategy = "workflow" => r.complete

LEMMA ToldStays ==
  ASSUME Inv, [Next]_vars, NEW report, Told(report)
  PROVE  report.outcome \in {"published", "already-published"} =>
           \E s \in Stable(releases') :
             /\ s.version = report.version /\ s.commit = report.commit
             /\ strategy' = "workflow" => s.complete
BY ReleasesGrow, StrategyStays DEF Told, Stable

LEMMA ReportSteps ==
  ASSUME Inv, [Next]_vars
  PROVE  Told(reported') \/ (CreateRelease /\ Released(remoteTags) /\ End("published"))
<1> USE DEF Inv
<1>1. CASE reported' = reported
  BY <1>1 DEF ReportIsTrue, Told
<1>2. ASSUME NEW outcome \in {"none", "refused", "partial", "prepared-pending-commit"},
             reported'.outcome = outcome
      PROVE  Told(reported')
  BY <1>2 DEF Told
<1>3. ASSUME NEW outcome \in {"none", "refused", "partial", "prepared-pending-commit"},
             End(outcome)
      PROVE  Told(reported')
  BY <1>2, <1>3, EndMoves
<1>4. NoReport.outcome = "none"
  BY DEF NoReport
<1>5. CASE StartPublish \/ StartRun \/ StartPublishPrepared \/ PrepareOnly
  BY <1>2, <1>4, <1>5, StartMoves DEF PrepareOnly
<1>6. CASE Prepare \/ Dispatch \/ WaitFails \/ TagLocally \/ PushTag
  BY <1>1, <1>3, <1>6 DEF Prepare, Dispatch, WaitFails, TagLocally, PushTag, Go
<1>7. CASE PreviewPublish
  <2> DEFINE version == checkout.py
  <2> DEFINE target == Len(main)
  <2>1. \/ \E outcome \in {"refused", "prepared-pending-commit"} : End(outcome)
        \/ reported' = reported
        \/ /\ reported' = [outcome |-> "already-published", commit |-> target, version |-> version]
           /\ {r \in Stable(releases) : r.version = version} # {}
           /\ ~\E r \in {s \in Stable(releases) : s.version = version} : r.commit # target
    BY <1>7 DEF PreviewPublish
  <2>2. strategy = "direct"
    BY <1>7 DEF PreviewPublish, Route
  <2>3. ASSUME reported' = [outcome |-> "already-published", commit |-> target,
                            version |-> version],
               {r \in Stable(releases) : r.version = version} # {},
               ~\E r \in {s \in Stable(releases) : s.version = version} : r.commit # target
        PROVE  Told(reported')
    <3>1. PICK r \in Stable(releases) : r.version = version /\ r.commit = target
      BY <2>3
    <3>2. reported'.version = version /\ reported'.commit = target
      BY <2>3
    <3> QED
      BY <2>2, <3>1, <3>2 DEF Told
  <2> QED
    BY <1>1, <1>3, <2>1, <2>3
<1>8. CASE CreateRelease
  BY <1>3, <1>8 DEF CreateRelease
<1>9. CASE Workflow
  <2>1. Finish => reported' = reported \/ End(ValidatedOutcome)
    BY DEF Finish
  <2>2. Finish \/ reported' = reported
    BY <1>9 DEF Workflow, StartQueued, WorkflowPlan, WorkflowState, WorkflowTag, WorkflowDraft,
       WorkflowUpload, WorkflowPublish, WorkflowFails, WorkflowGo, Stop
  <2>3. ASSUME End(ValidatedOutcome)
        PROVE  Told(reported')
    <3>1. CASE ~Validated
      BY <1>3, <2>3, <3>1 DEF ValidatedOutcome
    <3>2. CASE Validated
      <4>1. reported'.version = cmd.version /\ reported'.commit = cmd.commit
        BY <2>3, EndMoves
      <4> QED
        BY <3>2, <4>1 DEF Validated, Told
    <3> QED
      BY <3>1, <3>2
  <2> QED
    BY <1>1, <2>1, <2>2, <2>3
<1>10. CASE People \/ UNCHANGED vars
  BY <1>1, <1>10 DEF People, PersonMerges, CommitPrepared, MergePrepared, SyncCheckout,
     PersonDispatches, vars
<1> QED
  BY <1>5, <1>6, <1>7, <1>8, <1>9, <1>10 DEF Next, Commands

LEMMA ReportKept == Inv /\ [Next]_vars => ReportIsTrue'
<1> SUFFICES ASSUME Inv, [Next]_vars PROVE ReportIsTrue'
  OBVIOUS
<1>1. CASE Told(reported')
  BY <1>1, ToldStays DEF ReportIsTrue
<1>2. CASE CreateRelease /\ Released(remoteTags) /\ End("published")
  <2> DEFINE r == NewRelease(cmd.version, cmd.commit, FALSE, FALSE)
  <2>1. r \in Stable(releases') /\ r.version = cmd.version /\ r.commit = cmd.commit
    <3>2. r \in releases' /\ r = NewRelease(cmd.version, cmd.commit, FALSE, FALSE)
      BY <1>2 DEF Released
    <3> HIDE DEF r
    <3>1. r.version = cmd.version /\ r.commit = cmd.commit /\ ~r.draft
      BY <3>2 DEF NewRelease
    <3> QED
      BY <3>1, <3>2 DEF Stable
  <2>2. reported'.version = cmd.version /\ reported'.commit = cmd.commit
    BY <1>2, EndMoves
  <2>3. strategy' = "direct"
    BY <1>2, StrategyStays DEF CreateRelease, Inv, Route
  <2> QED
    BY <2>1, <2>2, <2>3 DEF ReportIsTrue
<1> QED
  BY <1>1, <1>2, ReportSteps

-------------------------------------------------------------------------------
(* The theorems. *)

LEMMA ShapeKept == Inv /\ [Next]_vars => Shape'
<1> SUFFICES ASSUME Inv, [Next]_vars PROVE Shape'
  OBVIOUS
<1>1. main' \in Seq(MergeCommit) /\ Len(main') # 0
  BY MainSteps, CheckoutFields DEF Inv, Shape
<1>2. \A t \in remoteTags' : t = Pushed(t.version, t.commit)
  BY TagSteps DEF Inv, Shape, Pushed
<1>3. \A r \in releases' : IsRelease(r)
  BY ReleasesAreKnown
<1> QED
  BY <1>1, <1>2, <1>3, CheckoutKept, CommandMoves, RunInvKept, BlindReadsGrow, StrategyStays
  DEF Inv, Shape, RunInv

LEMMA InvKept == Inv /\ [Next]_vars => Inv'
<1> SUFFICES ASSUME Inv, [Next]_vars PROVE Inv'
  OBVIOUS
<1>1. Route'
  BY CommandMoves, StrategyStays DEF Route
<1>2. TagBeforeRelease' /\ DraftInHand' /\ CommitInHand'
  BY CommandMoves, RunInvKept, OneReleaseKept, TagsGrow
  DEF RunInv, TagBeforeRelease, DraftInHand, Inv
<1> QED
  BY <1>1, <1>2, ShapeKept, CheckoutKept, StandsKept, VersionIsUniqueKept,
     CommitReleasedOnceKept, ReportKept DEF Inv

\* Inv is an invariant of the releases, for any bounds.
THEOREM ReleaseInvariance == Spec => []Inv
BY InitInv, InvKept, PTL DEF Spec

\* A release, draft or not, stands on an annotated tag that was pushed before it.
THEOREM ReleaseTagged == Spec => []ReleaseStandsOnPushedTag
<1>1. Inv => ReleaseStandsOnPushedTag
  BY DEF Inv
<1> QED
  BY <1>1, ReleaseInvariance, PTL

\* A version is one tag and one published release, though both routes and the workflow
\* race for it and drafts of it may stand beside.
THEOREM ReleaseVersionIsUnique == Spec => []VersionIsUnique
<1>1. Inv => VersionIsUnique
  BY DEF Inv
<1> QED
  BY <1>1, ReleaseInvariance, PTL

\* Where only the workflow publishes, a commit is released under one version and published
\* once, whatever is dispatched, fails, is misread or is repeated.
THEOREM ReleaseCommitReleasedOnce == Spec => []CommitReleasedOnce
<1>1. Inv => CommitReleasedOnce
  BY DEF Inv
<1> QED
  BY <1>1, ReleaseInvariance, PTL

\* A command that reports a publication names a release that is published; where the
\* workflow made it, with its assets.
THEOREM ReleaseReportIsTrue == Spec => []ReportIsTrue
<1>1. Inv => ReportIsTrue
  BY DEF Inv
<1> QED
  BY <1>1, ReleaseInvariance, PTL

\* A tag that the direct route makes from a checkout of main is at the commit that declares
\* its version.
THEOREM ReleaseTagDeclaresVersion == Spec => DirectTagDeclaresVersion
<1>1. ASSUME Inv, [Next]_vars
      PROVE  localTags' # localTags /\ cmd.step = "tag" /\ checkout.onMain =>
               main[cmd.commit].version = cmd.version
  BY <1>1 DEF Inv, CheckoutIsMain
<1> QED
  BY <1>1, ReleaseInvariance, PTL DEF Spec, DirectTagDeclaresVersion

\* Nothing removes a stable release or changes it, but that the workflow may add the assets
\* that one of the direct route lacks.
THEOREM ReleaseStableIsFinal == Spec => StableIsFinal
<1>1. ASSUME Inv, [Next]_vars
      PROVE  \A r \in Stable(releases) :
               \/ r \in releases'
               \/ strategy = "direct" /\ [r EXCEPT !.complete = TRUE] \in releases'
  <2> SUFFICES ASSUME NEW r \in releases, ~r.draft, r \notin releases'
               PROVE  strategy = "direct" /\ [r EXCEPT !.complete = TRUE] \in releases'
    BY DEF Stable
  <2>1. Uploads(r) \/ Publishes(r)
    BY <1>1, ReleaseSteps DEF Opens, Uploads, Publishes
  <2> QED
    BY <2>1 DEF Uploads, Publishes
<1> QED
  BY <1>1, ReleaseInvariance, PTL DEF Spec, StableIsFinal

===============================================================================
