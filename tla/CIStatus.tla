------------------------------- MODULE CIStatus -------------------------------
(***************************************************************************)
(* The CI verdict of the automatic merge (ci_status): three sources, any   *)
(* of which may be out of reach, reduced to one verdict for a head commit. *)
(***************************************************************************)
EXTENDS Naturals

CISource == {"workflow-runs", "commit-status", "check-runs"}

\* A workflow run or check run of the commit.  `relevant`: GitHub started it for
\* the pull request; a check run is always relevant.
CheckRun == [relevant : BOOLEAN, completed : BOOLEAN, passing : BOOLEAN]

CIReading == {"green", "failing", "pending", "unavailable"}

\* One source's reading of the runs it lists; nothing to read is no reading.
ReadingOf(runs) ==
  LET seen == {r \in runs : r.relevant}
  IN CASE seen = {} -> "unavailable"
       [] \E r \in seen : ~r.completed -> "pending"
       [] seen # {} /\ (\A r \in seen : r.completed) /\ (\E r \in seen : ~r.passing) -> "failing"
       [] OTHER -> "green"

\* The combined status API: a total and one state.
StatusReading(total, state) ==
  CASE total = 0 -> "unavailable"
    [] total # 0 /\ state = "success" -> "green"
    [] total # 0 /\ state = "pending" -> "pending"
    [] OTHER -> "failing"

\* A listing that raised is unavailable as well.
ReadingsOf(source) ==
  {"unavailable"} \cup
    IF source = "commit-status"
    THEN {StatusReading(n, s) : n \in 0..1, s \in {"success", "pending", "failure"}}
    ELSE {ReadingOf(runs) : runs \in SUBSET {r \in CheckRun :
                                              source = "check-runs" => r.relevant}}

Readings ==
  {f \in [CISource -> CIReading] : \A s \in CISource : f[s] \in ReadingsOf(s)}

\* A failure is never masked by another source, and no reading at all is not
\* green.
Verdict(reading) ==
  CASE \E s \in CISource : reading[s] = "failing" -> "failing"
    [] (\A s \in CISource : reading[s] # "failing") /\ (\E s \in CISource : reading[s] = "pending")
         -> "pending"
    [] (\A s \in CISource : reading[s] \in {"green", "unavailable"})
         /\ (\E s \in CISource : reading[s] = "green") -> "green"
    [] OTHER -> "unknown"
===============================================================================
