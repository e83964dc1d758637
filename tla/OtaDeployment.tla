--------------------------- MODULE OtaDeployment ---------------------------
(***************************************************************************)
(* The deployment of many domains that wait for each other: OtaSystem from *)
(* the moment on at which every domain has its files and has said that it  *)
(* waits.  The server tells the domains who has still to finish (the       *)
(* depends of CTL_DEPLOY), a domain whose package needs none of these      *)
(* deploys, and whenever the timer finds one finished the server tells the *)
(* others anew.                                                            *)
(*                                                                         *)
(* The steps are those of OtaSystem, with two bounds that keep three       *)
(* domains within reach: connections and processes hold, and a heartbeat   *)
(* that would tell the server of no new state is left out.                 *)
(***************************************************************************)
EXTENDS OtaSystem

VARIABLE slipped  \* (history) the domains that were left out of the depends although
                  \* they had begun to deploy and not finished

deploymentVars == <<systemVars, slipped>>

-----------------------------------------------------------------------------
\* The upgrade u, for all domains, has been downloaded, verified and distributed.
Waiting(u) ==
  [ NoJob EXCEPT !.upgrade = u, !.depends = Domain, !.listed = Domain, !.heard = Domain,
      !.report = [ d \in Domain |-> [ state |-> "WR_WAIT", last |-> "WR_VERIFY",
                                      version |-> "old", error |-> FALSE ] ] ]

\* A client of it that has verified its files; it has taken two control messages.
Verified(u) ==
  [ id |-> u.id, package |-> u.id, state |-> "WR_WAIT", last |-> "WR_VERIFY",
    version |-> 0, installed |-> 0, error |-> FALSE, work |-> "none", place |-> <<>>,
    disk |-> [p \in C!Place |-> IF p = <<u.id, u.id>> THEN "full" ELSE "none"],
    queue |-> <<>>, messageId |-> 2, serverState |-> "MR_OFFLINE", quit |-> FALSE,
    hasCancelAction |-> FALSE, needDiscovery |-> FALSE, patchNewFiles |-> FALSE ]

\* What OtaSystem comes to when one upgrade has been offered and everybody waits.
DeploymentInit ==
  /\ \E u \in Upgrades :
       /\ u.domains = Domain
       /\ job = Waiting(u) /\ lastlId = u.id
       /\ client = [d \in Domain |-> Verified(u)]
  /\ state = "MR_WAIT" /\ lastState = "MR_DISTRIBUTE"
  /\ status = [state |-> "MR_WAIT", depends |-> Domain] /\ firstStart = TRUE
  /\ cacheState = "MR_UNKNOWN" /\ cacheDepends = {} /\ interrupted = FALSE
  /\ type = "TP_DEPLOY" /\ hasFeed = FALSE /\ failed = FALSE /\ retryTimes = 0
  /\ hasNewId = TRUE /\ lastCancelId = NoId
  /\ cancelResume = FALSE /\ hasDeployBreaked = FALSE
  /\ control = "CTL_DOWNLOAD" /\ number = 2
  /\ posted = <<>> /\ sent = <<>> /\ reported = <<>>
  /\ vehicle \in {v \in Vehicles : v.present = Domain}
  /\ link = [d \in Domain |-> "up"]
  /\ down = [d \in Domain |-> <<>>] /\ up = [d \in Domain |-> <<>>]
  /\ transfer = "none" /\ served = Domain /\ wanted = "deploy"
  /\ offers = 1 /\ faults = 0
  /\ slipped = {}

\* The timer recomputes the depends: a domain that others wait for is left out if its
\* deploy clock has not started, though it deploys (or has failed to).
LeftOut ==
  { d \in job.depends \ job'.depends :
      d \notin job.deploying /\ job.report[d].state \in {"WR_DEPLOY", "WR_ERROR"} }

\* A heartbeat of d would tell the server of a new state.
News(d) == d \in job.listed /\ job.report[d].state # client[d].state

DeploymentNext ==
  \/ Tick /\ slipped' = slipped \cup LeftOut
  \/ /\ \E d \in Domain :
          \/ Receive(d) \/ Handle(d) \/ WorkerStep(d) \/ Arrive(d)
          \/ News(d) /\ SendHeartbeat(d)
     /\ slipped' = slipped

DeploymentSpec == DeploymentInit /\ [][DeploymentNext]_deploymentVars

-----------------------------------------------------------------------------
\* A domain installs only when the domains that it requires have installed, whatever
\* the order in which they deploy, finish, report and are visited, except for one case
\* of the code's: while another domain is found finished, one that deploys (or whose
\* deployment has just failed) and whose clock has not started is left out of the
\* depends (slipped), so that one that requires it deploys beside it or after its
\* failure (processDomains, CTL_DEPLOY and hasDepends of client.cpp).
DependsFirst ==
  \A d \in Domain :
    client[d].work \in {"deploy", "install"} =>
      \A r \in Requires[d] : Installed(r, client[d].place[2]) \/ r \in slipped
=============================================================================
