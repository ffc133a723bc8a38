------------------------------ MODULE Services ------------------------------
(***************************************************************************)
(* The services around the ledger, for model checking.  One of six scenes  *)
(* is played: the circuit breaker alone, with callers that come at any     *)
(* moment; the limiter alone; the requests to the API, through limiter,    *)
(* breaker, detector and health report; the ensemble; the correlation ids; *)
(* and the health checker of the monitoring.                               *)
(***************************************************************************)
EXTENDS Api, Monitoring

CONSTANT Scenes

VARIABLE scene

Scene(s) == scene = s /\ UNCHANGED scene
all == <<services, monitoring, scene>>

StartOf(s) ==
    /\ scene = s
    /\ Init /\ LimiterInit /\ DetectorInit /\ EnsembleInit /\ ApiInit /\ MonitoringInit
    /\ s # "api" => checks = 0
    /\ s # "ensemble" => weights = NoVotes
    /\ s # "ensemble" => hasKey

BreakerStep == Scene("breaker") /\ Next /\ UNCHANGED <<limiter, detector, ensemble, api, monitoring>>
ApiStep == Scene("api") /\ ApiNext /\ UNCHANGED monitoring
LimiterStep == Scene("limiter") /\ LimiterNext /\ UNCHANGED <<vars, detector, ensemble, api, monitoring>>
EnsembleStep == Scene("ensemble") /\ EnsembleNext /\ UNCHANGED <<vars, limiter, detector, api, monitoring>>
RecordsStep == Scene("records") /\ RecordsNext /\ UNCHANGED services
ChecksStep == Scene("checks") /\ ChecksNext /\ UNCHANGED services

ServicesNext == BreakerStep \/ LimiterStep \/ ApiStep \/ EnsembleStep \/ RecordsStep \/ ChecksStep

ServicesSpec ==
    /\ \E s \in Scenes : StartOf(s)
    /\ [][ServicesNext]_all
    /\ WF_vars(scene = "breaker" /\ Tick)
    /\ \A c \in Callers : /\ WF_vars(scene = "breaker" /\ Admit(c))
                          /\ WF_vars(scene = "breaker" /\ (Succeed(c) \/ Fail(c)))
    /\ EnsembleFairness

-----------------------------------------------------------------------------
\* What the fairness of the first scene gives, and no other scene promises.

\* Of the breaker alone: it does not stay open for ever, and once what it
\* protects works again it closes for good.
BreakerRecovers == scene = "breaker" => LeavesOpen /\ Heals

\* The reports of the API and of the monitoring alike: what is unhealthy all the
\* time, or could not be looked at, is not answered for healthy or degraded.
IllnessShows == DeepReportShows /\ CrashShows

MCClientOf == [r \in Requests |-> CHOOSE c \in Clients : TRUE]
=============================================================================
