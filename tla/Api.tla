-------------------------------- MODULE Api ---------------------------------
(***************************************************************************)
(* Requests to the HTTP API of ember_armor/api: the rate limiter around a  *)
(* handler, the API key, and the handlers of the check (through the        *)
(* circuit breaker) and of the health report, which looks at the           *)
(* components one after the other while other requests change them.        *)
(*                                                                         *)
(* A request is a caller of the circuit breaker.  Between the layers of    *)
(* the middleware the event loop can run other requests; a handler of the  *)
(* check runs up to the detector, and the four looks of a health report    *)
(* are tasks of their own, so each of them is a step.                      *)
(***************************************************************************)
EXTENDS CircuitBreaker, RateLimiter, Detector, Ensemble

CONSTANTS
    Requests,       \* the callers of the breaker that are requests to the API
    ClientOf,       \* the address of each request's TCP peer
    MaxReports,     \* bound on the health reports
    ApiTime         \* bound on the clock while requests are served

ASSUME ApiAssumption ==
    /\ Requests \subseteq Callers
    /\ ClientOf \in [Requests -> Clients]

VARIABLES
    request,        \* of each request: where it is and what it asks for
    reports,
    ill             \* history: the components that were unhealthy at every
                    \* moment since each request's report was begun

api == <<request, reports, ill>>
services == <<vars, limiter, detector, ensemble, api>>

-----------------------------------------------------------------------------
Depths == {"shallow", "deep"}
\* The look at the authentication finds it healthy whatever happens, and counts
\* for nothing.
Components == {"circuit_breaker", "consensus", "detector"}
NoLooks == [c \in {} |-> ""]

\* Where a request is: not made or answered, inside the limiter, at the
\* detector, in a report.  What it asks for, and with which key, is not seen
\* before the step that looks at it.
Away == [at |-> "away", depth |-> "none", looks |-> NoLooks]

\* Mutant: degraded comes before unhealthy.
MutAggregate(statuses) ==
    IF "degraded" \in statuses THEN "degraded"
    ELSE IF "unhealthy" \in statuses THEN "unhealthy" ELSE "healthy"

\* _aggregate_status
Aggregate(statuses) ==
    IF "unhealthy" \in statuses THEN "unhealthy"
    ELSE IF "degraded" \in statuses THEN "degraded" ELSE "healthy"

\* CircuitBreaker.health_check
BreakerHealth(s) ==
    CASE s = "CLOSED" -> "healthy" [] s = "HALF_OPEN" -> "degraded" [] OTHER -> "unhealthy"

\* The looks of a shallow report: any breaker there is counts as healthy.
ShallowLook(component) ==
    CASE component = "circuit_breaker" -> "healthy"
      [] component = "consensus" -> ConductorHealth
      [] component = "detector" -> DetectorHealth

\* The looks of a deep report.
DeepLook(component) ==
    IF component = "circuit_breaker" THEN BreakerHealth(Checked) ELSE ShallowLook(component)

Found(depth, component) ==
    IF depth = "deep" THEN DeepLook(component) ELSE ShallowLook(component)

\* What is unhealthy at a moment, a look of its own not counted.
IllNow ==
    {c \in Components : \/ c = "circuit_breaker" /\ Checked = "OPEN"
                        \/ c = "detector" /\ DetectorHealth = "unhealthy"}

Goes(r, new) == request' = [request EXCEPT ![r] = new]
At(r, where) == request[r].at = where

-----------------------------------------------------------------------------
ApiInit ==
    /\ request = [r \in Requests |-> Away]
    /\ reports = 0
    /\ ill = [r \in Requests |-> {}]

\* A request reaches the limiter and is let through.
Arrive(r) ==
    /\ At(r, "away")
    /\ Pass(ClientOf[r])
    /\ Goes(r, [Away EXCEPT !.at = "inside"])
    /\ UNCHANGED <<vars, detector, ensemble, reports, ill>>

\* 429, before anybody looks at the key.
TurnedAway(r) ==
    /\ At(r, "away")
    /\ TurnAway(ClientOf[r])
    /\ UNCHANGED request
    /\ UNCHANGED <<vars, detector, ensemble, reports, ill>>

\* verify_api_key: 401, whatever is asked for, unless the key is the configured
\* one.  The steps below are those of a request that has it.
Unauthorised(r) ==
    /\ At(r, "inside")
    /\ Goes(r, Away)
    /\ UNCHANGED <<vars, limiter, detector, ensemble, reports, ill>>

\* check_dissonance up to the detector.
CheckBegins(r) ==
    /\ At(r, "inside")
    /\ Admit(r)
    /\ Goes(r, [Away EXCEPT !.at = "detector"])
    /\ UNCHANGED <<limiter, detector, ensemble, reports, ill>>

\* CircuitBreakerOpen: 503.
CheckRefused(r) ==
    /\ At(r, "inside")
    /\ Refuse(r)
    /\ Goes(r, Away)
    /\ UNCHANGED <<limiter, detector, ensemble, reports, ill>>

\* Every report that is being made notices what has become healthy.
Watched == [r \in Requests |-> ill[r] \cap IllNow']

\* The detector answers, and the breaker records a success.
CheckEnds(r, matched, long) ==
    /\ At(r, "detector")
    /\ Succeed(r)
    /\ Check(matched, long)
    /\ Goes(r, Away)
    /\ UNCHANGED <<limiter, ensemble, reports>>
    /\ ill' = Watched

\* The detector raises: 500.
CheckFails(r) ==
    /\ At(r, "detector")
    /\ Fail(r)
    /\ CheckRaises
    /\ Goes(r, Away)
    /\ UNCHANGED <<limiter, ensemble, reports>>
    /\ ill' = Watched

\* health_check() begins to look.
ReportBegins(r, depth) ==
    /\ At(r, "inside")
    /\ reports < MaxReports
    /\ reports' = reports + 1
    /\ Goes(r, [Away EXCEPT !.at = "report", !.depth = depth])
    /\ ill' = [ill EXCEPT ![r] = IllNow]
    /\ UNCHANGED <<vars, limiter, detector, ensemble>>

\* Asking the breaker for its state can change it, and a deep look goes on to ask
\* for the number of failures.
LooksAtBreaker(depth) ==
    /\ state' = Checked
    /\ failures' = IF depth = "deep" THEN Pruned(failures) ELSE failures
    /\ UNCHANGED <<lastFailure, running, world, history>>

\* One look.
ReportLooks(r, component) ==
    /\ At(r, "report")
    /\ component \notin DOMAIN request[r].looks
    /\ Goes(r, [request[r] EXCEPT !.looks =
           [c \in {component} \cup DOMAIN @ |->
               IF c = component THEN Found(request[r].depth, c) ELSE @[c]]])
    /\ IF component = "circuit_breaker"
       THEN LooksAtBreaker(request[r].depth) ELSE UNCHANGED vars
    /\ UNCHANGED <<limiter, detector, ensemble, reports, ill>>

\* The answer of a report.
Reported(r) == Aggregate({request[r].looks[c] : c \in DOMAIN request[r].looks})

ReportEnds(r) ==
    /\ At(r, "report")
    /\ DOMAIN request[r].looks = Components
    /\ Goes(r, Away)
    /\ ill' = [ill EXCEPT ![r] = {}]
    /\ UNCHANGED <<vars, limiter, detector, ensemble, reports>>

\* Time passes for the limiter and the breaker alike.
ApiTick ==
    /\ now < ApiTime
    /\ LimiterTick
    /\ Tick
    /\ UNCHANGED <<detector, ensemble, request, reports>>
    /\ ill' = Watched

ApiOutage ==
    /\ Outage
    /\ UNCHANGED <<limiter, detector, ensemble, api>>

ApiNext ==
    \/ \E r \in Requests :
           \/ Arrive(r) \/ TurnedAway(r)
           \/ Unauthorised(r)
           \/ CheckBegins(r) \/ CheckRefused(r) \/ CheckFails(r)
           \/ \E matched \in 0 .. Patterns, long \in BOOLEAN : CheckEnds(r, matched, long)
           \/ \E depth \in Depths : ReportBegins(r, depth)
           \/ ReportEnds(r)
           \/ \E component \in Components : ReportLooks(r, component)
    \/ ApiTick
    \/ ApiOutage

-----------------------------------------------------------------------------
(* Properties.                                                             *)

\* What is unhealthy from the first to the last look of a deep report is not
\* answered for healthy or degraded, whatever other requests do in between.
DeepReportShows ==
    [][\A r \in Requests :
        ReportEnds(r) /\ request[r].depth = "deep" /\ ill[r] # {} => Reported(r) = "unhealthy"]_services
=============================================================================
