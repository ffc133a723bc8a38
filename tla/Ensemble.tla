------------------------------ MODULE Ensemble ------------------------------
(***************************************************************************)
(* The ensemble of ember_armor/core/consensus.py and the agent of          *)
(* core/sonar_agent.py that votes in it.  orchestrate() asks every agent   *)
(* in a task of its own and resolves the votes when all tasks have ended;  *)
(* any number of orchestrations overlap, and agents are registered while   *)
(* they run.  A step is what runs without suspending: the locks around the *)
(* counters are never contended, because nothing under them awaits.        *)
(***************************************************************************)
EXTENDS Integers, FiniteSets, FiniteSetsExt

CONSTANTS
    Agents,             \* names under which other agents are registered
    Sonar,              \* "sonar_live_intel"
    Orders,             \* calls of orchestrate()
    Weights,            \* weights an agent can be registered with, in percent
    VetoThreshold,      \* veto_threshold, in percent
    MaxRegistrations,   \* bound on the registrations
    MaxCancelled        \* bound on the tasks and calls that are cancelled

ASSUME EnsembleAssumption ==
    /\ Weights \subseteq Nat
    /\ VetoThreshold \in 1 .. 100
    /\ Sonar \notin Agents

VARIABLES
    weights,        \* _weights, whose domain is that of _agents
    hasKey,         \* the Sonar agent has an API key
    asking,         \* the votes of each call: none, Pending, or a decision
    attempt,        \* which request to Sonar each call's vote is at
    decision,       \* what each call returned, NoAnswer before that
    counters,       \* of the conductor and of the Sonar agent
    registrations, cancelled,
    said            \* history: what each agent answered each call

conductor == <<weights, hasKey, asking, attempt, decision, counters>>
ensemble  == <<conductor, registrations, cancelled, said>>

-----------------------------------------------------------------------------
Decisions == {"SAFE", "REVIEW", "UNSAFE"}
NoVotes   == [a \in {} |-> ""]
Pending   == "pending"
Cancelled == "cancelled"
NoAnswer  == "none"
Raised    == "raised"

MaxRetries == 1
\* Where a vote of the Sonar agent is: not begun, waiting for the answer to the
\* first or second request, or sleeping before the second.
Idle == <<"idle">>
Post(n) == <<"post", n>>
Rest == <<"rest">>

\* What an agent does: the value it returns for "decision", a value that is no
\* decision, nothing under that key, an exception, or a callable that is not
\* async, whose result cannot be awaited.
Outcomes == Decisions \cup {"odd", "absent", "raises", "sync"}

\* _collect_vote: anything but a decision is a REVIEW.
Vote(outcome) == IF outcome \in Decisions THEN outcome ELSE "REVIEW"

WeightOf(names) == MapThenSumSet(LAMBDA a : weights[a], names)
Voting(votes, d) == {a \in DOMAIN votes : votes[a] = d}

\* veto_ratio >= veto_threshold, with the weights of now, not of the call.
Vetoed(votes) ==
    /\ WeightOf(DOMAIN votes) > 0
    /\ 100 * WeightOf(Voting(votes, "UNSAFE")) >= VetoThreshold * WeightOf(DOMAIN votes)

\* Mutant: one agent that finds nothing is enough.
MutResolve(votes) ==
    IF votes = NoVotes THEN "REVIEW"
    ELSE IF Vetoed(votes) THEN "UNSAFE"
    ELSE IF Voting(votes, "SAFE") # {} THEN "SAFE" ELSE "REVIEW"

\* _resolve
Resolve(votes) ==
    IF votes = NoVotes THEN "REVIEW"
    ELSE IF Vetoed(votes) THEN "UNSAFE"
    ELSE IF Voting(votes, "SAFE") = DOMAIN votes THEN "SAFE" ELSE "REVIEW"

-----------------------------------------------------------------------------
(* The Sonar agent.                                                        *)

\* What Sonar replies with status 200: the verdict line, if there is one, and
\* the word the text holds; or something that is no such document.
Replies == [verdict : {"none", "UNSAFE", "SAFE", "other"}, text : {"UNSAFE", "SAFE", "neither"}]
Malformed == [verdict |-> "malformed", text |-> "neither"]

\* _parse_vote_response: the verdict line decides when there is one, then the
\* text; a document that cannot be read is a REVIEW.
Verdict(reply) ==
    LET word == IF reply.verdict = "none" THEN reply.text ELSE reply.verdict
    IN  IF word \in {"UNSAFE", "SAFE"} THEN word ELSE "REVIEW"

\* Statuses other than 200, and the exceptions of the HTTP client.
Transient == {"429", "500"}
Fatal == {"401", "timeout", "no JSON"}

Kind(d) == CASE d = "UNSAFE" -> "unsafe" [] d = "SAFE" -> "safe" [] OTHER -> "review"

\* The vote is recorded in the call and counted by the agent.
Casts(o, d, errors) ==
    /\ asking' = [asking EXCEPT ![o] = [@ EXCEPT ![Sonar] = d]]
    /\ attempt' = [attempt EXCEPT ![o] = Idle]
    /\ counters' = [counters EXCEPT ![Kind(d)] = @ + 1, !.errors = @ + errors]

\* vote() without an API key: REVIEW, without an error.
VoteWithoutKey(o) ==
    /\ Sonar \in DOMAIN asking[o]
    /\ asking[o][Sonar] = Pending
    /\ attempt[o] = Idle
    /\ ~ hasKey
    /\ asking' = [asking EXCEPT ![o] = [@ EXCEPT ![Sonar] = "REVIEW"]]
    /\ counters' = [counters EXCEPT !.cast = @ + 1, !.review = @ + 1]
    /\ said' = [said EXCEPT ![o] = [@ EXCEPT ![Sonar] = "REVIEW"]]
    /\ UNCHANGED <<weights, hasKey, attempt, decision, registrations, cancelled>>

\* vote() up to the first request.  The text and the domain are of the types the
\* API lets through, so building the prompt does not raise.
VoteAsks(o) ==
    /\ Sonar \in DOMAIN asking[o]
    /\ asking[o][Sonar] = Pending
    /\ attempt[o] = Idle
    /\ hasKey
    /\ attempt' = [attempt EXCEPT ![o] = Post(0)]
    /\ counters' = [counters EXCEPT !.cast = @ + 1]
    /\ UNCHANGED <<weights, hasKey, asking, decision, registrations, cancelled, said>>

\* Status 200.
SonarReplies(o, reply) ==
    /\ attempt[o] \in {Post(0), Post(1)}
    /\ Casts(o, Verdict(reply), 0)
    /\ said' = [said EXCEPT ![o] = [@ EXCEPT ![Sonar] = Verdict(reply)]]
    /\ UNCHANGED <<weights, hasKey, decision, registrations, cancelled>>

\* A status that may pass: the request is made once more.
SonarRetries(o) ==
    /\ \E n \in 0 .. MaxRetries - 1 : attempt[o] = Post(n)
    /\ attempt' = [attempt EXCEPT ![o] = Rest]
    /\ UNCHANGED <<weights, hasKey, asking, decision, counters, registrations, cancelled, said>>

\* Mutant: the second request is the first one again.
MutSonarWakes(o) ==
    /\ attempt[o] = Rest
    /\ attempt' = [attempt EXCEPT ![o] = Post(0)]
    /\ UNCHANGED <<weights, hasKey, asking, decision, counters, registrations, cancelled, said>>

SonarWakes(o) ==
    /\ attempt[o] = Rest
    /\ attempt' = [attempt EXCEPT ![o] = Post(MaxRetries)]
    /\ UNCHANGED <<weights, hasKey, asking, decision, counters, registrations, cancelled, said>>

\* Mutant: a failed request is counted, and nothing is voted.
MutSonarFails(o) ==
    /\ attempt[o] \in {Post(0), Post(1)}
    /\ attempt' = [attempt EXCEPT ![o] = Idle]
    /\ counters' = [counters EXCEPT !.errors = counters.errors + 1]
    /\ UNCHANGED <<weights, hasKey, asking, decision, registrations, cancelled, said>>

\* What does not pass, or the last request failed: REVIEW, and an error.
SonarFails(o) ==
    /\ \E status \in Transient \cup Fatal :
           attempt[o] \in IF status \in Fatal THEN {Post(0), Post(1)} ELSE {Post(MaxRetries)}
    /\ Casts(o, "REVIEW", 1)
    /\ said' = [said EXCEPT ![o] = [@ EXCEPT ![Sonar] = "REVIEW"]]
    /\ UNCHANGED <<weights, hasKey, decision, registrations, cancelled>>

-----------------------------------------------------------------------------
(* The conductor.                                                          *)

\* register_agent: a name that is registered already gets the new weight.
Register(a, w) ==
    /\ registrations < MaxRegistrations
    /\ registrations' = registrations + 1
    /\ weights' = [b \in DOMAIN weights \cup {a} |-> IF b = a THEN w ELSE weights[b]]
    /\ UNCHANGED <<hasKey, asking, attempt, decision, counters, cancelled, said>>

\* orchestrate() up to the gather: without agents the answer is REVIEW.
Orchestrate(o) ==
    /\ decision[o] = NoAnswer
    /\ asking[o] = NoVotes
    /\ counters' = [counters EXCEPT !.orchestrations = @ + 1]
    /\ IF DOMAIN weights = {}
       THEN /\ decision' = [decision EXCEPT ![o] = "REVIEW"]
            /\ UNCHANGED <<asking, said>>
       ELSE /\ asking' = [asking EXCEPT ![o] = [a \in DOMAIN weights |-> Pending]]
            /\ said' = [said EXCEPT ![o] = [a \in DOMAIN weights |-> Pending]]
            /\ UNCHANGED decision
    /\ UNCHANGED <<weights, hasKey, attempt, registrations, cancelled>>

\* An agent answers, raises, or turns out not to be async.
AgentAnswers(o, a, outcome) ==
    /\ a \in Agents \cap DOMAIN asking[o]
    /\ asking[o][a] = Pending
    /\ asking' = [asking EXCEPT ![o] = [@ EXCEPT ![a] = Vote(outcome)]]
    /\ said' = [said EXCEPT ![o] = [@ EXCEPT ![a] = IF outcome \in Decisions THEN outcome ELSE "none"]]
    /\ UNCHANGED <<weights, hasKey, attempt, decision, counters, registrations, cancelled>>

\* What an agent awaits is cancelled: CancelledError is no Exception, so no
\* vote is made of it.
AgentCancelled(o, a) ==
    /\ cancelled < MaxCancelled
    /\ cancelled' = cancelled + 1
    /\ a \in Agents \cap DOMAIN asking[o]
    /\ asking[o][a] = Pending
    /\ asking' = [asking EXCEPT ![o] = [@ EXCEPT ![a] = Cancelled]]
    /\ UNCHANGED <<weights, hasKey, attempt, decision, counters, registrations, said>>

\* The gather ends: the votes are resolved.  A CancelledError among the results
\* is taken for a vote, and reading its agent_name raises.
Decide(o) ==
    /\ decision[o] = NoAnswer
    /\ asking[o] # NoVotes
    /\ \A a \in DOMAIN asking[o] : asking[o][a] # Pending
    /\ IF Voting(asking[o], Cancelled) # {}
       THEN /\ decision' = [decision EXCEPT ![o] = Raised]
            /\ UNCHANGED counters
       ELSE /\ decision' = [decision EXCEPT ![o] = Resolve(asking[o])]
            /\ counters' = [counters EXCEPT !.violations =
                                @ + IF Resolve(asking[o]) = "UNSAFE" THEN 1 ELSE 0]
    /\ UNCHANGED <<weights, hasKey, asking, attempt, registrations, cancelled, said>>

\* The caller of orchestrate() is cancelled, and the tasks with it.
Abandon(o) ==
    /\ cancelled < MaxCancelled
    /\ cancelled' = cancelled + 1
    /\ decision[o] = NoAnswer
    /\ asking[o] # NoVotes
    /\ decision' = [decision EXCEPT ![o] = Raised]
    /\ asking' = [asking EXCEPT ![o] =
           [a \in DOMAIN @ |-> IF @[a] = Pending THEN Cancelled ELSE @[a]]]
    /\ attempt' = [attempt EXCEPT ![o] = Idle]
    /\ UNCHANGED <<weights, hasKey, counters, registrations, said>>

\* Conductor.health_check
ConductorHealth ==
    IF \/ DOMAIN weights = {}
       \/ 2 * counters.violations > counters.orchestrations
    THEN "degraded" ELSE "healthy"

-----------------------------------------------------------------------------
EnsembleInit ==
    /\ weights \in {[a \in {} |-> 0], [a \in {Sonar} |-> 40]}
    /\ hasKey \in BOOLEAN
    /\ asking = [o \in Orders |-> NoVotes]
    /\ attempt = [o \in Orders |-> Idle]
    /\ decision = [o \in Orders |-> NoAnswer]
    /\ counters = [orchestrations |-> 0, violations |-> 0,
                   cast |-> 0, unsafe |-> 0, review |-> 0, safe |-> 0, errors |-> 0]
    /\ registrations = 0
    /\ cancelled = 0
    /\ said = [o \in Orders |-> NoVotes]

VoteStep(o) ==
    \/ VoteWithoutKey(o) \/ VoteAsks(o) \/ SonarRetries(o) \/ SonarWakes(o) \/ SonarFails(o)
    \/ \E reply \in Replies \cup {Malformed} : SonarReplies(o, reply)
    \/ \E a \in Agents, outcome \in Outcomes : AgentAnswers(o, a, outcome)

EnsembleNext ==
    \/ \E o \in Orders : Orchestrate(o) \/ VoteStep(o) \/ Decide(o) \/ Abandon(o)
    \/ \E o \in Orders, a \in Agents : AgentCancelled(o, a)
    \/ \E a \in Agents, w \in Weights : Register(a, w)

EnsembleSpec == EnsembleInit /\ [][EnsembleNext]_ensemble

\* Agents answer, the HTTP client has a timeout, and the event loop runs what
\* is ready.
EnsembleFairness ==
    \A o \in Orders : WF_ensemble(VoteStep(o)) /\ WF_ensemble(Decide(o))

-----------------------------------------------------------------------------
(* Properties.                                                             *)

\* Weight of the agents that said a decision, as it is when the call decides.
SaidWeight(o, d) == WeightOf({a \in DOMAIN said[o] : said[o][a] = d})

\* However calls overlap, and whatever fails or is registered meanwhile: SAFE is
\* what every agent said, and agents of enough weight that say UNSAFE are heard.
FollowsWhatWasSaid ==
    [][\A o \in Orders : decision[o] = NoAnswer /\ decision'[o] \in Decisions =>
        /\ decision'[o] = "SAFE" =>
               said[o] # NoVotes /\ \A a \in DOMAIN said[o] : said[o][a] = "SAFE"
        /\ decision'[o] = "UNSAFE" <=>
               /\ SaidWeight(o, "UNSAFE") > 0
               /\ 100 * SaidWeight(o, "UNSAFE") >= VetoThreshold * WeightOf(DOMAIN said[o])
      ]_ensemble

\* Votes of the Sonar agent that have begun and not ended.
InFlight == {o \in Orders : attempt[o] # Idle}

\* The counters of the Sonar agent agree with each other however votes overlap:
\* every vote begun is counted once when it ends, unless it was abandoned, and
\* every error is a REVIEW.
VotesAddUp ==
    LET ended == counters.unsafe + counters.review + counters.safe
    IN  /\ ended + Cardinality(InFlight) <= counters.cast
        /\ counters.cast <= ended + Cardinality(InFlight) + cancelled
        /\ counters.errors <= counters.review

\* Every call of orchestrate() ends: the retries do, and no vote is waited for
\* that will never come.
OrdersEnd == \A o \in Orders : (asking[o] # NoVotes) ~> (decision[o] # NoAnswer)
=============================================================================
