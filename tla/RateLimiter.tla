---------------------------- MODULE RateLimiter -----------------------------
(***************************************************************************)
(* The sliding-window rate limiter of ember_armor/api/middleware.py.       *)
(* Starlette puts the middleware that was added last outside all others,   *)
(* so every request meets the limiter first, before it is authenticated or *)
(* logged.  dispatch() reaches the call of the next layer without          *)
(* suspending, so a decision is one step.                                  *)
(*                                                                         *)
(* A recorded request is a record: its moment, and a number that keeps two *)
(* of one moment apart.  time.time() is taken never to be set back.        *)
(***************************************************************************)
EXTENDS Integers, FiniteSets

CONSTANTS
    Clients,        \* addresses of TCP peers
    MaxRequests,    \* max_requests
    Window,         \* window_seconds, in units of the clock
    MaxTime         \* bound on the clock

ASSUME LimiterAssumption ==
    /\ MaxRequests \in Nat \ {0}
    /\ Window \in Nat \ {0}
    /\ MaxTime \in Nat

VARIABLES
    now,        \* time.time()
    requests,   \* _requests: what each client was let through, until purged
    passed      \* history: all that each client was let through

limiter == <<now, requests, passed>>

LimiterInit ==
    /\ now = 0
    /\ requests = [c \in Clients |-> {}]
    /\ passed = [c \in Clients |-> {}]

\* Mutant: what is exactly as old as the window still counts.
MutFresh(entries) == {e \in entries : now - e.at <= Window}

\* What is left when the stale entries are purged.
Fresh(entries) == {e \in entries : now - e.at < Window}

\* len(...) >= max_requests
IsFull(c) == Cardinality(Fresh(requests[c])) >= MaxRequests

\* This request, as it is recorded.
Entry(c) == [at |-> now, nr |-> Cardinality(passed[c])]

\* The client is under its limit: the request is recorded and goes on.
Pass(c) ==
    /\ ~ IsFull(c)
    /\ requests' = [requests EXCEPT ![c] = Fresh(requests[c]) \cup {Entry(c)}]
    /\ passed' = [passed EXCEPT ![c] = passed[c] \cup {Entry(c)}]
    /\ UNCHANGED now

\* 429: only the stale entries go, nothing is recorded.
TurnAway(c) ==
    /\ IsFull(c)
    /\ requests' = [requests EXCEPT ![c] = Fresh(requests[c])]
    /\ UNCHANGED <<now, passed>>

LimiterTick ==
    /\ now < MaxTime
    /\ now' = now + 1
    /\ UNCHANGED <<requests, passed>>

LimiterNext ==
    \/ \E c \in Clients : Pass(c) \/ TurnAway(c)
    \/ LimiterTick

LimiterSpec == LimiterInit /\ [][LimiterNext]_limiter

-----------------------------------------------------------------------------
(* Properties.                                                             *)

\* What the window holds of what was let through, whatever has been purged.
InWindow(c) == {e \in passed[c] : now - e.at < Window}

\* No client is let through more often than the limit in any window, and it is
\* turned away only while the limit really is used up: what was turned away
\* does not count, and what has left the window does not either.
LimitExact ==
    \A c \in Clients :
        /\ Cardinality(InWindow(c)) <= MaxRequests
        /\ IsFull(c) => Cardinality(InWindow(c)) = MaxRequests
=============================================================================
