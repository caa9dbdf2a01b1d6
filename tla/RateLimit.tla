----------------------------- MODULE RateLimit ------------------------------
(***************************************************************************)
(* One client's fixed-window counters in Redis (app/ratelimit.py).  A      *)
(* request reads its own clock for the name of the window, and Redis       *)
(* counts it later, under that name, by its own time; the answer may not   *)
(* come.  Clocks of replicas and Redis are taken to agree.                 *)
(***************************************************************************)
EXTENDS Naturals, FiniteSets

CONSTANTS
    Requests,   \* of one client in one scope, over all workers and replicas
    Limit,      \* requests per window
    Window,     \* RATELIMIT_WINDOW_S
    Patience,   \* 2 * RATELIMIT_TIMEOUT_S, what hit() waits for Redis
    MaxClock    \* bound: time the model runs

RateLimitConstants ==
    /\ Limit \in Nat \ {0} /\ Window \in Nat \ {0} /\ MaxClock \in Nat
    /\ Patience \in 0..(Window - 1)

VARIABLES
    clock,
    failClosed, \* the scope's policy, fixed
    counters,   \* Redis: window -> [count, ends], the keys it holds
    hits        \* request -> how far it is

vars == <<clock, failClosed, counters, hits>>

Idle == [state |-> "idle", at |-> 0, count |-> 0, late |-> FALSE,
         allowed |-> FALSE, degraded |-> FALSE]

Init ==
    /\ clock = 0 /\ failClosed \in BOOLEAN
    /\ counters = [w \in {} |-> Idle]
    /\ hits = [r \in Requests |-> Idle]

WindowOf(t) == t \div Window

\* time.time(), then the pipeline is sent.
Hit(r) ==
    /\ hits[r].state = "idle"
    /\ hits' = [hits EXCEPT ![r].state = "sent", ![r].at = clock]
    /\ UNCHANGED <<clock, failClosed, counters>>

Live(w) == w \in DOMAIN counters /\ clock < counters[w].ends

\* INCR, and EXPIRE NX: a key's life starts at its first request.  Redis may
\* also get to it after hit() has given up.
Count(r) ==
    /\ \/ hits[r].state = "sent"
       \/ hits[r].state = "decided" /\ hits[r].count = 0
    /\ clock <= hits[r].at + Patience
    /\ LET w == WindowOf(hits[r].at)
           key == IF Live(w) THEN [counters[w] EXCEPT !.count = @ + 1]
                  ELSE [count |-> 1, ends |-> clock + Window]
       IN  /\ counters' = [v \in DOMAIN counters \cup {w} |->
                                IF v = w THEN key ELSE counters[v]]
           /\ hits' = [hits EXCEPT
                    ![r].state = IF @ = "sent" THEN "counted" ELSE @,
                    ![r].count = key.count,
                    ![r].late = WindowOf(clock) # w]
    /\ UNCHANGED <<clock, failClosed>>

Decide(r, allowed, degraded) ==
    /\ hits' = [hits EXCEPT ![r].state = "decided", ![r].allowed = allowed,
                            ![r].degraded = degraded]
    /\ UNCHANGED <<clock, failClosed, counters>>

Answer(r) == hits[r].state = "counted" /\ Decide(r, hits[r].count <= Limit, FALSE)

\* Mutant of Unavailable: the scope's policy is not looked at.
AlwaysOpen(r) == hits[r].state \in {"sent", "counted"} /\ Decide(r, TRUE, TRUE)

\* An error, or no answer in time; the request may have been counted.
Unavailable(r) ==
    hits[r].state \in {"sent", "counted"} /\ Decide(r, ~failClosed, TRUE)

\* hit() never waits longer than Patience.
Tick ==
    /\ clock < MaxClock
    /\ \A r \in Requests :
        hits[r].state \in {"sent", "counted"} => clock < hits[r].at + Patience
    /\ clock' = clock + 1
    /\ UNCHANGED <<failClosed, counters, hits>>

Next ==
    \/ Tick
    \/ \E r \in Requests : Hit(r) \/ Count(r) \/ Answer(r) \/ Unavailable(r)

Spec == Init /\ [][Next]_vars

-----------------------------------------------------------------------------
CountedIn(w) == {r \in Requests : hits[r].count # 0 /\ WindowOf(hits[r].at) = w}

\* Types; and a key, and what a request was told of it, counts no more requests
\* than Redis counted under the window's name.
TypeOK ==
    /\ clock \in 0..MaxClock /\ failClosed \in BOOLEAN
    /\ hits \in [Requests -> [state : {"idle", "sent", "counted", "decided"},
                              at : 0..MaxClock, count : Nat,
                              late : BOOLEAN, allowed : BOOLEAN, degraded : BOOLEAN]]
    /\ \A r \in Requests :
        hits[r].count <= Cardinality(CountedIn(WindowOf(hits[r].at)))
    /\ \A w \in DOMAIN counters :
        /\ w \in 0..WindowOf(MaxClock)
        /\ counters[w].count \in 1..Cardinality(CountedIn(w))
        /\ counters[w].ends \in (w * Window + Window)..(MaxClock + Window)

\* "A client can send up to 2x the limit across a window boundary", and no
\* more, in any interval of a window's length, whichever replica answered and
\* whatever was lost; where the scope fails closed that includes requests
\* Redis did not answer for (ratelimit.py:1-14).  Left out are requests that
\* were under way when their window ended: their key may have expired, which
\* starts its count again.
AtMostTwicePerWindow ==
    \A t \in 0..MaxClock :
        Cardinality({r \in Requests :
            /\ hits[r].allowed /\ (failClosed \/ ~hits[r].degraded)
            /\ ~hits[r].late /\ hits[r].at \in t..(t + Window - 1)}) <= 2 * Limit
=============================================================================
