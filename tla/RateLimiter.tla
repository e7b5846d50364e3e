----------------------------- MODULE RateLimiter -----------------------------
(***************************************************************************)
(* The sliding-window limiter in front of every request that changes       *)
(* state: a deque of admission times per client, trimmed when the client   *)
(* asks again.                                                             *)
(* Source: backend/app/core/ratelimit.py, main.py.                         *)
(*                                                                         *)
(* Time is a monotonic clock in ticks, TicksPerSecond of them to a second: *)
(* the window is measured in ticks, the Retry-After header in seconds.     *)
(***************************************************************************)
EXTENDS Integers, Sequences, FiniteSets
CONSTANTS Clients,         \* the hosts that send requests
          Limit, Window,   \* at most Limit admissions in Window ticks
          TicksPerSecond,
          MaxTime          \* bound: the clock stops here

ASSUME LimiterAssumption ==
  /\ Limit \in Nat \ {0} /\ Window \in Nat \ {0} /\ TicksPerSecond \in Nat \ {0}
  /\ MaxTime \in Nat

VARIABLES clock,     \* RateLimiter.clock()
          hits,      \* RateLimiter._hits: admission times, oldest first
          admitted,  \* ghost: all admission times of each client
          promised   \* ghost: when its last Retry-After runs out, from Never on
limiterVars == <<clock, hits, admitted, promised>>

Never == -1

\* The first n entries are the ones that have left the window.
Expired(dq, n) ==
  /\ \A i \in 1..n : dq[i] <= clock - Window
  /\ n < Len(dq) => dq[n + 1] > clock - Window

\* Bug: everything is forgotten as soon as the oldest entry has left.
Restarted(dq, n) == IF n = 0 THEN dq ELSE <<>>
Kept(dq, n) == SubSeq(dq, n + 1, Len(dq))

\* int(retry) + 1
\* Bug: the header is the truncated wait.
TruncatedSeconds(retry) == retry \div TicksPerSecond
HeaderSeconds(retry) == retry \div TicksPerSecond + 1

Admit(client) ==
  \E n \in 0..Len(hits[client]) :
    LET fresh == Kept(hits[client], n)
    IN /\ Expired(hits[client], n)
       /\ Len(fresh) < Limit
       /\ hits' = [hits EXCEPT ![client] = Append(fresh, clock)]
       /\ admitted' = [admitted EXCEPT ![client] = Append(@, clock)]
       /\ promised' = [promised EXCEPT ![client] = Never]
       /\ UNCHANGED clock

Refuse(client) ==
  \E n \in 0..Len(hits[client]) :
    LET fresh == Kept(hits[client], n)
        retry == Window - (clock - fresh[1])
    IN /\ Expired(hits[client], n)
       /\ Len(fresh) >= Limit
       /\ hits' = [hits EXCEPT ![client] = fresh]
       /\ promised' = [promised EXCEPT ![client] =
                         clock + HeaderSeconds(retry) * TicksPerSecond]
       /\ UNCHANGED <<clock, admitted>>

Tick == clock < MaxTime /\ clock' = clock + 1 /\ UNCHANGED <<hits, admitted, promised>>

LimiterInit ==
  /\ clock = 0
  /\ hits = [client \in Clients |-> <<>>]
  /\ admitted = [client \in Clients |-> <<>>]
  /\ promised = [client \in Clients |-> Never]

LimiterNext == Tick \/ \E client \in Clients : Admit(client) \/ Refuse(client)
LimiterSpec == LimiterInit /\ [][LimiterNext]_limiterVars

-----------------------------------------------------------------------------
\* No client gets more than Limit requests through in any window, wherever
\* the window begins: Limit admissions later, a whole window has gone by.
AdmissionsAreSpaced ==
  \A client \in Clients : \A i \in 1..Len(admitted[client]) - Limit :
    admitted[client][i + Limit] - admitted[client][i] >= Window

\* A client that waits as long as the header said, and sends nothing else
\* through in between, is admitted; it is made to wait at most a second longer
\* than it had to.
Room(client, time) ==
  Cardinality({i \in DOMAIN admitted[client] : admitted[client][i] > time - Window}) < Limit
RetryAfterIsEnough ==
  \A client \in Clients : promised[client] # Never =>
    Room(client, promised[client]) /\ ~Room(client, promised[client] - TicksPerSecond - 1)
=============================================================================
