---------------------------- MODULE BoundaryProofs ----------------------------
(***************************************************************************)
(* Theorems about what stands between the runtime and the world outside:   *)
(* the operator's console (kill switches, rate limiter, WebSocket fan-out) *)
(* and the market data that comes in.  They hold for every set of scopes,  *)
(* causes, clients and channels, every limit and window, every page size   *)
(* and length of history.                                                  *)
(*                                                                         *)
(* The console keeps what its parts promise: seen from the limiter it is   *)
(* the limiter, seen from the registry the registry, seen from the         *)
(* connections the fan-out.  What is proved of a part then holds of the    *)
(* whole.                                                                  *)
(***************************************************************************)
EXTENDS Console, MarketHub, CollectionProofs

-----------------------------------------------------------------------------
(* The registry of kill switches. *)

KillInv == KillTypeOK /\ HardTripIsLatched

\* Every switch starts armed and well formed.
LEMMA KillInitial == KillInit => KillInv
  BY DEF KillInit, KillInv, KillTypeOK, HardTripIsLatched, Hard, Active, Armed,
         Switches, Levels

(* What a call makes of one switch that satisfies the invariant satisfies it. *)
GoodSwitch(w) == /\ w \in Switches
                 /\ w.state = "armed" <=> w.level = "none"
                 /\ w.latched <=> (w.state # "armed" /\ w.level = "hard")

\* A trip leaves a switch well formed.
LEMMA GoodTripped ==
  ASSUME NEW w, GoodSwitch(w), NEW l \in Levels, NEW c \in Causes
  PROVE  GoodSwitch(Tripped(w, l, c))
  BY DEF GoodSwitch, Tripped, TripTakesEffect, Switches, Levels

\* Acknowledging a tripped switch leaves it well formed.
LEMMA GoodAcknowledged ==
  ASSUME NEW w, GoodSwitch(w), w.state = "tripped"
  PROVE  GoodSwitch([w EXCEPT !.state = "acknowledged"])
  BY DEF GoodSwitch, Switches

\* Rearming or clearing a switch leaves it well formed.
LEMMA GoodReleased ==
  ASSUME NEW w, GoodSwitch(w)
  PROVE  GoodSwitch(Rearmed(w)) /\ GoodSwitch(Cleared(w))
  BY DEF GoodSwitch, Rearmed, Cleared, Clearable, Armed, Switches

(* A step that gives one switch a good value preserves the invariant. *)
LEMMA UpdatePreserves ==
  ASSUME KillInv, NEW s \in Scopes, NEW w, GoodSwitch(w),
         switches' = [switches EXCEPT ![s] = w]
  PROVE  KillInv'
  BY DEF KillInv, KillTypeOK, HardTripIsLatched, Hard, Active, GoodSwitch

\* Every switch of the registry is well formed.
LEMMA SwitchesAreGood == KillInv => \A s \in Scopes : GoodSwitch(switches[s])
  BY DEF KillInv, KillTypeOK, HardTripIsLatched, Hard, Active, GoodSwitch

\* Every operation of the registry keeps its switches well formed.
LEMMA KillStep == KillInv /\ [KillNext]_switches => KillInv'
  <1> SUFFICES ASSUME KillInv, [KillNext]_switches PROVE KillInv'
    OBVIOUS
  <1>1. ASSUME NEW s \in Scopes, NEW l \in Levels, NEW c \in Causes, Trip(s, l, c)
        PROVE KillInv'
    BY <1>1, SwitchesAreGood, GoodTripped, UpdatePreserves DEF Trip
  <1>2. ASSUME NEW s \in Scopes, Acknowledge(s) PROVE KillInv'
    <2>1. switches' = [switches EXCEPT ![s] = [switches[s] EXCEPT !.state = "acknowledged"]]
      BY <1>2 DEF Acknowledge
    <2> QED BY <1>2, <2>1, SwitchesAreGood, GoodAcknowledged, UpdatePreserves DEF Acknowledge
  <1>3. ASSUME NEW s \in Scopes, Rearm(s) \/ AutoClear(s) PROVE KillInv'
    BY <1>3, SwitchesAreGood, GoodReleased, UpdatePreserves DEF Rearm, AutoClear
  <1>4. CASE UNCHANGED switches
    BY <1>4 DEF KillInv, KillTypeOK, HardTripIsLatched, Hard, Active
  <1> QED BY <1>1, <1>2, <1>3, <1>4 DEF KillNext

\* No sequence of trips, acknowledgements and releases breaks a switch.
THEOREM KillInvariant == KillSpec => []KillInv
  BY KillInitial, KillStep, PTL DEF KillSpec

(* Type correctness of the registry. *)
THEOREM KillTypeCorrect == KillSpec => []KillTypeOK
  BY KillInvariant, PTL DEF KillInv

(* The latch: however trips, acknowledgements and clears interleave, a hard *)
(* trip blocks until a re-arm.                                               *)
THEOREM HardLatch == KillSpec => []HardTripIsLatched
  BY KillInvariant, PTL DEF KillInv

(* No release without a person, except of an unacknowledged soft trip. *)
THEOREM ReleaseNeedsAPerson == KillSpec => ReleaseIsEarned
  <1>1. ASSUME KillInv, KillNext, NEW s \in Scopes PROVE EarnedRelease(s)
    <2>1. ASSUME NEW t \in Scopes, NEW l \in Levels, NEW c \in Causes, Trip(t, l, c)
          PROVE EarnedRelease(s)
      BY <1>1, <2>1 DEF Trip, Tripped, TripTakesEffect, KillInv, KillTypeOK, Levels,
                        EarnedRelease
    <2>2. ASSUME NEW t \in Scopes, Acknowledge(t) PROVE EarnedRelease(s)
      BY <1>1, <2>2 DEF Acknowledge, KillInv, KillTypeOK, Switches, EarnedRelease
    <2>3. ASSUME NEW t \in Scopes, Rearm(t) \/ AutoClear(t) PROVE EarnedRelease(s)
      BY <1>1, <2>3 DEF Rearm, Rearmed, AutoClear, Cleared, Clearable, Armed, KillInv, KillTypeOK,
                        EarnedRelease
    <2> QED BY <1>1, <2>1, <2>2, <2>3 DEF KillNext
  <1>2. KillInv /\ [KillNext]_switches
          => [\A scope \in Scopes : EarnedRelease(scope)]_switches
    BY <1>1
  <1> QED BY KillInvariant, <1>2, PTL DEF KillSpec, ReleaseIsEarned

-----------------------------------------------------------------------------
(***************************************************************************)
(* The limit holds in every window.  AdmissionsAreSpaced is not inductive: *)
(* it says nothing of the deque that decides.  LimiterInv adds that the    *)
(* deque is the end of the history of admissions, and that what was        *)
(* trimmed has left the window.  RetryInv adds what the Retry-After header *)
(* rests on: the deque never holds more than Limit entries, and the        *)
(* history is in order.                                                    *)
(***************************************************************************)
LimiterTypeOK ==
  /\ clock \in Nat
  /\ hits \in [Clients -> Seq(Nat)]
  /\ admitted \in [Clients -> Seq(Nat)]

\* dq is the end of log, and what comes before it is not after the cutoff.
EndOf(dq, log, cutoff) ==
  /\ Len(dq) <= Len(log)
  /\ \A i \in 1..Len(dq) : dq[i] = log[i + (Len(log) - Len(dq))]
  /\ \A i \in 1..(Len(log) - Len(dq)) : log[i] <= cutoff

Spaced(log) == \A i \in 1..Len(log) - Limit : log[i + Limit] - log[i] >= Window

LimiterInv ==
  /\ LimiterTypeOK
  /\ \A client \in Clients :
       EndOf(hits[client], admitted[client], clock - Window) /\ Spaced(admitted[client])

-----------------------------------------------------------------------------
\* Trimming a deque by entries before the cutoff leaves an end of the log.
LEMMA TrimKeepsEnd ==
  ASSUME NEW dq \in Seq(Nat), NEW log \in Seq(Nat), NEW cutoff \in Int, NEW n \in 0..Len(dq),
         EndOf(dq, log, cutoff), \A i \in 1..n : dq[i] <= cutoff
  PROVE  Kept(dq, n) \in Seq(Nat) /\ EndOf(Kept(dq, n), log, cutoff)
<1> DEFINE fresh == Kept(dq, n)
<1>1. PICK d \in Nat, l \in Nat : d = Len(dq) /\ l = Len(log)
  OBVIOUS
<1>2. n \in Nat /\ n <= d /\ d <= l
  BY <1>1 DEF EndOf
<1>3. fresh \in Seq(Nat) /\ Len(fresh) = d - n
  BY <1>1, <1>2 DEF Kept
<1>4. ASSUME NEW i \in 1..(d - n) PROVE fresh[i] = log[i + (l - (d - n))]
  <2>1. fresh[i] = dq[i + n]
    BY <1>1, <1>2 DEF Kept
  <2>2. i + n \in 1..d /\ (i + n) + (l - d) = i + (l - (d - n))
    BY <1>2
  <2>3. dq[i + n] = log[(i + n) + (l - d)]
    BY <1>1, <2>2 DEF EndOf
  <2> QED BY <2>1, <2>2, <2>3
<1>5. ASSUME NEW i \in 1..(l - (d - n)) PROVE log[i] <= cutoff
  <2>1. CASE i \in 1..(l - d)
    BY <1>1, <2>1 DEF EndOf
  <2>2. CASE i \notin 1..(l - d)
    <3>1. i - (l - d) \in 1..n /\ i - (l - d) \in 1..d /\ (i - (l - d)) + (l - d) = i
      BY <1>2, <2>2
    <3>2. dq[i - (l - d)] = log[(i - (l - d)) + (l - d)]
      BY <1>1, <3>1 DEF EndOf
    <3> QED BY <3>1, <3>2
  <2> QED BY <2>1, <2>2
<1> QED BY <1>1, <1>2, <1>3, <1>4, <1>5 DEF EndOf

\* Noting an admission in the deque and in the log keeps the one the end of
\* the other.
LEMMA AppendKeepsEnd ==
  ASSUME NEW dq \in Seq(Nat), NEW log \in Seq(Nat), NEW cutoff \in Int, NEW time \in Nat,
         EndOf(dq, log, cutoff)
  PROVE  EndOf(Append(dq, time), Append(log, time), cutoff)
<1>1. PICK d \in Nat, l \in Nat : d = Len(dq) /\ l = Len(log)
  OBVIOUS
<1>2. d <= l
  BY <1>1 DEF EndOf
<1>3. Len(Append(dq, time)) = d + 1 /\ Len(Append(log, time)) = l + 1
  BY <1>1
<1>4. ASSUME NEW i \in 1..(d + 1)
      PROVE  Append(dq, time)[i] = Append(log, time)[i + ((l + 1) - (d + 1))]
  <2>1. CASE i \in 1..d
    <3>1. i + (l - d) \in 1..l /\ i + ((l + 1) - (d + 1)) = i + (l - d)
      BY <1>2, <2>1
    <3>2. dq[i] = log[i + (l - d)]
      BY <1>1, <2>1 DEF EndOf
    <3>3. Append(dq, time)[i] = dq[i]
      BY <1>1, <2>1
    <3>4. Append(log, time)[i + (l - d)] = log[i + (l - d)]
      BY <1>1, <3>1
    <3> QED BY <3>1, <3>2, <3>3, <3>4
  <2>2. CASE i \notin 1..d
    <3>1. i = d + 1 /\ i + ((l + 1) - (d + 1)) = l + 1
      BY <2>2
    <3> QED BY <1>1, <3>1
  <2> QED BY <2>1, <2>2
<1>5. ASSUME NEW i \in 1..((l + 1) - (d + 1)) PROVE Append(log, time)[i] <= cutoff
  <2>1. i \in 1..(l - d) /\ i \in 1..l
    BY <1>2
  <2> QED BY <1>1, <2>1 DEF EndOf
<1> DEFINE dq2 == Append(dq, time)
           log2 == Append(log, time)
<1> HIDE DEF dq2, log2
<1>6. /\ Len(dq2) = d + 1 /\ Len(log2) = l + 1
      /\ \A i \in 1..(d + 1) : dq2[i] = log2[i + ((l + 1) - (d + 1))]
      /\ \A i \in 1..((l + 1) - (d + 1)) : log2[i] <= cutoff
  BY <1>3, <1>4, <1>5 DEF dq2, log2
<1>7. EndOf(dq2, log2, cutoff)
  BY <1>2, <1>6 DEF EndOf
<1> QED BY <1>7 DEF dq2, log2

\* An admission that finds room in the deque is a window after the one Limit
\* before it.
LEMMA RoomKeepsSpacing ==
  ASSUME NEW dq \in Seq(Nat), NEW log \in Seq(Nat), NEW time \in Nat,
         EndOf(dq, log, time - Window), Len(dq) < Limit, Spaced(log)
  PROVE  Spaced(Append(log, time))
<1>1. PICK d \in Nat, l \in Nat : d = Len(dq) /\ l = Len(log)
  OBVIOUS
<1>2. d <= l /\ d < Limit /\ Limit \in Nat /\ Window \in Nat
  BY <1>1, LimiterAssumption DEF EndOf
<1>0. Len(Append(log, time)) = l + 1
  BY <1>1
<1> SUFFICES ASSUME NEW i \in 1..(l + 1) - Limit
             PROVE  Append(log, time)[i + Limit] - Append(log, time)[i] >= Window
  <2> DEFINE log2 == Append(log, time)
  <2> HIDE DEF log2
  <2>1. Len(log2) = l + 1
    BY <1>0 DEF log2
  <2>2. ASSUME \A i \in 1..(l + 1) - Limit : log2[i + Limit] - log2[i] >= Window
        PROVE  Spaced(log2)
    BY <2>1, <2>2 DEF Spaced
  <2> QED BY <2>2 DEF log2
<1>3. i \in 1..l /\ i + Limit \in 1..(l + 1)
  BY <1>2, LimiterAssumption
<1>4. Append(log, time)[i] = log[i] /\ log[i] \in Nat
  BY <1>1, <1>3
<1>5. CASE i + Limit \in 1..l
  <2>1. Append(log, time)[i + Limit] = log[i + Limit]
    BY <1>1, <1>5
  <2>2. i \in 1..l - Limit
    BY <1>2, <1>3, <1>5
  <2> QED BY <1>1, <1>4, <2>1, <2>2 DEF Spaced
<1>6. CASE i + Limit \notin 1..l
  <2>1. i + Limit = l + 1 /\ i \in 1..(l - d)
    BY <1>2, <1>3, <1>6
  <2>2. Append(log, time)[i + Limit] = time
    BY <1>1, <2>1
  <2>3. log[i] <= time - Window
    BY <1>1, <2>1 DEF EndOf
  <2> QED BY <1>2, <1>4, <2>2, <2>3
<1> QED BY <1>5, <1>6

-----------------------------------------------------------------------------
\* Deque and history begin empty.
LEMMA InitInv == LimiterInit => LimiterInv
BY LimiterAssumption DEF LimiterInit, LimiterInv, LimiterTypeOK, EndOf, Spaced

\* Time makes old entries older, an admission is noted in deque and history
\* alike, a refusal only trims.
LEMMA StepInv == LimiterInv /\ [LimiterNext]_limiterVars => LimiterInv'
<1> SUFFICES ASSUME LimiterInv, [LimiterNext]_limiterVars PROVE LimiterInv'
  OBVIOUS
<1>1. /\ clock \in Nat /\ Window \in Nat
      /\ hits \in [Clients -> Seq(Nat)] /\ admitted \in [Clients -> Seq(Nat)]
  BY LimiterAssumption DEF LimiterInv, LimiterTypeOK
<1>2. ASSUME NEW client \in Clients, NEW n \in 0..Len(hits[client]), Expired(hits[client], n)
      PROVE  /\ Kept(hits[client], n) \in Seq(Nat)
             /\ EndOf(Kept(hits[client], n), admitted[client], clock - Window)
  <2>1. \A i \in 1..n : hits[client][i] <= clock - Window
    BY <1>2 DEF Expired
  <2>2. EndOf(hits[client], admitted[client], clock - Window)
    BY DEF LimiterInv
  <2>3. hits[client] \in Seq(Nat) /\ admitted[client] \in Seq(Nat) /\ clock - Window \in Int
    BY <1>1
  <2> QED BY <2>1, <2>2, <2>3, TrimKeepsEnd
<1>3. CASE Tick
  <2>1. clock' = clock + 1 /\ hits' = hits /\ admitted' = admitted
    BY <1>3 DEF Tick
  <2>2. ASSUME NEW client \in Clients
        PROVE  EndOf(hits[client], admitted[client], (clock + 1) - Window)
    <3>1. EndOf(hits[client], admitted[client], clock - Window)
      BY DEF LimiterInv
    <3>2. \A i \in 1..(Len(admitted[client]) - Len(hits[client])) : admitted[client][i] \in Nat
      BY <1>1, <3>1 DEF EndOf
    <3> QED BY <1>1, <3>1, <3>2 DEF EndOf
  <2> QED BY <1>1, <2>1, <2>2 DEF LimiterInv, LimiterTypeOK
<1>4. ASSUME NEW client \in Clients, Admit(client) PROVE LimiterInv'
  <2>1. PICK n \in 0..Len(hits[client]) :
          /\ Expired(hits[client], n)
          /\ Len(Kept(hits[client], n)) < Limit
          /\ hits' = [hits EXCEPT ![client] = Append(Kept(hits[client], n), clock)]
          /\ admitted' = [admitted EXCEPT ![client] = Append(@, clock)]
          /\ clock' = clock
    BY <1>4 DEF Admit
  <2> DEFINE fresh == Kept(hits[client], n)
  <2>2. fresh \in Seq(Nat) /\ EndOf(fresh, admitted[client], clock - Window)
    BY <1>2, <2>1
  <2>3. EndOf(Append(fresh, clock), Append(admitted[client], clock), clock - Window)
    BY <1>1, <2>2, AppendKeepsEnd
  <2>4. Spaced(Append(admitted[client], clock))
    BY <1>1, <2>1, <2>2, RoomKeepsSpacing DEF LimiterInv
  <2>5. Append(fresh, clock) \in Seq(Nat) /\ Append(admitted[client], clock) \in Seq(Nat)
    BY <1>1, <2>2
  <2> QED BY <1>1, <2>1, <2>3, <2>4, <2>5 DEF LimiterInv, LimiterTypeOK
<1>5. ASSUME NEW client \in Clients, Refuse(client) PROVE LimiterInv'
  <2>1. PICK n \in 0..Len(hits[client]) :
          /\ Expired(hits[client], n)
          /\ hits' = [hits EXCEPT ![client] = Kept(hits[client], n)]
          /\ UNCHANGED <<clock, admitted>>
    BY <1>5 DEF Refuse
  <2> QED BY <1>1, <1>2, <2>1 DEF LimiterInv, LimiterTypeOK
<1>6. CASE UNCHANGED limiterVars
  BY <1>6 DEF limiterVars, LimiterInv, LimiterTypeOK
<1> QED BY <1>3, <1>4, <1>5, <1>6 DEF LimiterNext

\* No client gets more than Limit requests through in any window, for every
\* limit, window, tick and number of clients.
THEOREM LimitInEveryWindow == LimiterSpec => []AdmissionsAreSpaced
<1>1. LimiterInv => AdmissionsAreSpaced
  BY DEF LimiterInv, Spaced, AdmissionsAreSpaced
<1> QED BY InitInv, StepInv, <1>1, PTL DEF LimiterSpec
-----------------------------------------------------------------------------
(***************************************************************************)
(* What the header promises.  The refusal counts from the oldest entry of  *)
(* the deque; that this entry decides when there is room again needs the   *)
(* deque to hold exactly Limit entries and the log to be in order.         *)
(***************************************************************************)
InTime(log, time) ==
  /\ \A i, j \in 1..Len(log) : i <= j => log[i] <= log[j]
  /\ \A i \in 1..Len(log) : log[i] <= time

PromiseKept(client) == promised[client] # Never =>
  Room(client, promised[client]) /\ ~Room(client, promised[client] - TicksPerSecond - 1)

RetryInv ==
  /\ LimiterInv
  /\ promised \in [Clients -> Int]
  /\ \A client \in Clients :
       /\ Len(hits[client]) <= Limit
       /\ InTime(admitted[client], clock)
       /\ PromiseKept(client)

\* The header is more than the wait, and at most a second more.
LEMMA HeaderRoundsUp ==
  ASSUME NEW retry \in Int
  PROVE  /\ HeaderSeconds(retry) * TicksPerSecond \in Int
         /\ retry < HeaderSeconds(retry) * TicksPerSecond
         /\ HeaderSeconds(retry) * TicksPerSecond <= retry + TicksPerSecond
<1>1. PICK t \in Nat \ {0} : t = TicksPerSecond
  BY LimiterAssumption
<1>2. PICK q \in Int : q = retry \div t
  BY <1>1
<1>3. t * q <= retry /\ retry < t * q + t
  BY <1>1, <1>2
<1>4. (q + 1) * t = t * q + t /\ t * q \in Int
  BY <1>1, <1>2
<1>5. HeaderSeconds(retry) * TicksPerSecond = (q + 1) * t
  BY <1>1, <1>2 DEF HeaderSeconds
<1>6. PICK p \in Int : p = t * q
  BY <1>4
<1> QED BY <1>1, <1>3, <1>4, <1>5, <1>6

\* With the log in order and its last Limit entries beginning at oldest,
\* there is room after oldest has left the window and not before.
LEMMA OldestDecides ==
  ASSUME NEW client \in Clients, NEW log \in Seq(Nat), log = admitted[client],
         NEW limit \in Int, InTime(log, limit), Limit <= Len(log),
         NEW time \in Int
  PROVE  /\ time - Window >= log[Len(log) - Limit + 1] => Room(client, time)
         /\ time - Window < log[Len(log) - Limit + 1] => ~Room(client, time)
<1>1. PICK l \in Nat, k \in Nat \ {0} : l = Len(log) /\ k = Limit
  BY LimiterAssumption
<1> DEFINE first == l - k + 1
           Inside == {i \in DOMAIN log : log[i] > time - Window}
<1>2. k <= l /\ first \in 1..l /\ DOMAIN log = 1..l /\ Window \in Int
  BY <1>1, LimiterAssumption
<1>3. \A i \in 1..l : log[i] \in Nat
  BY <1>1
<1>4. \A i, j \in 1..l : i <= j => log[i] <= log[j]
  BY <1>1 DEF InTime
<1>5. IsFiniteSet(Inside) /\ Cardinality(Inside) \in Nat
  <2>1. Inside \subseteq 1..l /\ IsFiniteSet(1..l)
    BY <1>1, <1>2, FS_Interval
  <2> QED BY <2>1, FS_Subset, FS_CardinalityType
<1>6. Room(client, time) <=> Cardinality(Inside) < k
  BY <1>1 DEF Room
<1>7. ASSUME time - Window >= log[first] PROVE Cardinality(Inside) < k
  <2>1. Inside \subseteq (first + 1)..l
    BY <1>2, <1>3, <1>4, <1>7
  <2>2. IsFiniteSet((first + 1)..l) /\ Cardinality((first + 1)..l) = k - 1
    <3>1. first + 1 \in Int /\ l \in Int /\ l - (first + 1) + 1 = k - 1
      BY <1>1, <1>2
    <3>2. first + 1 > l => k - 1 = 0
      BY <1>1, <1>2
    <3> HIDE DEF first
    <3>3. /\ IsFiniteSet((first + 1)..l)
          /\ Cardinality((first + 1)..l) = IF first + 1 > l THEN 0 ELSE l - (first + 1) + 1
      BY <3>1, FS_Interval
    <3> QED BY <3>1, <3>2, <3>3
  <2>3. Cardinality(Inside) <= k - 1
    <3> HIDE DEF Inside, first
    <3> QED BY <2>1, <2>2, FS_Subset
  <2> HIDE DEF Inside
  <2> QED BY <2>3, <1>1, <1>5
<1>8. ASSUME time - Window < log[first] PROVE ~(Cardinality(Inside) < k)
  <2>1. first..l \subseteq Inside
    BY <1>2, <1>3, <1>4, <1>8
  <2>2. Cardinality(first..l) = k
    <3>1. first \in Int /\ l \in Int /\ first <= l /\ l - first + 1 = k
      BY <1>1, <1>2
    <3> HIDE DEF first
    <3>2. Cardinality(first..l) = IF first > l THEN 0 ELSE l - first + 1
      BY <3>1, FS_Interval
    <3> QED BY <3>1, <3>2, <1>1
  <2>3. k <= Cardinality(Inside)
    <3> HIDE DEF Inside, first
    <3> QED BY <2>1, <2>2, <1>5, FS_Subset
  <2> HIDE DEF Inside
  <2> QED BY <2>3, <1>1, <1>5
<1> HIDE DEF Inside
<1> QED BY <1>1, <1>6, <1>7, <1>8

\* Nothing is promised at first.
LEMMA InitRetry == LimiterInit => RetryInv
<1> SUFFICES ASSUME LimiterInit PROVE RetryInv
  OBVIOUS
<1>1. LimiterInv
  BY InitInv
<1>2. promised \in [Clients -> Int] /\ \A client \in Clients : promised[client] = Never
  BY DEF LimiterInit, Never
<1>3. \A client \in Clients :
        hits[client] = <<>> /\ admitted[client] = <<>>
  BY DEF LimiterInit
<1>4. ASSUME NEW client \in Clients
      PROVE Len(hits[client]) <= Limit /\ InTime(admitted[client], clock)
  <2>1. Len(hits[client]) = 0 /\ Len(admitted[client]) = 0
    BY <1>3
  <2> QED BY <2>1, LimiterAssumption DEF InTime
<1> QED BY <1>1, <1>2, <1>4 DEF RetryInv, PromiseKept

\* An admission, at the present, keeps the log in order.
LEMMA AppendInTime ==
  ASSUME NEW log \in Seq(Nat), NEW time \in Nat, InTime(log, time)
  PROVE  InTime(Append(log, time), time)
<1>1. PICK l \in Nat : l = Len(log)
  OBVIOUS
<1> DEFINE log2 == Append(log, time)
<1>2. Len(log2) = l + 1 /\ log2[l + 1] = time /\ \A i \in 1..l : log2[i] = log[i] /\ log[i] \in Nat
  BY <1>1
<1>3. \A i, j \in 1..l : i <= j => log[i] <= log[j]
  BY <1>1 DEF InTime
<1>4. \A i \in 1..l : log[i] <= time
  BY <1>1 DEF InTime
<1> HIDE DEF log2
<1>5. \A i \in 1..(l + 1) : log2[i] <= time
  BY <1>1, <1>2, <1>4
<1>6. \A i, j \in 1..(l + 1) : i <= j => log2[i] <= log2[j]
  BY <1>1, <1>2, <1>3, <1>4
<1>7. InTime(log2, time)
  BY <1>2, <1>5, <1>6 DEF InTime
<1> QED BY <1>7 DEF log2

\* A promise is made by a refusal, dropped by an admission and outlives
\* everything else.
LEMMA StepRetry == RetryInv /\ [LimiterNext]_limiterVars => RetryInv'
<1> SUFFICES ASSUME RetryInv, [LimiterNext]_limiterVars PROVE RetryInv'
  OBVIOUS
<1>1. /\ clock \in Nat /\ Window \in Nat /\ Limit \in Nat \ {0} /\ TicksPerSecond \in Nat \ {0}
      /\ hits \in [Clients -> Seq(Nat)] /\ admitted \in [Clients -> Seq(Nat)]
      /\ promised \in [Clients -> Int]
  BY LimiterAssumption DEF RetryInv, LimiterInv, LimiterTypeOK
<1>2. LimiterInv'
  BY StepInv DEF RetryInv
<1>3. CASE Tick
  <2>1. clock' = clock + 1 /\ hits' = hits /\ admitted' = admitted /\ promised' = promised
    BY <1>3 DEF Tick
  <2>2. ASSUME NEW client \in Clients PROVE InTime(admitted[client], clock + 1)
    <3>1. InTime(admitted[client], clock) /\ admitted[client] \in Seq(Nat)
      BY <1>1 DEF RetryInv
    <3>2. \A i \in 1..Len(admitted[client]) : admitted[client][i] \in Nat
      BY <3>1
    <3> QED BY <1>1, <3>1, <3>2 DEF InTime
  <2> QED BY <1>1, <1>2, <2>1, <2>2 DEF RetryInv, PromiseKept, Room
<1>4. ASSUME NEW client \in Clients, Admit(client) PROVE RetryInv'
  <2>1. PICK n \in 0..Len(hits[client]) :
          /\ Len(Kept(hits[client], n)) < Limit
          /\ hits' = [hits EXCEPT ![client] = Append(Kept(hits[client], n), clock)]
          /\ admitted' = [admitted EXCEPT ![client] = Append(@, clock)]
          /\ promised' = [promised EXCEPT ![client] = Never]
          /\ clock' = clock
    BY <1>4 DEF Admit
  <2>2. InTime(Append(admitted[client], clock), clock)
    BY <1>1, AppendInTime DEF RetryInv
  <2>3. Len(Append(Kept(hits[client], n), clock)) <= Limit
    <3>1. Kept(hits[client], n) \in Seq(Nat)
      BY <1>1 DEF Kept
    <3> QED BY <1>1, <2>1, <3>1
  <2>4. ASSUME NEW other \in Clients
        PROVE  /\ Len(hits'[other]) <= Limit
               /\ InTime(admitted'[other], clock')
               /\ PromiseKept(other)'
    <3>1. CASE other = client
      <4>1. hits'[other] = Append(Kept(hits[client], n), clock)
            /\ admitted'[other] = Append(admitted[client], clock) /\ promised'[other] = Never
        BY <1>1, <2>1, <3>1
      <4> QED BY <2>1, <2>2, <2>3, <4>1 DEF PromiseKept
    <3>2. CASE other # client
      <4>1. hits'[other] = hits[other] /\ admitted'[other] = admitted[other]
            /\ promised'[other] = promised[other]
        BY <1>1, <2>1, <3>2
      <4> QED BY <2>1, <4>1 DEF RetryInv, PromiseKept, Room
    <3> QED BY <3>1, <3>2
  <2>5. promised' \in [Clients -> Int]
    BY <1>1, <2>1 DEF Never
  <2> QED BY <1>2, <2>4, <2>5 DEF RetryInv
<1>5. ASSUME NEW client \in Clients, Refuse(client) PROVE RetryInv'
  <2> DEFINE dq == hits[client]
             log == admitted[client]
  <2>1. PICK n \in 0..Len(dq) :
          LET fresh == Kept(dq, n)
              retry == Window - (clock - fresh[1])
          IN /\ Expired(dq, n)
             /\ Len(fresh) >= Limit
             /\ hits' = [hits EXCEPT ![client] = fresh]
             /\ promised' = [promised EXCEPT ![client] =
                               clock + HeaderSeconds(retry) * TicksPerSecond]
             /\ UNCHANGED <<clock, admitted>>
    BY <1>5 DEF Refuse
  <2> DEFINE fresh == Kept(dq, n)
             oldest == fresh[1]
             retry == Window - (clock - oldest)
             promise == clock + HeaderSeconds(retry) * TicksPerSecond
  <2>2. fresh \in Seq(Nat) /\ EndOf(fresh, log, clock - Window)
    <3>1. \A i \in 1..n : dq[i] <= clock - Window
      BY <2>1 DEF Expired
    <3>2. EndOf(dq, log, clock - Window)
      BY DEF RetryInv, LimiterInv
    <3>3. dq \in Seq(Nat) /\ log \in Seq(Nat) /\ clock - Window \in Int
      BY <1>1
    <3> QED BY <3>1, <3>2, <3>3, TrimKeepsEnd
  <2>3. Len(fresh) = Limit /\ Limit <= Len(log) /\ log \in Seq(Nat)
    <3>1. Len(fresh) = Len(dq) - n /\ Len(dq) \in Nat /\ n \in Nat
      BY <1>1 DEF Kept
    <3>2. Len(dq) <= Limit
      BY DEF RetryInv
    <3>3. Len(fresh) <= Len(log)
      BY <2>2 DEF EndOf
    <3> QED BY <1>1, <2>1, <3>1, <3>2, <3>3
  <2>4. oldest = log[Len(log) - Limit + 1] /\ oldest \in Nat
    <3>1. 1 \in 1..Len(fresh) /\ Len(log) \in Nat
      BY <1>1, <2>3
    <3>2. fresh[1] = log[1 + (Len(log) - Len(fresh))]
      BY <2>2, <3>1 DEF EndOf
    <3>3. 1 + (Len(log) - Len(fresh)) = Len(log) - Limit + 1
      BY <1>1, <2>3, <3>1
    <3>4. fresh[1] \in Nat
      BY <2>2, <3>1
    <3> QED BY <3>2, <3>3, <3>4
  <2>5. InTime(log, clock)
    BY DEF RetryInv
  <2>6. promise \in Int /\ promise - Window >= oldest
        /\ promise - TicksPerSecond - 1 \in Int /\ promise - TicksPerSecond - 1 - Window < oldest
    <3>1. retry \in Int
      BY <1>1, <2>4
    <3>2. /\ HeaderSeconds(retry) * TicksPerSecond \in Int
          /\ retry < HeaderSeconds(retry) * TicksPerSecond
          /\ HeaderSeconds(retry) * TicksPerSecond <= retry + TicksPerSecond
      BY <3>1, HeaderRoundsUp
    <3>3. PICK h \in Int : h = HeaderSeconds(retry) * TicksPerSecond
      BY <3>2
    <3>4. promise = clock + h /\ retry = Window - (clock - oldest)
      BY <3>3
    <3>5. retry < h /\ h <= retry + TicksPerSecond
      BY <3>2, <3>3
    <3>6. oldest \in Nat
      BY <2>4
    <3> HIDE DEF promise, retry, oldest
    <3> QED BY <1>1, <3>1, <3>4, <3>5, <3>6
  <2>7. Room(client, promise) /\ ~Room(client, promise - TicksPerSecond - 1)
    <3> HIDE DEF promise, oldest
    <3> QED BY <1>1, <2>3, <2>4, <2>5, <2>6, OldestDecides
  <2>8. /\ hits' = [hits EXCEPT ![client] = fresh]
        /\ promised' = [promised EXCEPT ![client] = promise]
        /\ clock' = clock /\ admitted' = admitted
    BY <2>1
  <2> HIDE DEF promise, fresh
  <2>9. ASSUME NEW other \in Clients
        PROVE  /\ Len(hits'[other]) <= Limit
               /\ InTime(admitted'[other], clock')
               /\ PromiseKept(other)'
    <3>0. InTime(admitted'[other], clock')
      BY <2>8 DEF RetryInv
    <3>1. CASE other = client
      <4>1. hits'[other] = fresh /\ promised'[other] = promise
        BY <1>1, <2>8, <3>1
      <4> QED BY <1>1, <2>3, <2>7, <2>8, <3>0, <3>1, <4>1 DEF PromiseKept, Room
    <3>2. CASE other # client
      <4>1. hits'[other] = hits[other] /\ promised'[other] = promised[other]
        BY <1>1, <2>8, <3>2
      <4> QED BY <2>8, <3>0, <4>1 DEF RetryInv, PromiseKept, Room
    <3> QED BY <3>1, <3>2
  <2>10. promised' \in [Clients -> Int]
    BY <1>1, <2>6, <2>8
  <2> QED BY <1>2, <2>9, <2>10 DEF RetryInv
<1>6. CASE UNCHANGED limiterVars
  BY <1>2, <1>6 DEF limiterVars, RetryInv, PromiseKept, Room
<1> QED BY <1>3, <1>4, <1>5, <1>6 DEF LimiterNext

\* A client that waits as long as it was told finds room, and would have
\* found none a second and a tick earlier, for every limit, window and clock
\* resolution.
THEOREM HeaderIsEnough == LimiterSpec => []RetryAfterIsEnough
<1>1. RetryInv => RetryAfterIsEnough
  BY DEF RetryInv, PromiseKept, RetryAfterIsEnough
<1> QED BY InitRetry, StepRetry, <1>1, PTL DEF LimiterSpec

-----------------------------------------------------------------------------
(* The console. *)

\* Requests and the clock take the limiter's steps; nothing else touches it.
LEMMA StepOfLimiter == [ConsoleNext]_vars => [LimiterNext]_limiterVars
<1> SUFFICES ASSUME [ConsoleNext]_vars PROVE [LimiterNext]_limiterVars
  OBVIOUS
<1>1. CASE Tick
  BY <1>1 DEF LimiterNext
<1>2. ASSUME NEW client \in Clients, Request(client) PROVE LimiterNext
  BY <1>2 DEF Request, LimiterNext
<1>3. ASSUME NEW scope \in Scopes, MonitorTrips(scope) \/ MonitorClears(scope)
      PROVE  UNCHANGED limiterVars
  BY <1>3 DEF MonitorTrips, MonitorClears
<1>4. ASSUME NEW channel \in OtherChannels, BroadcastOther(channel)
      PROVE  UNCHANGED limiterVars
  BY <1>4 DEF BroadcastOther
<1>5. ASSUME NEW alert \in Emitted, Deliver(alert) PROVE UNCHANGED limiterVars
  BY <1>5 DEF Deliver
<1>6. CASE UNCHANGED vars
  BY <1>6 DEF vars
<1> QED BY <1>1, <1>2, <1>3, <1>4, <1>5, <1>6 DEF ConsoleNext

\* A switch is tripped, acknowledged, re-armed and cleared as the registry
\* does it, and by nothing else.
LEMMA StepOfRegistry == [ConsoleNext]_vars => [KillNext]_switches
<1> SUFFICES ASSUME [ConsoleNext]_vars PROVE [KillNext]_switches
  OBVIOUS
<1>1. CASE Tick /\ UNCHANGED <<switches, wsVars, notifyVars>>
  BY <1>1
<1>2. ASSUME NEW client \in Clients, Request(client) PROVE [KillNext]_switches
  <2>1. CASE Handled
    BY <2>1, ConsoleAssumption DEF Handled, KillSwitchRoutes, AlertRoutes, TripAndTell, KillNext
  <2>2. CASE UNCHANGED <<switches, wsVars, notifyVars>>
    BY <2>2
  <2> QED BY <1>2, <2>1, <2>2 DEF Request
<1>3. ASSUME NEW scope \in Scopes, MonitorTrips(scope) \/ MonitorClears(scope)
      PROVE  [KillNext]_switches
  BY <1>3, ConsoleAssumption DEF MonitorTrips, MonitorClears, TripAndTell, KillNext, Levels,
         MentionsData
<1>4. ASSUME NEW channel \in OtherChannels, BroadcastOther(channel)
      PROVE  UNCHANGED switches
  BY <1>4 DEF BroadcastOther
<1>5. ASSUME NEW alert \in Emitted, Deliver(alert) PROVE UNCHANGED switches
  BY <1>5 DEF Deliver
<1>6. CASE UNCHANGED vars
  BY <1>6 DEF vars
<1> QED BY <1>1, <1>2, <1>3, <1>4, <1>5, <1>6 DEF ConsoleNext

\* Whatever is requested of the console, no client gets more than Limit
\* requests through in any window.
THEOREM ConsoleIsLimited == ConsoleSpec => []AdmissionsAreSpaced
<1>1. ConsoleInit => LimiterInit
  BY DEF ConsoleInit
<1> QED BY <1>1, StepOfLimiter, LimitInEveryWindow, PTL DEF ConsoleSpec, LimiterSpec

\* Every client that the console turns away is told to come back when it will be
\* let in, at most a second later than it had to.
THEOREM ConsolePromisesHold == ConsoleSpec => []RetryAfterIsEnough
<1>1. ConsoleInit => LimiterInit
  BY DEF ConsoleInit
<1> QED BY <1>1, StepOfLimiter, HeaderIsEnough, PTL DEF ConsoleSpec, LimiterSpec

\* Whatever requests and the monitor make of them, hard trips stay until a
\* person re-arms, and no switch is released that nobody acknowledged unless
\* its trip was soft.
THEOREM ConsoleKeepsLatches == ConsoleSpec => []HardTripIsLatched /\ ReleaseIsEarned
<1>1. ConsoleInit => KillInit
  BY DEF ConsoleInit
<1>2. ConsoleSpec => KillSpec
  BY <1>1, StepOfRegistry, PTL DEF ConsoleSpec, KillSpec
<1> QED BY <1>2, HardLatch, ReleaseNeedsAPerson, PTL

-----------------------------------------------------------------------------
(***************************************************************************)
(* The fan-out.  FanOutExact is not inductive: a connection that opens or  *)
(* registers must find nothing left over, what it waits for must be what   *)
(* it is subscribed to, and no subscription may lie in the future.         *)
(***************************************************************************)
Channels == OtherChannels \cup {Risk, Alerts}
Events == Channels \X Nat
Sockets == {"new", "open", "closed"}

WsNext == WsStep \/ \E channels \in Seq(Channels) : Broadcast(channels)

WsTypeOK ==
  /\ DOMAIN socket = WsClients /\ \A c \in WsClients : socket[c] \in Sockets
  /\ Registered \subseteq WsClients
  /\ DOMAIN sending = WsClients /\ DOMAIN received = WsClients /\ DOMAIN since = WsClients
  /\ \A c \in WsClients : sending[c] \in Seq(Events) /\ received[c] \in Seq(Events)
  /\ broadcasts \in Seq(Channels)
  /\ \A c \in WsClients : \A ch \in DOMAIN since[c] : since[c][ch] \in 0 .. Len(broadcasts)

Untouched(c) == received[c] = <<>> /\ sending[c] = <<>> /\ since[c] = <<>>
NewIsUntouched == \A c \in WsClients : socket[c] = "new" => Untouched(c) /\ c \notin Registered
Followed == \A c \in Registered : socket[c] = "open" => DOMAIN since[c] = subs[c]

WsInv == WsTypeOK /\ NewIsUntouched /\ Followed /\ FanOutExact

\* The broadcasts that a connection is owed, by their places.
Owed(log, from) ==
  {n \in DOMAIN log : Matches(log[n], {ch \in DOMAIN from : from[ch] < n})}

LEMMA EventsAre ==
  ASSUME NEW log \in Seq(Channels), NEW ids \in SUBSET DOMAIN log
  PROVE  /\ IsFiniteSet(ids) /\ ids \in SUBSET Int /\ Cardinality(ids) \in Nat
         /\ AscendingIn(ids, InOrder(ids)) /\ DOMAIN InOrder(ids) = 1 .. Cardinality(ids)
         /\ EventsAt(log, ids) \in Seq(Events) /\ Len(EventsAt(log, ids)) = Cardinality(ids)
         /\ \A k \in 1 .. Cardinality(ids) :
              EventsAt(log, ids)[k] = <<log[InOrder(ids)[k]], InOrder(ids)[k]>>
<1>1. DOMAIN log = 1 .. Len(log) /\ Len(log) \in Nat
  OBVIOUS
<1>2. IsFiniteSet(ids) /\ ids \in SUBSET Int /\ Cardinality(ids) \in Nat
  <2>1. IsFiniteSet(1 .. Len(log))
    BY <1>1, FS_Interval
  <2>2. IsFiniteSet(ids)
    BY <1>1, <2>1, FS_Subset
  <2> QED
    BY <1>1, <2>2, FS_CardinalityType
<1>3. AscendingIn(ids, InOrder(ids))
  BY <1>2, InOrderIsOrdered
<1> DEFINE n == Cardinality(ids)
           o == InOrder(ids)
<1> HIDE DEF n, o
<1>4. o \in [1 .. n -> ids] /\ n \in Nat
  BY <1>2, <1>3 DEF AscendingIn, n, o
<1>5. EventsAt(log, ids) = [k \in 1 .. n |-> <<log[o[k]], o[k]>>]
  BY <1>4 DEF EventsAt, o
<1>6. \A k \in 1 .. n : <<log[o[k]], o[k]>> \in Events
  <2> TAKE k \in 1 .. n
  <2>1. o[k] \in DOMAIN log /\ o[k] \in Nat
    BY <1>1, <1>4
  <2>2. log[o[k]] \in Channels
    BY <2>1
  <2> QED
    BY <2>1, <2>2 DEF Events
<1>7. /\ EventsAt(log, ids) \in Seq(Events) /\ Len(EventsAt(log, ids)) = n
      /\ \A k \in 1 .. n : EventsAt(log, ids)[k] = <<log[o[k]], o[k]>>
  BY <1>4, <1>5, <1>6
<1> QED
  BY <1>2, <1>3, <1>4, <1>7 DEF n, o

\* What comes later is sent later.
LEMMA EventsJoin ==
  ASSUME NEW log \in Seq(Channels), NEW low \in SUBSET DOMAIN log, NEW high \in SUBSET DOMAIN log,
         \A i \in low, j \in high : i < j
  PROVE  EventsAt(log, low \cup high) = EventsAt(log, low) \o EventsAt(log, high)
<1> DEFINE both == low \cup high
           a == Cardinality(low)
           b == Cardinality(high)
           c == Cardinality(both)
           p == InOrder(low)
           q == InOrder(high)
           r == InOrder(both)
<1>1. both \in SUBSET DOMAIN log
  OBVIOUS
<1>2. /\ low \in SUBSET Int /\ high \in SUBSET Int /\ IsFiniteSet(low) /\ IsFiniteSet(high)
      /\ a \in Nat /\ b \in Nat /\ c \in Nat
      /\ p \in [1 .. a -> low] /\ q \in [1 .. b -> high] /\ r \in [1 .. c -> both]
  <2>1. /\ low \in SUBSET Int /\ IsFiniteSet(low) /\ a \in Nat /\ AscendingIn(low, p)
    BY EventsAre
  <2>2. /\ high \in SUBSET Int /\ IsFiniteSet(high) /\ b \in Nat /\ AscendingIn(high, q)
    BY EventsAre
  <2>3. c \in Nat /\ AscendingIn(both, r)
    <3> HIDE DEF both
    <3> QED
      BY <1>1, EventsAre
  <2> HIDE DEF both, p, q, r
  <2> QED
    BY <2>1, <2>2, <2>3 DEF AscendingIn
<1>3. r = p \o q
  BY <1>2, OrderJoins
<1> DEFINE x == EventsAt(log, low)
           y == EventsAt(log, high)
           z == EventsAt(log, both)
<1>4. /\ x \in Seq(Events) /\ Len(x) = a /\ \A k \in 1 .. a : x[k] = <<log[p[k]], p[k]>>
      /\ y \in Seq(Events) /\ Len(y) = b /\ \A k \in 1 .. b : y[k] = <<log[q[k]], q[k]>>
  BY EventsAre
<1>5. z \in Seq(Events) /\ Len(z) = c /\ \A k \in 1 .. c : z[k] = <<log[r[k]], r[k]>>
  <2> HIDE DEF both
  <2> QED
    BY <1>1, EventsAre
<1> HIDE DEF both, a, b, c, p, q, r, x, y, z
<1>6. /\ p \in Seq(Int) /\ Len(p) = a /\ q \in Seq(Int) /\ Len(q) = b
      /\ r \in Seq(Int) /\ Len(r) = c
  <2>1. p \in [1 .. a -> Int] /\ q \in [1 .. b -> Int] /\ r \in [1 .. c -> Int]
    BY <1>2 DEF both
  <2> QED
    BY <1>2, <2>1
<1>7. /\ c = a + b
      /\ \A k \in 1 .. a : r[k] = p[k]
      /\ \A k \in 1 .. b : r[a + k] = q[k]
  <2>0. a \in Nat /\ b \in Nat
    BY <1>2
  <2>1. Len(p \o q) = a + b
    BY <1>6, ConcatProperties
  <2>2. \A k \in 1 .. a : (p \o q)[k] = p[k]
    BY <1>6, <2>0
  <2>3. \A k \in 1 .. b : (p \o q)[a + k] = q[k]
    BY <1>6, <2>0
  <2>4. Len(r) = Len(p \o q)
    BY <1>3
  <2> QED
    BY <1>3, <1>6, <2>1, <2>2, <2>3, <2>4
<1>8. Len(x \o y) = c /\ x \o y \in Seq(Events)
  <2>1. x \in Seq(Events) /\ y \in Seq(Events) /\ Len(x) = a /\ Len(y) = b /\ c = a + b
    BY <1>4, <1>7
  <2> QED
    BY <2>1
<1>9. ASSUME NEW k \in 1 .. c PROVE z[k] = (x \o y)[k]
  <2>1. CASE k \in 1 .. a
    <3>1. (x \o y)[k] = x[k]
      BY <1>2, <1>4, <1>7, <2>1
    <3> QED
      BY <1>4, <1>5, <1>7, <2>1, <3>1
  <2>2. CASE k \notin 1 .. a
    <3>1. PICK j \in 1 .. b : k = a + j
      <4>1. k - a \in 1 .. b /\ k = a + (k - a)
        BY <1>2, <1>7, <2>2
      <4> QED
        BY <4>1
    <3>2. (x \o y)[a + j] = y[j]
      BY <1>2, <1>4, <1>7, <3>1
    <3>3. r[a + j] = q[j] /\ y[j] = <<log[q[j]], q[j]>> /\ z[k] = <<log[r[k]], r[k]>>
      BY <1>4, <1>5, <1>7, <3>1
    <3> QED
      BY <3>1, <3>2, <3>3
  <2> QED
    BY <2>1, <2>2
<1>10. z = x \o y
  <2> DEFINE w == x \o y
  <2>1. w \in Seq(Events) /\ Len(w) = c /\ \A k \in 1 .. c : z[k] = w[k]
    BY <1>8, <1>9
  <2> HIDE DEF w
  <2>2. z = w
    BY <1>5, <2>1, SeqEqual
  <2> QED
    BY <2>2 DEF w
<1> QED
  BY <1>10 DEF x, y, z, both

\* A log that goes on keeps the events it has.
LEMMA EventsStay ==
  ASSUME NEW log \in Seq(Channels), NEW more \in Seq(Channels), NEW ids \in SUBSET DOMAIN log
  PROVE  EventsAt(log \o more, ids) = EventsAt(log, ids)
<1>1. /\ DOMAIN log = 1 .. Len(log) /\ Len(log) \in Nat
      /\ \A n \in DOMAIN log : (log \o more)[n] = log[n]
  OBVIOUS
<1>2. AscendingIn(ids, InOrder(ids)) /\ DOMAIN InOrder(ids) = 1 .. Cardinality(ids)
  BY EventsAre
<1>3. \A k \in DOMAIN InOrder(ids) : InOrder(ids)[k] \in DOMAIN log
  BY <1>2 DEF AscendingIn
<1> DEFINE long == log \o more
           o == InOrder(ids)
<1> HIDE DEF long, o
<1> QED
  BY <1>1, <1>3 DEF EventsAt, long, o

\* No places, no events.
LEMMA NoEvents ==
  ASSUME NEW log \in Seq(Channels)
  PROVE  EventsAt(log, {}) = <<>>
<1>1. EventsAt(log, {}) \in Seq(Events) /\ Len(EventsAt(log, {})) = Cardinality({})
  BY EventsAre
<1>2. Cardinality({}) = 0
  BY FS_EmptySet
<1> QED
  BY <1>1, <1>2

\* What is due is what is owed.
LEMMA DueIs == \A c : Due(c) = EventsAt(broadcasts, Owed(broadcasts, since[c]))
BY DEF Due, Owed

\* A connection that follows nothing is owed nothing.
LEMMA NothingOwed ==
  ASSUME NEW log
  PROVE  Owed(log, <<>>) = {}
<1>1. \A n : {ch \in DOMAIN <<>> : <<>>[ch] < n} = {}
  OBVIOUS
<1> QED
  BY <1>1 DEF Owed, Matches

\* What is broadcast now goes to whoever follows it, and to nobody else.
LEMMA OwedGrows ==
  ASSUME NEW log \in Seq(Channels), NEW more \in Seq(Channels), NEW from,
         \A ch \in DOMAIN from : from[ch] \in 0 .. Len(log)
  PROVE  Owed(log \o more, from) =
           Owed(log, from) \cup
             {n \in DOMAIN (log \o more) : n > Len(log) /\ Matches((log \o more)[n], DOMAIN from)}
<1> DEFINE long == log \o more
<1>1. /\ DOMAIN log = 1 .. Len(log) /\ Len(log) \in Nat /\ long \in Seq(Channels)
      /\ DOMAIN long = 1 .. Len(long) /\ Len(long) \in Nat /\ Len(log) <= Len(long)
      /\ \A n \in DOMAIN log : long[n] = log[n]
  OBVIOUS
<1> HIDE DEF long
<1>2. \A n \in DOMAIN long : n > Len(log) => {ch \in DOMAIN from : from[ch] < n} = DOMAIN from
  <2> TAKE n \in DOMAIN long
  <2>1. n \in Nat
    BY <1>1
  <2>2. n > Len(log) => \A ch \in DOMAIN from : from[ch] < n
    BY <1>1, <2>1
  <2> QED
    BY <2>2
<1>3. \A n \in DOMAIN long : (n \in DOMAIN log) \/ n > Len(log)
  BY <1>1
<1>4. \A n \in DOMAIN log : n \in DOMAIN long /\ ~(n > Len(log))
  BY <1>1
<1>5. Owed(long, from) = Owed(log, from) \cup
        {n \in DOMAIN long : n > Len(log) /\ Matches(long[n], DOMAIN from)}
  <2>1. \A n \in DOMAIN log : n \in Owed(long, from) <=> n \in Owed(log, from)
    BY <1>1, <1>4 DEF Owed
  <2>2. \A n \in DOMAIN long : n > Len(log) =>
          (n \in Owed(long, from) <=> Matches(long[n], DOMAIN from))
    BY <1>2 DEF Owed
  <2>3. Owed(long, from) \subseteq DOMAIN long /\ Owed(log, from) \subseteq DOMAIN log
    BY DEF Owed
  <2> QED
    BY <1>3, <1>4, <2>1, <2>2, <2>3
<1> QED
  BY <1>5 DEF long

LEMMA WsInitial == WsInit => WsInv
<1> SUFFICES ASSUME WsInit PROVE WsInv
  OBVIOUS
<1>1. /\ DOMAIN socket = WsClients /\ \A c \in WsClients : socket[c] = "new"
      /\ DOMAIN sending = WsClients /\ \A c \in WsClients : sending[c] = <<>>
      /\ DOMAIN received = WsClients /\ \A c \in WsClients : received[c] = <<>>
      /\ DOMAIN since = WsClients /\ \A c \in WsClients : since[c] = <<>>
      /\ subs = <<>> /\ broadcasts = <<>>
  BY DEF WsInit
<1>2. Registered = {}
  BY <1>1 DEF Registered
<1>3. WsTypeOK
  <2>1. <<>> \in Seq(Events) /\ <<>> \in Seq(Channels) /\ DOMAIN <<>> = {}
    OBVIOUS
  <2> QED
    BY <1>1, <1>2, <2>1 DEF WsTypeOK, Sockets
<1> QED
  BY <1>1, <1>2, <1>3 DEF WsInv, NewIsUntouched, Untouched, Followed, FanOutExact

\* A broadcast reaches, behind what is under way, exactly who is owed it.
LEMMA BroadcastKeeps ==
  ASSUME WsInv, NEW channels \in Seq(Channels), Broadcast(channels)
  PROVE  WsInv'
<1> DEFINE log == broadcasts
           long == broadcasts \o channels
           News(c) == {n \in DOMAIN long : n > Len(log) /\ c \in Receivers(long[n])}
<1>1. /\ broadcasts' = long /\ socket' = socket /\ subs' = subs /\ received' = received
      /\ since' = since /\ DOMAIN sending' = WsClients
      /\ \A c \in WsClients : sending'[c] = sending[c] \o EventsAt(long, News(c))
  BY DEF Broadcast
<1>2. log \in Seq(Channels) /\ long \in Seq(Channels) /\ Len(log) \in Nat /\ Len(log) <= Len(long)
      /\ Len(long) \in Nat
  BY DEF WsInv, WsTypeOK
<1>3. \A c \in WsClients : EventsAt(long, News(c)) \in Seq(Events)
  <2> TAKE c \in WsClients
  <2>1. News(c) \in SUBSET DOMAIN long
    OBVIOUS
  <2> HIDE DEF News, long
  <2> QED
    BY <1>2, <2>1, EventsAre
<1>4. WsTypeOK'
  <2>1. \A c \in WsClients : sending'[c] \in Seq(Events)
    <3> TAKE c \in WsClients
    <3> DEFINE new == EventsAt(long, News(c))
    <3>1. sending[c] \in Seq(Events) /\ new \in Seq(Events) /\ sending'[c] = sending[c] \o new
      BY <1>1, <1>3 DEF WsInv, WsTypeOK
    <3> HIDE DEF new
    <3> QED
      BY <3>1
  <2>2. \A c \in WsClients : \A ch \in DOMAIN since[c] : since[c][ch] \in 0 .. Len(long)
    <3>1. \A c \in WsClients : \A ch \in DOMAIN since[c] : since[c][ch] \in 0 .. Len(log)
      BY DEF WsInv, WsTypeOK
    <3> HIDE DEF long
    <3> QED
      BY <1>2, <3>1
  <2> HIDE DEF long
  <2> QED
    BY <1>1, <1>2, <2>1, <2>2 DEF WsInv, WsTypeOK, Registered
<1>5. NewIsUntouched'
  <2> SUFFICES ASSUME NEW c \in WsClients, socket[c] = "new"
               PROVE  sending'[c] = <<>>
    BY <1>1 DEF WsInv, NewIsUntouched, Untouched, Registered
  <2>1. News(c) = {}
    BY DEF WsInv, NewIsUntouched, Receivers
  <2>2. EventsAt(long, News(c)) = <<>>
    BY <1>2, <2>1, NoEvents
  <2>3. sending[c] = <<>>
    BY DEF WsInv, NewIsUntouched, Untouched
  <2> HIDE DEF News, long
  <2> QED
    BY <1>1, <2>2, <2>3
<1>6. Followed'
  BY <1>1 DEF WsInv, Followed, Registered
<1>7. ASSUME NEW c \in Registered, socket[c] = "open"
      PROVE  received[c] \o sending'[c] = EventsAt(long, Owed(long, since[c]))
  <2>1. c \in WsClients /\ DOMAIN since[c] = subs[c]
    BY <1>7 DEF WsInv, WsTypeOK, Followed
  <2>2. News(c) = {n \in DOMAIN long : n > Len(log) /\ Matches(long[n], DOMAIN since[c])}
    <3>1. \A n \in DOMAIN long : c \in Receivers(long[n]) <=> Matches(long[n], DOMAIN since[c])
      BY <1>7, <2>1 DEF Receivers
    <3> QED
      BY <3>1
  <2>3. Owed(long, since[c]) = Owed(log, since[c]) \cup News(c)
    <3>1. \A ch \in DOMAIN since[c] : since[c][ch] \in 0 .. Len(log)
      BY <2>1 DEF WsInv, WsTypeOK
    <3>2. channels \in Seq(Channels) /\ log \in Seq(Channels)
      BY <1>2
    <3>3. Owed(log \o channels, since[c]) = Owed(log, since[c]) \cup
            {n \in DOMAIN (log \o channels) :
               n > Len(log) /\ Matches((log \o channels)[n], DOMAIN since[c])}
      <4> HIDE DEF log
      <4> QED
        BY <3>1, <3>2, OwedGrows
    <3> HIDE DEF News
    <3> QED
      BY <2>2, <3>3
  <2> DEFINE low == Owed(log, since[c])
             high == News(c)
  <2>4. low \in SUBSET DOMAIN log /\ high \in SUBSET DOMAIN long /\ low \in SUBSET DOMAIN long
    <3>1. low \in SUBSET DOMAIN log /\ high \in SUBSET DOMAIN long
      BY DEF Owed
    <3>2. DOMAIN log \subseteq DOMAIN long
      <4> HIDE DEF long, log
      <4> QED
        BY <1>2
    <3> QED
      BY <3>1, <3>2
  <2>5. \A i \in low, j \in high : i < j
    <3>1. DOMAIN log = 1 .. Len(log) /\ DOMAIN long = 1 .. Len(long)
      <4> HIDE DEF long, log
      <4> QED
        BY <1>2
    <3>2. \A j \in high : j > Len(log)
      OBVIOUS
    <3> HIDE DEF low, high, long, log
    <3> QED
      BY <1>2, <2>4, <3>1, <3>2
  <2>6. EventsAt(long, low \cup high) = EventsAt(long, low) \o EventsAt(long, high)
    <3> HIDE DEF low, high, long
    <3> QED
      BY <1>2, <2>4, <2>5, EventsJoin
  <2>7. EventsAt(long, low) = EventsAt(log, low)
    <3> HIDE DEF low
    <3> QED
      BY <1>2, <2>4, EventsStay DEF WsInv, WsTypeOK
  <2>8. EventsAt(log, low) = received[c] \o sending[c]
    BY <1>7, DueIs DEF WsInv, FanOutExact
  <2>9. received[c] \in Seq(Events) /\ sending[c] \in Seq(Events) /\ EventsAt(long, high) \in Seq(Events)
    BY <1>3, <2>1 DEF WsInv, WsTypeOK
  <2>10. sending'[c] = sending[c] \o EventsAt(long, high)
    BY <1>1, <2>1
  <2>11. Owed(long, since[c]) = low \cup high
    BY <2>3
  <2> DEFINE r == received[c]
             s == sending[c]
             t == EventsAt(long, high)
  <2>12. r \o (s \o t) = (r \o s) \o t
    <3> HIDE DEF r, s, t
    <3>1. r \in Seq(Events) /\ s \in Seq(Events) /\ t \in Seq(Events)
      BY <2>9 DEF r, s, t
    <3> QED
      BY <3>1
  <2> HIDE DEF low, high, long
  <2> QED
    BY <2>6, <2>7, <2>8, <2>10, <2>11, <2>12
<1>8. FanOutExact'
  <2>1. \A c \in Registered : Due(c)' = EventsAt(long, Owed(long, since[c]))
    BY <1>1 DEF Due, Owed
  <2> HIDE DEF long
  <2> QED
    BY <1>1, <1>7, <2>1 DEF FanOutExact, Registered
<1> QED
  BY <1>4, <1>5, <1>6, <1>8 DEF WsInv
\* A connection opens with nothing left over.
LEMMA ConnectKeeps ==
  ASSUME WsInv, NEW c \in WsClients, Connect(c)
  PROVE  WsInv'
<1>1. /\ socket[c] = "new" /\ DOMAIN socket' = WsClients /\ socket'[c] = "open"
      /\ \A d \in WsClients : d # c => socket'[d] = socket[d]
      /\ sending' = sending /\ received' = received /\ broadcasts' = broadcasts /\ since' = since
  BY DEF Connect, WsInv, WsTypeOK
<1>2. /\ Registered' = Registered \cup {c} /\ c \notin Registered /\ subs'[c] = {}
      /\ \A d \in Registered : subs'[d] = subs[d] /\ d # c
  BY <1>1 DEF Connect, WsInv, NewIsUntouched, Registered
<1>3. WsTypeOK'
  <2>1. \A d \in WsClients : socket'[d] \in Sockets
    BY <1>1 DEF WsInv, WsTypeOK, Sockets
  <2> QED
    BY <1>1, <1>2, <2>1 DEF WsInv, WsTypeOK
<1>4. NewIsUntouched'
  BY <1>1, <1>2 DEF WsInv, NewIsUntouched, Untouched
<1>5. Untouched(c)
  BY <1>1 DEF WsInv, NewIsUntouched
<1>6. Followed'
  <2>1. DOMAIN since[c] = {}
    BY <1>5 DEF Untouched
  <2> QED
    BY <1>1, <1>2, <2>1 DEF WsInv, WsTypeOK, Followed
<1>7. FanOutExact'
  <2>1. \A d : Due(d)' = Due(d)
    BY <1>1 DEF Due
  <2>2. received[c] \o sending[c] = <<>>
    BY <1>5 DEF Untouched
  <2>3. Due(c) = <<>>
    BY <1>5, DueIs, NothingOwed, NoEvents DEF Untouched, WsInv, WsTypeOK
  <2> QED
    BY <1>1, <1>2, <2>1, <2>2, <2>3 DEF WsInv, WsTypeOK, FanOutExact
<1> QED
  BY <1>3, <1>4, <1>6, <1>7 DEF WsInv

\* What is asked for now is owed from now on, and nothing before.
LEMMA SubscribeKeeps ==
  ASSUME WsInv, NEW c \in WsClients, NEW channels, Subscribe(c, channels)
  PROVE  WsInv'
<1> DEFINE new == [ch \in DOMAIN since[c] \cup channels |->
                     IF ch \in DOMAIN since[c] THEN since[c][ch] ELSE Len(broadcasts)]
<1>1. /\ c \in Registered /\ socket[c] = "open" /\ subs' = [subs EXCEPT ![c] = subs[c] \cup channels]
      /\ DOMAIN since' = WsClients /\ since'[c] = new
      /\ \A d \in WsClients : d # c => since'[d] = since[d]
      /\ UNCHANGED <<socket, sending, received, broadcasts>>
  BY DEF Subscribe, Subscribed, WsInv, WsTypeOK
<1>2. /\ Registered' = Registered /\ subs'[c] = subs[c] \cup channels
      /\ \A d \in Registered : d # c => subs'[d] = subs[d]
  BY <1>1 DEF Registered
<1>3. Len(broadcasts) \in Nat
  BY DEF WsInv, WsTypeOK
<1>4. WsTypeOK'
  <2>1. \A ch \in DOMAIN new : new[ch] \in 0 .. Len(broadcasts)
    BY <1>3 DEF WsInv, WsTypeOK
  <2> HIDE DEF new
  <2>2. \A d \in WsClients : \A ch \in DOMAIN since'[d] : since'[d][ch] \in 0 .. Len(broadcasts)
    BY <1>1, <2>1 DEF WsInv, WsTypeOK
  <2> QED
    BY <1>1, <1>2, <2>2 DEF WsInv, WsTypeOK
<1>5. NewIsUntouched'
  <2> HIDE DEF new
  <2> QED
    BY <1>1, <1>2 DEF WsInv, NewIsUntouched, Untouched
<1>6. Followed'
  <2>1. DOMAIN new = subs[c] \cup channels
    BY <1>1 DEF WsInv, Followed
  <2> HIDE DEF new
  <2> QED
    BY <1>1, <1>2, <2>1 DEF WsInv, Followed, WsTypeOK
<1>7. FanOutExact'
  <2>1. \A n \in DOMAIN broadcasts :
          {ch \in DOMAIN new : new[ch] < n} = {ch \in DOMAIN since[c] : since[c][ch] < n}
    <3> TAKE n \in DOMAIN broadcasts
    <3>1. n \in Nat /\ ~(Len(broadcasts) < n)
      BY DEF WsInv, WsTypeOK
    <3> QED
      BY <3>1
  <2>2. Owed(broadcasts, new) = Owed(broadcasts, since[c])
    <3> HIDE DEF new
    <3> QED
      BY <2>1 DEF Owed
  <2>3. \A d \in Registered : Due(d)' = Due(d)
    <3> HIDE DEF new
    <3>1. \A d : Due(d)' = EventsAt(broadcasts, Owed(broadcasts, since'[d]))
      BY <1>1 DEF Due, Owed
    <3> QED
      BY <1>1, <2>2, <3>1, DueIs DEF WsInv, WsTypeOK
  <2> HIDE DEF new
  <2> QED
    BY <1>1, <1>2, <2>3 DEF WsInv, FanOutExact
<1> QED
  BY <1>4, <1>5, <1>6, <1>7 DEF WsInv

\* An event that is sent leaves the queue's front for the list's end.
LEMMA SendKeeps ==
  ASSUME WsInv, NEW c \in WsClients, RunSend(c)
  PROVE  WsInv'
<1> DEFINE s == sending[c]
           r == received[c]
<1>1. /\ s # <<>> /\ DOMAIN sending' = WsClients /\ DOMAIN received' = WsClients
      /\ sending'[c] = Tail(s) /\ received'[c] = Append(r, Head(s))
      /\ \A d \in WsClients : d # c => sending'[d] = sending[d] /\ received'[d] = received[d]
      /\ UNCHANGED <<socket, subs, broadcasts, since>>
  BY DEF RunSend, WsInv, WsTypeOK
<1>2. s \in Seq(Events) /\ r \in Seq(Events)
  BY DEF WsInv, WsTypeOK
<1> HIDE DEF s, r
<1>3. /\ Tail(s) \in Seq(Events) /\ Append(r, Head(s)) \in Seq(Events)
      /\ Append(r, Head(s)) \o Tail(s) = r \o s
  BY <1>1, <1>2
<1>4. WsTypeOK'
  BY <1>1, <1>3 DEF WsInv, WsTypeOK, Registered
<1>5. NewIsUntouched'
  <2>1. socket[c] # "new"
    BY <1>1 DEF WsInv, NewIsUntouched, Untouched, s
  <2> QED
    BY <1>1, <2>1 DEF WsInv, NewIsUntouched, Untouched, Registered
<1>6. Followed'
  BY <1>1 DEF WsInv, Followed, Registered
<1>7. FanOutExact'
  <2>1. \A d : Due(d)' = Due(d)
    BY <1>1 DEF Due
  <2>2. Registered' = Registered /\ Registered \subseteq WsClients
    BY <1>1 DEF Registered, WsInv, WsTypeOK
  <2>3. \A d \in WsClients : received'[d] \o sending'[d] = received[d] \o sending[d]
    BY <1>1, <1>3 DEF r, s
  <2> QED
    BY <1>1, <2>1, <2>2, <2>3 DEF WsInv, FanOutExact
<1> QED
  BY <1>4, <1>5, <1>6, <1>7 DEF WsInv

\* What is closed is owed nothing and does not open again.
LEMMA GoneKeeps ==
  ASSUME WsInv, NEW c \in WsClients, Closed(c), NEW gone \in SUBSET {c},
         Registered' = Registered \ gone, \A d \in Registered' : subs'[d] = subs[d]
  PROVE  WsInv'
<1>1. /\ DOMAIN socket' = WsClients /\ socket'[c] = "closed"
      /\ DOMAIN sending' = WsClients /\ DOMAIN received' = WsClients /\ DOMAIN since' = WsClients
      /\ sending'[c] = <<>> /\ received'[c] = <<>> /\ since'[c] = <<>> /\ broadcasts' = broadcasts
      /\ \A d \in WsClients : d # c => /\ socket'[d] = socket[d] /\ sending'[d] = sending[d]
                                       /\ received'[d] = received[d] /\ since'[d] = since[d]
  BY DEF Closed, WsInv, WsTypeOK
<1>2. WsTypeOK'
  <2>1. \A d \in WsClients : socket'[d] \in Sockets
    BY <1>1 DEF WsInv, WsTypeOK, Sockets
  <2>2. \A d \in WsClients : sending'[d] \in Seq(Events) /\ received'[d] \in Seq(Events)
    <3>1. <<>> \in Seq(Events)
      OBVIOUS
    <3> QED
      BY <1>1, <3>1 DEF WsInv, WsTypeOK
  <2>3. \A d \in WsClients : \A ch \in DOMAIN since'[d] : since'[d][ch] \in 0 .. Len(broadcasts)
    <3>1. DOMAIN since'[c] = {}
      BY <1>1
    <3> QED
      BY <1>1, <3>1 DEF WsInv, WsTypeOK
  <2> QED
    BY <1>1, <2>1, <2>2, <2>3 DEF WsInv, WsTypeOK
<1>3. NewIsUntouched'
  BY <1>1 DEF WsInv, NewIsUntouched, Untouched
<1>4. Followed'
  BY <1>1 DEF WsInv, WsTypeOK, Followed
<1>5. FanOutExact'
  <2>1. \A d \in WsClients : d # c => Due(d)' = Due(d)
    BY <1>1 DEF Due
  <2> QED
    BY <1>1, <2>1 DEF WsInv, WsTypeOK, FanOutExact
<1> QED
  BY <1>2, <1>3, <1>4, <1>5 DEF WsInv

LEMMA FanStep == WsInv /\ [WsNext]_wsVars => WsInv'
<1> SUFFICES ASSUME WsInv, [WsNext]_wsVars PROVE WsInv'
  OBVIOUS
<1>1. ASSUME NEW channels \in Seq(Channels), Broadcast(channels) PROVE WsInv'
  BY <1>1, BroadcastKeeps
<1>2. ASSUME NEW c \in WsClients, Connect(c) PROVE WsInv'
  BY <1>2, ConnectKeeps
<1>3. ASSUME NEW c \in WsClients, RunSend(c) PROVE WsInv'
  BY <1>3, SendKeeps
<1>4. ASSUME NEW c \in WsClients, Leave(c) PROVE WsInv'
  <2>1. Closed(c) /\ subs' = subs
    BY <1>4 DEF Leave
  <2>2. Registered' = Registered \ {} /\ {} \in SUBSET {c}
    BY <2>1 DEF Registered
  <2> QED
    BY <2>1, <2>2, GoneKeeps
<1>5. ASSUME NEW c \in WsClients, Unregister(c) PROVE WsInv'
  <2>1. Closed(c) /\ Registered' = Registered \ {c} /\ \A d \in Registered' : subs'[d] = subs[d]
    BY <1>5 DEF Unregister, Registered
  <2> QED
    BY <2>1, GoneKeeps
<1>6. ASSUME NEW c \in WsClients, NEW channels \in Subscriptions, Subscribe(c, channels)
      PROVE  WsInv'
  BY <1>6, SubscribeKeeps
<1>7. CASE UNCHANGED wsVars
  <2>1. \A d : Due(d)' = Due(d)
    BY <1>7 DEF wsVars, Due
  <2>2. UNCHANGED <<socket, subs, sending, received, broadcasts, since>>
    BY <1>7 DEF wsVars
  <2>3. WsTypeOK' /\ NewIsUntouched' /\ Followed'
    BY <2>2 DEF WsInv, WsTypeOK, NewIsUntouched, Untouched, Followed, Registered
  <2> QED
    BY <2>1, <2>2, <2>3 DEF WsInv, FanOutExact, Registered
<1> QED
  BY <1>1, <1>2, <1>3, <1>4, <1>5, <1>6, <1>7 DEF WsNext, WsStep

\* Connections change by the endpoint's steps and by broadcasts of the
\* runtime's channels, and by nothing else.
LEMMA StepOfFanOut == [ConsoleNext]_vars => [WsNext]_wsVars
<1> SUFFICES ASSUME [ConsoleNext]_vars PROVE [WsNext]_wsVars
  OBVIOUS
<1>1. ASSUME NEW before \in Seq(Channels), EmitAlert(before) PROVE WsNext
  <2>1. Append(before, Alerts) \in Seq(Channels)
    BY DEF Channels
  <2> QED
    BY <1>1, <2>1 DEF EmitAlert, WsNext
<1>2. ASSUME NEW scope, NEW level, NEW cause, TripAndTell(scope, level, cause)
      PROVE  [WsNext]_wsVars
  <2>1. <<Risk>> \in Seq(Channels)
    BY DEF Channels
  <2> QED
    BY <1>1, <1>2, <2>1 DEF TripAndTell
<1>3. ASSUME NEW client \in Clients, Request(client) PROVE [WsNext]_wsVars
  <2>1. CASE KillSwitchRoutes
    BY <1>2, <2>1 DEF KillSwitchRoutes
  <2>2. CASE UNCHANGED wsVars
    BY <2>2
  <2> QED
    BY <1>3, <2>1, <2>2 DEF Request, Handled, AlertRoutes
<1>4. ASSUME NEW scope \in Scopes, MonitorTrips(scope) PROVE [WsNext]_wsVars
  BY <1>2, <1>4 DEF MonitorTrips
<1>5. ASSUME NEW scope \in Scopes, MonitorClears(scope) PROVE [WsNext]_wsVars
  <2>1. <<>> \in Seq(Channels)
    OBVIOUS
  <2> QED
    BY <1>1, <1>5, <2>1 DEF MonitorClears
<1>6. ASSUME NEW channel \in OtherChannels, BroadcastOther(channel) PROVE WsNext
  <2>1. <<channel>> \in Seq(Channels)
    BY DEF Channels
  <2> QED
    BY <1>6, <2>1 DEF BroadcastOther, WsNext
<1>7. CASE WsStep
  BY <1>7 DEF WsNext
<1>8. CASE Tick /\ UNCHANGED <<switches, wsVars, notifyVars>>
  BY <1>8
<1>9. ASSUME NEW alert \in Emitted, Deliver(alert) PROVE UNCHANGED wsVars
  BY <1>9 DEF Deliver
<1>10. CASE UNCHANGED vars
  BY <1>10 DEF vars
<1> QED
  BY <1>3, <1>4, <1>5, <1>6, <1>7, <1>8, <1>9, <1>10 DEF ConsoleNext

\* Whatever connects, subscribes, goes away and is broadcast, and however
\* late the send tasks run, an open connection gets every event of its
\* channels since it asked for them, once and in order.
THEOREM FanOutIsExact == ConsoleSpec => []FanOutExact
<1>1. ConsoleInit => WsInit
  BY DEF ConsoleInit
<1>2. WsInv => FanOutExact
  BY DEF WsInv
<1> QED
  BY <1>1, <1>2, WsInitial, FanStep, StepOfFanOut, PTL DEF ConsoleSpec

-----------------------------------------------------------------------------
(* Numbers in pages *)

\* What passes to each number from all that are below it holds of all.
LEMMA UpFromBelow ==
  ASSUME NEW a \in Int, NEW b \in Int, NEW S,
         \A x \in a .. b : (\A y \in a .. b : y < x => y \in S) => x \in S
  PROVE  a .. b \subseteq S
<1> DEFINE C == (a .. b) \ S
<1>1. SUFFICES ASSUME C # {} PROVE FALSE
  OBVIOUS
<1>2. PICK x \in C : \A y \in C : x <= y
  <2>1. C \subseteq Int /\ \A y \in C : a <= y
    OBVIOUS
  <2> HIDE DEF C
  <2> QED
    BY <1>1, <2>1, LeastOf
<1>3. \A y \in a .. b : y < x => y \notin C
  BY <1>2
<1> QED
  BY <1>2, <1>3

\* Or from all that are above it.
LEMMA DownFromAbove ==
  ASSUME NEW a \in Int, NEW b \in Int, NEW S,
         \A x \in a .. b : (\A y \in a .. b : y > x => y \in S) => x \in S
  PROVE  a .. b \subseteq S
<1> DEFINE R == {x \in -b .. -a : -x \in S}
<1>1. -b .. -a \subseteq R
  <2>1. ASSUME NEW x \in -b .. -a, \A y \in -b .. -a : y < x => y \in R PROVE x \in R
    <3>1. ASSUME NEW y \in a .. b, y > -x PROVE y \in S
      <4>1. -y \in -b .. -a /\ -y < x /\ -(-y) = y
        BY <3>1
      <4> QED
        BY <2>1, <4>1
    <3>2. -x \in a .. b
      OBVIOUS
    <3> QED
      BY <3>1, <3>2
  <2>2. -b \in Int /\ -a \in Int
    OBVIOUS
  <2> HIDE DEF R
  <2> QED
    BY <2>1, <2>2, UpFromBelow
<1>2. ASSUME NEW x \in a .. b PROVE x \in S
  <2>1. -x \in -b .. -a /\ -(-x) = x
    OBVIOUS
  <2> QED
    BY <1>1, <2>1
<1> QED
  BY <1>2

\* The bars from a to b.
Span(a, b) == [k \in 1 .. b - a + 1 |-> a + k - 1]

LEMMA SpanIsSeq ==
  ASSUME NEW a \in Int, NEW b \in Int
  PROVE  /\ Span(a, b) \in Seq(a .. b) /\ Span(a, b) \in Seq(Int)
         /\ Len(Span(a, b)) = IF a <= b THEN b - a + 1 ELSE 0
         /\ \A k \in 1 .. b - a + 1 : Span(a, b)[k] = a + k - 1
<1> DEFINE n == IF a <= b THEN b - a + 1 ELSE 0
<1>1. n \in Nat /\ 1 .. b - a + 1 = 1 .. n
  OBVIOUS
<1>2. Span(a, b) = [k \in 1 .. n |-> a + k - 1]
  BY <1>1 DEF Span
<1>3. \A k \in 1 .. n : a + k - 1 \in a .. b
  OBVIOUS
<1> HIDE DEF n
<1>4. Span(a, b) \in Seq(a .. b) /\ Len(Span(a, b)) = n
  BY <1>1, <1>2, <1>3, IsASeq
<1>5. Span(a, b) \in Seq(Int)
  <2>1. a .. b \subseteq Int
    OBVIOUS
  <2> QED
    BY <1>4, <2>1, SeqMonotonic
<1> QED
  BY <1>1, <1>2, <1>4, <1>5 DEF n

LEMMA SpanIsSorted ==
  ASSUME NEW a \in Int, NEW b \in Int
  PROVE  Sorted[Span(a, b)] = Span(a, b)
<1>1. Span(a, b) \in Seq(Int)
  BY SpanIsSeq
<1>2. \A j, k \in DOMAIN Span(a, b) : j < k => Span(a, b)[j] < Span(a, b)[k]
  BY DEF Span
<1> QED
  BY <1>1, <1>2, SortedOfAscending

LEMMA SpansJoin ==
  ASSUME NEW a \in Int, NEW m \in Int, NEW b \in Int, a <= m, m <= b + 1
  PROVE  Span(a, m - 1) \o Span(m, b) = Span(a, b)
<1>1. InOrder((a .. m - 1) \cup (m .. b)) = InOrder(a .. m - 1) \o InOrder(m .. b)
  <2>1. \A i \in a .. m - 1, j \in m .. b : i < j
    OBVIOUS
  <2>2. IsFiniteSet(a .. m - 1) /\ IsFiniteSet(m .. b)
    BY FS_Interval
  <2>3. a .. m - 1 \in SUBSET Int /\ m .. b \in SUBSET Int
    OBVIOUS
  <2> QED
    BY <2>1, <2>2, <2>3, OrderJoins
<1>2. (a .. m - 1) \cup (m .. b) = a .. b
  OBVIOUS
<1>3. InOrder(a .. b) = Span(a, b) /\ InOrder(m .. b) = Span(m, b)
  BY OrderOfRun DEF Span
<1>4. InOrder(a .. m - 1) = Span(a, m - 1)
  <2>1. m - 1 \in Int
    OBVIOUS
  <2> QED
    BY <2>1, OrderOfRun DEF Span
<1> QED
  BY <1>1, <1>2, <1>3, <1>4

LEMMA MaxOfTwo ==
  ASSUME NEW a \in Int, NEW b \in Int
  PROVE  Max({a, b}) = IF a >= b THEN a ELSE b
<1> DEFINE m == IF a >= b THEN a ELSE b
<1>1. m \in {a, b} /\ \A y \in {a, b} : m >= y
  OBVIOUS
<1>2. \A x \in {a, b} : (\A y \in {a, b} : x >= y) => x = m
  OBVIOUS
<1> HIDE DEF m
<1> QED
  BY <1>1, <1>2 DEF Max, m

LEMMA MinOfTwo ==
  ASSUME NEW a \in Int, NEW b \in Int
  PROVE  Min({a, b}) = IF a <= b THEN a ELSE b
<1> DEFINE m == IF a <= b THEN a ELSE b
<1>1. m \in {a, b} /\ \A y \in {a, b} : m <= y
  OBVIOUS
<1>2. \A x \in {a, b} : (\A y \in {a, b} : x <= y) => x = m
  OBVIOUS
<1> HIDE DEF m
<1> QED
  BY <1>1, <1>2 DEF Min, m

FirstBar(start) == Max({1, (start + BarTicks - 1) \div BarTicks})
FinalBar(end) == Min({MaxBar, end \div BarTicks})

LEMMA FirstBarIs ==
  ASSUME NEW start \in Nat
  PROVE  /\ FirstBar(start) \in Nat \ {0}
         /\ 2 * FirstBar(start) >= start
         /\ FirstBar(start) = 1 \/ 2 * FirstBar(start) <= start + 1
<1> DEFINE q == (start + 1) \div 2
<1>1. q \in Int /\ 2 * q <= start + 1 /\ start <= 2 * q
  OBVIOUS
<1>2. FirstBar(start) = Max({1, q})
  BY DEF FirstBar, BarTicks
<1> HIDE DEF q
<1> QED
  BY <1>1, <1>2, MaxOfTwo

LEMMA FinalBarIs ==
  ASSUME NEW end \in Nat
  PROVE  /\ FinalBar(end) \in Nat
         /\ FinalBar(end) <= MaxBar /\ 2 * FinalBar(end) <= end
         /\ FinalBar(end) = MaxBar \/ 2 * FinalBar(end) >= end - 1
<1> DEFINE q == end \div 2
<1>1. q \in Nat /\ 2 * q <= end /\ end <= 2 * q + 1
  OBVIOUS
<1>2. FinalBar(end) = Min({MaxBar, q})
  BY DEF FinalBar, BarTicks
<1>3. MaxBar \in Nat
  BY PagingAssumption
<1> HIDE DEF q
<1> QED
  BY <1>1, <1>2, <1>3, MinOfTwo

LEMMA BarsInIs ==
  ASSUME NEW start \in Nat, NEW end \in Nat
  PROVE  BarsIn(start, end) = Span(FirstBar(start), FinalBar(end))
  BY DEF BarsIn, Span, FirstBar, FinalBar
\* The newest page of a span is its end, the oldest its beginning.
LEMMA NewestPageIs ==
  ASSUME NEW a \in Int, NEW b \in Int
  PROVE  NewestPage(Span(a, b)) = IF PageSize <= b - a + 1 THEN Span(b - PageSize + 1, b)
                                  ELSE Span(a, b)
<1> DEFINE s == Span(a, b)
           n == Len(s)
           m == Max({1, n - PageSize + 1})
<1>1. PageSize \in Nat \ {0, 1}
  BY PagingAssumption
<1>2. /\ s \in Seq(Int) /\ n = IF a <= b THEN b - a + 1 ELSE 0
      /\ \A k \in 1 .. b - a + 1 : s[k] = a + k - 1
  BY SpanIsSeq
<1>3. n \in Nat /\ m = IF 1 >= n - PageSize + 1 THEN 1 ELSE n - PageSize + 1
  <2>1. n \in Nat
    BY <1>2, LenProperties
  <2> HIDE DEF n
  <2>2. n - PageSize + 1 \in Int /\ 1 \in Int
    BY <1>1, <2>1
  <2> QED
    BY <2>1, <2>2, MaxOfTwo
<1>4. NewestPage(s) = SubSeq(s, m, n)
  BY DEF NewestPage
<1> HIDE DEF s, n, m
<1>5. CASE PageSize <= b - a + 1
  <2> DEFINE t == Span(b - PageSize + 1, b)
  <2>1. n = b - a + 1 /\ m = n - PageSize + 1 /\ m \in 1 .. n
    BY <1>1, <1>2, <1>3, <1>5
  <2>2. /\ SubSeq(s, m, n) \in Seq(Int) /\ Len(SubSeq(s, m, n)) = PageSize
        /\ \A k \in 1 .. PageSize : SubSeq(s, m, n)[k] = s[m + k - 1]
    <3>1. m \in 1 .. n + 1 /\ n \in m - 1 .. n /\ n - m + 1 = PageSize
      BY <1>1, <1>3, <2>1
    <3> QED
      BY <1>1, <1>2, <3>1, SubSeqProperties DEF n
  <2>3. /\ t \in Seq(Int) /\ Len(t) = PageSize
        /\ \A k \in 1 .. PageSize : t[k] = b - PageSize + 1 + k - 1
    <3>1. b - PageSize + 1 \in Int /\ b - (b - PageSize + 1) + 1 = PageSize /\ b - PageSize + 1 <= b
      BY <1>1
    <3> QED
      BY <3>1, SpanIsSeq
  <2> HIDE DEF t
  <2>4. ASSUME NEW k \in 1 .. PageSize PROVE SubSeq(s, m, n)[k] = t[k]
    <3>1. m + k - 1 \in 1 .. b - a + 1 /\ a + (m + k - 1) - 1 = b - PageSize + 1 + k - 1
      BY <1>1, <1>3, <2>1
    <3> QED
      BY <1>2, <2>2, <2>3, <3>1
  <2>5. SubSeq(s, m, n) = t
    BY <2>2, <2>3, <2>4, SeqEqual
  <2> QED
    BY <1>4, <1>5, <2>5 DEF s, t
<1>6. CASE ~(PageSize <= b - a + 1)
  <2>1. m = 1
    BY <1>1, <1>2, <1>3, <1>6
  <2>2. SubSeq(s, 1, n) = s
    BY <1>2, SubSeqFull DEF n
  <2> QED
    BY <1>4, <1>6, <2>1, <2>2 DEF s
<1> QED
  BY <1>5, <1>6

LEMMA OldestPageIs ==
  ASSUME NEW a \in Int, NEW b \in Int
  PROVE  OldestPage(Span(a, b)) = IF PageSize <= b - a + 1 THEN Span(a, a + PageSize - 1)
                                  ELSE Span(a, b)
<1> DEFINE s == Span(a, b)
           n == Len(s)
           m == Min({PageSize, n})
<1>1. PageSize \in Nat \ {0, 1}
  BY PagingAssumption
<1>2. /\ s \in Seq(Int) /\ n = IF a <= b THEN b - a + 1 ELSE 0
      /\ \A k \in 1 .. b - a + 1 : s[k] = a + k - 1
  BY SpanIsSeq
<1>3. n \in Nat /\ m = IF PageSize <= n THEN PageSize ELSE n
  <2>1. n \in Nat
    BY <1>2, LenProperties
  <2> HIDE DEF n
  <2> QED
    BY <1>1, <2>1, MinOfTwo
<1>4. OldestPage(s) = SubSeq(s, 1, m)
  BY DEF OldestPage
<1> HIDE DEF s, n, m
<1>5. CASE PageSize <= b - a + 1
  <2> DEFINE t == Span(a, a + PageSize - 1)
  <2>1. n = b - a + 1 /\ m = PageSize /\ m \in 1 .. n
    BY <1>1, <1>2, <1>3, <1>5
  <2>2. /\ SubSeq(s, 1, m) \in Seq(Int) /\ Len(SubSeq(s, 1, m)) = PageSize
        /\ \A k \in 1 .. PageSize : SubSeq(s, 1, m)[k] = s[1 + k - 1]
    <3>1. 1 \in 1 .. n + 1 /\ m \in 1 - 1 .. n /\ m - 1 + 1 = PageSize
      BY <1>1, <1>3, <2>1
    <3> QED
      BY <1>1, <1>2, <3>1, SubSeqProperties DEF n
  <2>3. /\ t \in Seq(Int) /\ Len(t) = PageSize
        /\ \A k \in 1 .. PageSize : t[k] = a + k - 1
    <3>1. a + PageSize - 1 \in Int /\ (a + PageSize - 1) - a + 1 = PageSize /\ a <= a + PageSize - 1
      BY <1>1
    <3> QED
      BY <3>1, SpanIsSeq
  <2> HIDE DEF t
  <2>4. ASSUME NEW k \in 1 .. PageSize PROVE SubSeq(s, 1, m)[k] = t[k]
    <3>1. 1 + k - 1 = k /\ k \in 1 .. b - a + 1
      BY <1>1, <1>3, <1>5
    <3> QED
      BY <1>2, <2>2, <2>3, <3>1
  <2>5. SubSeq(s, 1, m) = t
    BY <2>2, <2>3, <2>4, SeqEqual
  <2> QED
    BY <1>4, <1>5, <2>1, <2>5 DEF s, t
<1>6. CASE ~(PageSize <= b - a + 1)
  <2>1. m = n
    BY <1>1, <1>2, <1>3, <1>6
  <2>2. SubSeq(s, 1, n) = s
    BY <1>2, SubSeqFull DEF n
  <2> QED
    BY <1>4, <1>6, <2>1, <2>2 DEF s
<1> QED
  BY <1>5, <1>6

\* One page of the backward loop, when the earlier ones are answered.
LEMMA BackwardStep ==
  ASSUME NEW start \in Nat, NEW end \in Nat, NEW g, NEW c \in 0 .. end,
         \A d \in 0 .. end :
           d < c => g[d] = IF d <= start THEN << >> ELSE Span(FirstBar(start), FinalBar(d))
  PROVE  (LET batch == NewestPage(BarsIn(start, c))
          IN IF c <= start \/ batch = << >> THEN << >>
             ELSE IF OpenTime(batch[1]) <= start \/ Len(batch) < PageSize THEN batch
             ELSE g[EndBefore(batch[1])] \o batch)
         = IF c <= start THEN << >> ELSE Span(FirstBar(start), FinalBar(c))
<1> DEFINE f == FirstBar(start)
           l == FinalBar(c)
           batch == NewestPage(BarsIn(start, c))
<1>1. CASE c <= start
  BY <1>1
<1>2. CASE ~(c <= start)
  <2>1. batch = IF PageSize <= l - f + 1 THEN Span(l - PageSize + 1, l) ELSE Span(f, l)
    <3>1. f \in Int /\ l \in Int
      BY FirstBarIs, FinalBarIs
    <3>2. BarsIn(start, c) = Span(f, l)
      BY BarsInIs
    <3> HIDE DEF f, l
    <3> QED
      BY <3>1, <3>2, NewestPageIs
  <2>2. f \in Nat \ {0} /\ 2 * f >= start /\ (f = 1 \/ 2 * f <= start + 1)
    BY FirstBarIs
  <2>3. l \in Nat /\ l <= MaxBar /\ 2 * l <= c
    <3>1. c \in Nat
      OBVIOUS
    <3> QED
      BY <3>1, FinalBarIs
  <2>4. PageSize \in Nat \ {0, 1} /\ MaxBar \in Nat
    BY PagingAssumption
  <2> HIDE DEF f, l, batch
  <2>5. SUFFICES (IF c <= start \/ batch = << >> THEN << >>
                  ELSE IF OpenTime(batch[1]) <= start \/ Len(batch) < PageSize THEN batch
                  ELSE g[EndBefore(batch[1])] \o batch) = Span(f, l)
    BY <1>2 DEF batch, f, l
  <2>6. CASE l < f
    <3>1. batch = Span(f, l) /\ Len(batch) = 0 /\ batch \in Seq(Int)
      BY <2>1, <2>2, <2>3, <2>4, <2>6, SpanIsSeq
    <3>2. batch = << >>
      BY <3>1
    <3> QED
      BY <3>1, <3>2
  <2>7. CASE f <= l /\ l - f + 1 < PageSize
    <3>1. batch = Span(f, l)
      BY <2>1, <2>2, <2>3, <2>4, <2>7
    <3>2. f \in Int /\ l \in Int
      BY <2>2, <2>3
    <3>3. Len(batch) = l - f + 1 /\ batch \in Seq(Int)
      BY <2>7, <3>1, <3>2, SpanIsSeq
    <3>4. batch # << >> /\ Len(batch) < PageSize
      BY <2>2, <2>3, <2>7, <3>3
    <3> QED
      BY <1>2, <3>1, <3>4
  <2>8. CASE PageSize <= l - f + 1
    <3> DEFINE m == l - PageSize + 1
    <3>1. m \in Int /\ f <= m /\ m <= l /\ m >= 1 /\ m < MaxBar
      BY <2>2, <2>3, <2>4, <2>8
    <3>2. /\ batch = Span(m, l) /\ Len(batch) = PageSize /\ batch \in Seq(Int)
          /\ batch[1] = m
      <4>1. batch = Span(m, l)
        BY <2>1, <2>8
      <4>2. l - m + 1 = PageSize /\ 1 \in 1 .. l - m + 1 /\ m + 1 - 1 = m /\ l \in Int
        BY <2>3, <2>4, <3>1
      <4> HIDE DEF m
      <4>3. /\ Len(Span(m, l)) = PageSize /\ Span(m, l) \in Seq(Int)
            /\ \A k \in 1 .. l - m + 1 : Span(m, l)[k] = m + k - 1
        BY <3>1, <4>2, SpanIsSeq
      <4> QED
        BY <4>1, <4>2, <4>3
    <3> HIDE DEF m
    <3>3. batch # << >> /\ ~(Len(batch) < PageSize) /\ OpenTime(batch[1]) = 2 * m
          /\ EndBefore(batch[1]) = 2 * m - 1
      BY <2>4, <3>2 DEF OpenTime, BarTicks, EndBefore
    <3>4. CASE 2 * m <= start
      <4>1. m = f
        BY <2>2, <3>1, <3>4
      <4> QED
        BY <1>2, <3>2, <3>3, <3>4, <4>1
    <3>5. CASE ~(2 * m <= start)
      <4>1. 2 * m - 1 \in 0 .. end /\ 2 * m - 1 < c /\ 2 * m - 1 \in Nat
        BY <2>3, <3>1
      <4>2. g[2 * m - 1] = IF 2 * m - 1 <= start THEN << >> ELSE Span(f, FinalBar(2 * m - 1))
        BY <4>1 DEF f
      <4>3. g[2 * m - 1] \o Span(m, l) = Span(f, l)
        <5>1. CASE 2 * m - 1 <= start
          <6>1. m = f
            BY <2>2, <3>1, <3>5, <5>1
          <6>2. g[2 * m - 1] = << >>
            BY <4>2, <5>1
          <6> QED
            BY <3>2, <6>1, <6>2, ConcatEmptySeq
        <5>2. CASE ~(2 * m - 1 <= start)
          <6> DEFINE w == FinalBar(2 * m - 1)
          <6>1. w \in Nat /\ 2 * w <= 2 * m - 1 /\ (w = MaxBar \/ 2 * w >= 2 * m - 1 - 1)
            BY <4>1, FinalBarIs
          <6> HIDE DEF w
          <6>2. w = m - 1
            BY <2>4, <3>1, <6>1
          <6>3. g[2 * m - 1] = Span(f, m - 1)
            BY <4>2, <5>2, <6>2 DEF w
          <6>4. f \in Int /\ l \in Int /\ m <= l + 1
            BY <2>2, <2>3, <3>1
          <6> QED
            BY <3>1, <6>3, <6>4, SpansJoin
        <5> QED
          BY <5>1, <5>2
      <4> QED
        BY <1>2, <3>2, <3>3, <3>5, <4>3
    <3> QED
      BY <3>4, <3>5
  <2>9. l < f \/ (f <= l /\ l - f + 1 < PageSize) \/ PageSize <= l - f + 1
    BY <2>2, <2>3, <2>4
  <2> QED
    BY <2>6, <2>7, <2>8, <2>9
<1> QED
  BY <1>1, <1>2

\* However many pages there are, they are the bars of the range in order.
LEMMA BackwardRowsAre ==
  ASSUME NEW start \in Nat, NEW end \in Nat, start < end
  PROVE  BackwardRows(start, end) = Span(FirstBar(start), FinalBar(end))
<1> DEFINE Rows(g, c) ==
             LET batch == NewestPage(BarsIn(start, c))
             IN IF c <= start \/ batch = << >> THEN << >>
                ELSE IF OpenTime(batch[1]) <= start \/ Len(batch) < PageSize THEN batch
                ELSE g[EndBefore(batch[1])] \o batch
           closed == [c \in 0 .. end |->
                        IF c <= start THEN << >> ELSE Span(FirstBar(start), FinalBar(c))]
           rows == CHOOSE g : g = [c \in 0 .. end |-> Rows(g, c)]
<1>1. ASSUME NEW g, NEW c \in 0 .. end, \A d \in 0 .. end : d < c => g[d] = closed[d]
      PROVE  Rows(g, c) = closed[c]
  <2>1. \A d \in 0 .. end :
          d < c => g[d] = IF d <= start THEN << >> ELSE Span(FirstBar(start), FinalBar(d))
    BY <1>1
  <2> HIDE DEF Rows
  <2>2. Rows(g, c) = IF c <= start THEN << >> ELSE Span(FirstBar(start), FinalBar(c))
    BY <2>1, BackwardStep DEF Rows
  <2> QED
    BY <2>2
<1> HIDE DEF Rows
<1>2. closed = [c \in 0 .. end |-> Rows(closed, c)]
  <2>1. \A c \in 0 .. end : Rows(closed, c) = closed[c]
    BY <1>1
  <2>2. closed = [c \in 0 .. end |-> closed[c]]
    OBVIOUS
  <2> HIDE DEF closed
  <2> QED
    BY <2>1, <2>2
<1>3. rows = [c \in 0 .. end |-> Rows(rows, c)]
  <2> HIDE DEF closed
  <2> QED
    BY <1>2
<1>4. BackwardRows(start, end) = Sorted[rows[end]]
  BY DEF BackwardRows, Rows
<1> HIDE DEF rows
<1>5. rows = closed
  <2>1. rows = [c \in 0 .. end |-> rows[c]]
    BY <1>3
  <2>2. closed = [c \in 0 .. end |-> closed[c]]
    OBVIOUS
  <2> DEFINE S == {c \in 0 .. end : rows[c] = closed[c]}
  <2>3. ASSUME NEW c \in 0 .. end, \A d \in 0 .. end : d < c => d \in S
        PROVE  c \in S
    <3>1. rows[c] = Rows(rows, c)
      BY <1>3
    <3>2. \A d \in 0 .. end : d < c => rows[d] = closed[d]
      BY <2>3
    <3> HIDE DEF closed
    <3> QED
      BY <1>1, <3>1, <3>2
  <2>4. 0 .. end \subseteq S
    <3>1. 0 \in Int /\ end \in Int
      OBVIOUS
    <3> HIDE DEF S
    <3> QED
      BY <2>3, <3>1, UpFromBelow
  <2> HIDE DEF closed
  <2> QED
    BY <2>1, <2>2, <2>4
<1>6. rows[end] = Span(FirstBar(start), FinalBar(end))
  BY <1>5
<1>7. FirstBar(start) \in Int /\ FinalBar(end) \in Int
  BY FirstBarIs, FinalBarIs
<1>8. Sorted[Span(FirstBar(start), FinalBar(end))] = Span(FirstBar(start), FinalBar(end))
  BY <1>7, SpanIsSorted
<1> QED
  BY <1>4, <1>6, <1>8

\* One page of the forward loop, when the later ones are answered.
LEMMA ForwardStep ==
  ASSUME NEW end \in Nat, NEW g, NEW c \in 0 .. end + 1,
         \A d \in 0 .. end + 1 :
           d > c => g[d] = IF d >= end THEN << >> ELSE Span(FirstBar(d), FinalBar(end))
  PROVE  (LET batch == OldestPage(BarsIn(c, end))
          IN IF c >= end \/ batch = << >> THEN << >>
             ELSE IF Len(batch) < PageSize \/ OpenTime(Last(batch)) <= c THEN batch
             ELSE batch \o g[StartAfter(Last(batch))])
         = IF c >= end THEN << >> ELSE Span(FirstBar(c), FinalBar(end))
<1> DEFINE f == FirstBar(c)
           l == FinalBar(end)
           batch == OldestPage(BarsIn(c, end))
<1>1. CASE c >= end
  BY <1>1
<1>2. CASE ~(c >= end)
  <2>0. c \in Nat
    OBVIOUS
  <2>1. batch = IF PageSize <= l - f + 1 THEN Span(f, f + PageSize - 1) ELSE Span(f, l)
    <3>0. f \in Nat /\ l \in Nat
      <4>1. f \in Nat
        BY <2>0, FirstBarIs
      <4>2. l \in Nat
        BY FinalBarIs
      <4> QED
        BY <4>1, <4>2
    <3>1. f \in Int /\ l \in Int
      <4> HIDE DEF f, l
      <4> QED
        BY <3>0
    <3>2. BarsIn(c, end) = Span(f, l)
      BY <2>0, BarsInIs
    <3> HIDE DEF f, l
    <3> QED
      BY <3>1, <3>2, OldestPageIs
  <2>2. f \in Nat \ {0} /\ 2 * f >= c /\ (f = 1 \/ 2 * f <= c + 1)
    BY <2>0, FirstBarIs
  <2>3. l \in Nat /\ l <= MaxBar /\ 2 * l <= end
    BY FinalBarIs
  <2>4. PageSize \in Nat \ {0, 1} /\ MaxBar \in Nat
    BY PagingAssumption
  <2> HIDE DEF f, l, batch
  <2>5. SUFFICES (IF c >= end \/ batch = << >> THEN << >>
                  ELSE IF Len(batch) < PageSize \/ OpenTime(Last(batch)) <= c THEN batch
                  ELSE batch \o g[StartAfter(Last(batch))]) = Span(f, l)
    BY <1>2 DEF batch, f, l
  <2>6. CASE l < f
    <3>1. batch = Span(f, l) /\ Len(batch) = 0 /\ batch \in Seq(Int)
      BY <2>1, <2>2, <2>3, <2>4, <2>6, SpanIsSeq
    <3>2. batch = << >>
      BY <3>1
    <3> QED
      BY <3>1, <3>2
  <2>7. CASE f <= l /\ l - f + 1 < PageSize
    <3>1. batch = Span(f, l)
      BY <2>1, <2>2, <2>3, <2>4, <2>7
    <3>2. f \in Int /\ l \in Int
      BY <2>2, <2>3
    <3>3. Len(batch) = l - f + 1 /\ batch \in Seq(Int)
      BY <2>7, <3>1, <3>2, SpanIsSeq
    <3>4. batch # << >> /\ Len(batch) < PageSize
      BY <2>2, <2>3, <2>7, <3>3
    <3> QED
      BY <1>2, <3>1, <3>4
  <2>8. CASE PageSize <= l - f + 1
    <3> DEFINE m == f + PageSize - 1
    <3>1. m \in Int /\ f < m /\ m <= l
      BY <2>2, <2>3, <2>4, <2>8
    <3>2. /\ batch = Span(f, m) /\ Len(batch) = PageSize /\ batch \in Seq(Int)
          /\ Last(batch) = m
      <4>1. batch = Span(f, m)
        BY <2>1, <2>8
      <4>2. /\ m - f + 1 = PageSize /\ PageSize \in 1 .. m - f + 1
            /\ f + PageSize - 1 = m /\ f \in Int /\ f <= m
        BY <2>2, <2>3, <2>4, <3>1
      <4> HIDE DEF m
      <4>3. /\ Len(Span(f, m)) = PageSize /\ Span(f, m) \in Seq(Int)
            /\ \A k \in 1 .. m - f + 1 : Span(f, m)[k] = f + k - 1
        BY <3>1, <4>2, SpanIsSeq
      <4> QED
        BY <4>1, <4>2, <4>3 DEF Last
    <3> HIDE DEF m
    <3>3. batch # << >> /\ ~(Len(batch) < PageSize) /\ OpenTime(Last(batch)) = 2 * m
          /\ StartAfter(Last(batch)) = 2 * m + 1 /\ ~(2 * m <= c)
      <4>1. ~(2 * m <= c)
        BY <2>2, <3>1
      <4> QED
        BY <2>4, <3>2, <4>1 DEF OpenTime, BarTicks, StartAfter
    <3>4. 2 * m + 1 \in 0 .. end + 1 /\ 2 * m + 1 > c /\ 2 * m + 1 \in Nat
      BY <2>2, <2>3, <3>1
    <3>5. g[2 * m + 1] = IF 2 * m + 1 >= end THEN << >> ELSE Span(FirstBar(2 * m + 1), l)
      BY <3>4 DEF l
    <3>6. Span(f, m) \o g[2 * m + 1] = Span(f, l)
      <4>1. CASE 2 * m + 1 >= end
        <5>1. m = l
          BY <2>3, <3>1, <4>1
        <5>2. g[2 * m + 1] = << >>
          BY <3>5, <4>1
        <5> QED
          BY <3>2, <5>1, <5>2, ConcatEmptySeq
      <4>2. CASE ~(2 * m + 1 >= end)
        <5> DEFINE w == FirstBar(2 * m + 1)
        <5>1. w \in Nat \ {0} /\ 2 * w >= 2 * m + 1 /\ (w = 1 \/ 2 * w <= 2 * m + 1 + 1)
          BY <3>4, FirstBarIs
        <5> HIDE DEF w
        <5>2. w = m + 1
          BY <2>2, <3>1, <5>1
        <5>3. g[2 * m + 1] = Span(m + 1, l)
          BY <3>5, <4>2, <5>2 DEF w
        <5>4. f \in Int /\ l \in Int /\ m + 1 \in Int /\ f <= m + 1 /\ m + 1 <= l + 1
              /\ (m + 1) - 1 = m
          BY <2>2, <2>3, <3>1
        <5>5. Span(f, (m + 1) - 1) \o Span(m + 1, l) = Span(f, l)
          BY <5>4, SpansJoin
        <5> QED
          BY <5>3, <5>4, <5>5
      <4> QED
        BY <4>1, <4>2
    <3> QED
      BY <1>2, <3>2, <3>3, <3>6
  <2>9. l < f \/ (f <= l /\ l - f + 1 < PageSize) \/ PageSize <= l - f + 1
    BY <2>2, <2>3, <2>4
  <2> QED
    BY <2>6, <2>7, <2>8, <2>9
<1> QED
  BY <1>1, <1>2

LEMMA ForwardRowsAre ==
  ASSUME NEW start \in Nat, NEW end \in Nat, start < end
  PROVE  ForwardRows(start, end) = Span(FirstBar(start), FinalBar(end))
<1> DEFINE Rows(g, c) ==
             LET batch == OldestPage(BarsIn(c, end))
             IN IF c >= end \/ batch = << >> THEN << >>
                ELSE IF Len(batch) < PageSize \/ OpenTime(Last(batch)) <= c THEN batch
                ELSE batch \o g[StartAfter(Last(batch))]
           closed == [c \in 0 .. end + 1 |->
                        IF c >= end THEN << >> ELSE Span(FirstBar(c), FinalBar(end))]
           rows == CHOOSE g : g = [c \in 0 .. end + 1 |-> Rows(g, c)]
<1>1. ASSUME NEW g, NEW c \in 0 .. end + 1, \A d \in 0 .. end + 1 : d > c => g[d] = closed[d]
      PROVE  Rows(g, c) = closed[c]
  <2>1. \A d \in 0 .. end + 1 :
          d > c => g[d] = IF d >= end THEN << >> ELSE Span(FirstBar(d), FinalBar(end))
    BY <1>1
  <2> HIDE DEF Rows
  <2>2. Rows(g, c) = IF c >= end THEN << >> ELSE Span(FirstBar(c), FinalBar(end))
    BY <2>1, ForwardStep DEF Rows
  <2> QED
    BY <2>2
<1> HIDE DEF Rows
<1>2. closed = [c \in 0 .. end + 1 |-> Rows(closed, c)]
  <2>1. \A c \in 0 .. end + 1 : Rows(closed, c) = closed[c]
    BY <1>1
  <2>2. closed = [c \in 0 .. end + 1 |-> closed[c]]
    OBVIOUS
  <2> HIDE DEF closed
  <2> QED
    BY <2>1, <2>2
<1>3. rows = [c \in 0 .. end + 1 |-> Rows(rows, c)]
  <2> HIDE DEF closed
  <2> QED
    BY <1>2
<1>4. ForwardRows(start, end) = rows[start]
  BY DEF ForwardRows, Rows
<1> HIDE DEF rows
<1>5. rows = closed
  <2>1. rows = [c \in 0 .. end + 1 |-> rows[c]]
    BY <1>3
  <2>2. closed = [c \in 0 .. end + 1 |-> closed[c]]
    OBVIOUS
  <2> DEFINE S == {c \in 0 .. end + 1 : rows[c] = closed[c]}
  <2>3. ASSUME NEW c \in 0 .. end + 1, \A d \in 0 .. end + 1 : d > c => d \in S
        PROVE  c \in S
    <3>1. rows[c] = Rows(rows, c)
      BY <1>3
    <3>2. \A d \in 0 .. end + 1 : d > c => rows[d] = closed[d]
      BY <2>3
    <3> HIDE DEF closed
    <3> QED
      BY <1>1, <3>1, <3>2
  <2>4. 0 .. end + 1 \subseteq S
    <3>1. 0 \in Int /\ end + 1 \in Int
      OBVIOUS
    <3> HIDE DEF S
    <3> QED
      BY <2>3, <3>1, DownFromAbove
  <2> HIDE DEF closed
  <2> QED
    BY <2>1, <2>2, <2>4
<1>6. rows[start] = Span(FirstBar(start), FinalBar(end))
  <2>1. start \in 0 .. end + 1 /\ ~(start >= end)
    OBVIOUS
  <2> QED
    BY <1>5, <2>1
<1> QED
  BY <1>4, <1>6

-----------------------------------------------------------------------------
(* What the reconciler is answered *)

\* The bars of the answers to the gaps from b on: each gap, and the bar after it.
Filled(bars, b) ==
  {x \in Bars : \E low \in Gaps(bars) : b <= low /\ low < x /\ x <= GapEnd(bars, low) + 1}

LEMMA GapEndIs ==
  ASSUME NEW bars \in SUBSET Bars, NEW low \in Gaps(bars)
  PROVE  /\ low \in bars /\ low + 1 \notin bars /\ GapEnd(bars, low) \in Int
         /\ GapEnd(bars, low) + 1 \in bars /\ low + 1 < GapEnd(bars, low) + 1
         /\ \A x \in bars : low < x => GapEnd(bars, low) + 1 <= x
<1> DEFINE above == {high \in bars : high > low}
<1>1. low \in bars /\ low + 1 \notin bars /\ above # {}
  BY DEF Gaps
<1>2. above \in SUBSET Int /\ \A x \in above : 1 <= x
  <2>1. \A x \in bars : x \in Int /\ 1 <= x
    BY PagingAssumption DEF Bars
  <2> QED
    BY <2>1
<1>3. PICK m \in above : \A x \in above : m <= x
  <2>1. 1 \in Int
    OBVIOUS
  <2> HIDE DEF above
  <2> QED
    BY <1>1, <1>2, <2>1, LeastOf
<1>4. Min(above) = m
  <2>1. \A x \in above : (\A y \in above : x <= y) => x = m
    <3> HIDE DEF above
    <3>1. \A x \in above : x \in Int
      BY <1>2
    <3> QED
      BY <1>3, <3>1
  <2> HIDE DEF above
  <2> QED
    BY <1>3, <2>1 DEF Min
<1>5. m \in Int /\ low \in Int
  BY <1>1, <1>2, PagingAssumption DEF Bars
<1>6. GapEnd(bars, low) + 1 = m /\ GapEnd(bars, low) \in Int
  BY <1>4, <1>5 DEF GapEnd
<1>7. m # low + 1 /\ m > low /\ m \in bars
  BY <1>1, <1>3
<1>8. ASSUME NEW x \in bars, low < x PROVE m <= x
  <2>1. x \in above
    BY <1>5, <1>8, PagingAssumption DEF Bars
  <2> QED
    BY <1>3, <2>1
<1> HIDE DEF above
<1> QED
  BY <1>1, <1>5, <1>6, <1>7, <1>8

\* Both exchanges answer a gap with its bars and the one after it.
LEMMA AnswerIs ==
  ASSUME NEW low \in Bars, NEW last \in Int, low < last, last + 1 \in Bars
  PROVE  Answer[OpenTime(low + 1)][RequestEnd(last)] = Span(low + 1, last + 1)
<1> DEFINE start == OpenTime(low + 1)
           end == RequestEnd(last)
<1>1. MaxBar \in Nat
  BY PagingAssumption
<1>2. /\ start = 2 * (low + 1) /\ end = 2 * (last + 1)
      /\ start \in Nat /\ end \in Nat /\ start < end
  BY <1>1 DEF OpenTime, RequestEnd, BarTicks, Bars
<1>3. FirstBar(start) = low + 1
  <2> DEFINE f == FirstBar(start)
  <2>1. f \in Nat \ {0} /\ 2 * f >= start /\ (f = 1 \/ 2 * f <= start + 1)
    BY <1>2, FirstBarIs
  <2> HIDE DEF f, start
  <2>2. f = low + 1
    BY <1>1, <1>2, <2>1 DEF Bars
  <2> QED
    BY <2>2 DEF f
<1>4. FinalBar(end) = last + 1
  <2> DEFINE l == FinalBar(end)
  <2>1. l \in Nat /\ l <= MaxBar /\ 2 * l <= end /\ (l = MaxBar \/ 2 * l >= end - 1)
    BY <1>2, FinalBarIs
  <2> HIDE DEF l, end
  <2>2. l = last + 1
    BY <1>1, <1>2, <2>1 DEF Bars
  <2> QED
    BY <2>2 DEF l
<1>5. Answer[start][end] = IF feed = "stream" THEN ForwardRows(start, end)
                           ELSE BackwardRows(start, end)
  BY <1>2 DEF Answer
<1> HIDE DEF start, end
<1>6. ForwardRows(start, end) = Span(low + 1, last + 1)
  BY <1>2, <1>3, <1>4, ForwardRowsAre
<1>7. BackwardRows(start, end) = Span(low + 1, last + 1)
  BY <1>2, <1>3, <1>4, BackwardRowsAre
<1> QED
  BY <1>5, <1>6, <1>7 DEF start, end

LEMMA FilledStep ==
  ASSUME NEW bars \in SUBSET Bars, NEW b \in Bars
  PROVE  /\ b \in Gaps(bars) =>
              /\ Filled(bars, b) = (b + 1 .. GapEnd(bars, b) + 1) \cup Filled(bars, b + 1)
              /\ \A i \in b + 1 .. GapEnd(bars, b) + 1, j \in Filled(bars, b + 1) : i < j
         /\ b \notin Gaps(bars) => Filled(bars, b) = Filled(bars, b + 1)
<1>1. \A x \in Bars : x \in Int /\ 1 <= x /\ x <= MaxBar
  BY PagingAssumption DEF Bars
<1>2. \A low \in Gaps(bars) : low \in Bars /\ GapEnd(bars, low) + 1 \in Bars
  BY GapEndIs
<1>3. ASSUME b \notin Gaps(bars) PROVE Filled(bars, b) = Filled(bars, b + 1)
  <2>1. \A low \in Gaps(bars) : b <= low <=> b + 1 <= low
    BY <1>1, <1>2, <1>3
  <2> QED
    BY <2>1 DEF Filled
<1>4. ASSUME b \in Gaps(bars) 
      PROVE  /\ Filled(bars, b) = (b + 1 .. GapEnd(bars, b) + 1) \cup Filled(bars, b + 1)
             /\ \A i \in b + 1 .. GapEnd(bars, b) + 1, j \in Filled(bars, b + 1) : i < j
  <2> DEFINE e == GapEnd(bars, b) + 1
  <2>1. /\ e \in bars /\ b + 1 < e /\ b \in Bars /\ e \in Bars
        /\ \A x \in bars : b < x => e <= x
    BY <1>4, GapEndIs
  <2>2. e \in Int /\ e <= MaxBar
    BY <1>1, <2>1
  <2> HIDE DEF e
  <2>3. \A low \in Gaps(bars) : b + 1 <= low => e <= low /\ low \in Int
    <3>1. \A low \in Gaps(bars) : low \in bars
      BY GapEndIs
    <3> QED
      BY <1>1, <2>1, <3>1
  <2>4. \A x \in b + 1 .. e : x \in Bars
    BY <1>1, <2>2, PagingAssumption DEF Bars
  <2>5. Filled(bars, b) \subseteq (b + 1 .. e) \cup Filled(bars, b + 1)
    <3> SUFFICES ASSUME NEW x \in Filled(bars, b) PROVE x \in (b + 1 .. e) \cup Filled(bars, b + 1)
      OBVIOUS
    <3>1. x \in Bars
      BY DEF Filled
    <3>2. PICK low \in Gaps(bars) : b <= low /\ low < x /\ x <= GapEnd(bars, low) + 1
      BY DEF Filled
    <3>3. low \in Int /\ x \in Int
      BY <1>1, <1>2, <3>1
    <3>4. CASE low = b
      <4>1. x <= e /\ b + 1 <= x
        BY <1>1, <3>2, <3>3, <3>4 DEF e
      <4> QED
        BY <1>1, <2>2, <3>3, <4>1
    <3>5. CASE low # b
      <4>1. b + 1 <= low
        BY <1>1, <3>2, <3>3, <3>5
      <4> QED
        BY <3>1, <3>2, <4>1 DEF Filled
    <3> QED
      BY <3>4, <3>5
  <2>6. b + 1 .. e \subseteq Filled(bars, b)
    <3> SUFFICES ASSUME NEW x \in b + 1 .. e PROVE x \in Filled(bars, b)
      OBVIOUS
    <3>1. x \in Bars
      BY <2>4
    <3>2. b <= b /\ b < x /\ x <= GapEnd(bars, b) + 1
      BY <1>1, <2>2, <3>1 DEF e
    <3> QED
      BY <1>4, <3>1, <3>2 DEF Filled
  <2>7. Filled(bars, b + 1) \subseteq Filled(bars, b)
    <3> SUFFICES ASSUME NEW x \in Filled(bars, b + 1) PROVE x \in Filled(bars, b)
      OBVIOUS
    <3>1. x \in Bars
      BY DEF Filled
    <3>2. PICK low \in Gaps(bars) : b + 1 <= low /\ low < x /\ x <= GapEnd(bars, low) + 1
      BY DEF Filled
    <3>3. b <= low
      BY <1>1, <1>2, <3>2
    <3> QED
      BY <3>1, <3>2, <3>3 DEF Filled
  <2>8. ASSUME NEW i \in b + 1 .. e, NEW j \in Filled(bars, b + 1) PROVE i < j
    <3>1. j \in Bars
      BY DEF Filled
    <3>2. PICK low \in Gaps(bars) : b + 1 <= low /\ low < j
      BY DEF Filled
    <3>3. e <= low /\ low \in Int
      BY <2>3, <3>2
    <3> QED
      BY <1>1, <2>2, <3>1, <3>2, <3>3
  <2>9. Filled(bars, b) = (b + 1 .. e) \cup Filled(bars, b + 1)
    BY <2>5, <2>6, <2>7
  <2> QED
    BY <2>8, <2>9 DEF e
<1> QED
  BY <1>3, <1>4

\* The rows of one gap after the other are the bars of the answers in order.
LEMMA ReconciledIs ==
  ASSUME NEW bars \in SUBSET Bars
  PROVE  Reconciled[bars] = InOrder(Filled(bars, 1))
<1> DEFINE From(g, b) ==
             IF b > MaxBar THEN << >>
             ELSE IF b \in Gaps(bars)
                  THEN Answer[OpenTime(b + 1)][RequestEnd(GapEnd(bars, b))] \o g[b + 1]
                  ELSE g[b + 1]
           closed == [b \in 1 .. MaxBar + 1 |-> InOrder(Filled(bars, b))]
           from == CHOOSE g : g = [b \in 1 .. MaxBar + 1 |-> From(g, b)]
<1>1. MaxBar \in Nat \ {0}
  BY PagingAssumption
<1>2. \A b \in Int : Filled(bars, b) \in SUBSET Int /\ IsFiniteSet(Filled(bars, b))
  <2>1. IsFiniteSet(Bars) /\ Bars \in SUBSET Int
    BY <1>1, FS_Interval DEF Bars
  <2>2. \A b \in Int : Filled(bars, b) \subseteq Bars
    BY DEF Filled
  <2> QED
    BY <2>1, <2>2, FS_Subset
<1>3. ASSUME NEW g, NEW b \in 1 .. MaxBar + 1,
             \A d \in 1 .. MaxBar + 1 : d > b => g[d] = closed[d]
      PROVE  From(g, b) = closed[b]
  <2>1. CASE b > MaxBar
    <3>1. Filled(bars, b) = {}
      <4>1. \A low \in Gaps(bars) : low \in Bars
        BY GapEndIs
      <4>2. \A low \in Bars : ~(b <= low)
        BY <1>1, <2>1 DEF Bars
      <4> QED
        BY <4>1, <4>2 DEF Filled
    <3>2. InOrder({}) = << >>
      <4>1. Cardinality({}) = 0
        BY FS_EmptySet
      <4> QED
        BY <4>1 DEF InOrder
    <3> QED
      BY <2>1, <3>1, <3>2
  <2>2. CASE ~(b > MaxBar)
    <3>1. b \in Bars /\ b + 1 \in 1 .. MaxBar + 1 /\ b + 1 > b /\ b + 1 \in Int
      BY <1>1, <2>2 DEF Bars
    <3>2. g[b + 1] = InOrder(Filled(bars, b + 1))
      BY <1>3, <3>1
    <3>3. CASE b \in Gaps(bars)
      <4> DEFINE e == GapEnd(bars, b)
      <4>1. e + 1 \in Bars /\ b + 1 < e + 1
        BY <3>3, GapEndIs
      <4>2. e \in Int /\ b < e
        <5>1. e \in Int /\ b \in Int
          BY <1>1, <3>1, <3>3, GapEndIs
        <5> HIDE DEF e
        <5> QED
          BY <4>1, <5>1
      <4> HIDE DEF e
      <4>3. Answer[OpenTime(b + 1)][RequestEnd(e)] = InOrder(b + 1 .. e + 1)
        <5>1. b + 1 \in Int /\ e + 1 \in Int
          BY <3>1, <4>2
        <5>2. InOrder(b + 1 .. e + 1) = Span(b + 1, e + 1)
          BY <5>1, OrderOfRun DEF Span
        <5> QED
          BY <3>1, <4>1, <4>2, <5>2, AnswerIs
      <4>4. /\ Filled(bars, b) = (b + 1 .. e + 1) \cup Filled(bars, b + 1)
            /\ \A i \in b + 1 .. e + 1, j \in Filled(bars, b + 1) : i < j
        BY <3>1, <3>3, FilledStep DEF e
      <4>5. b + 1 .. e + 1 \in SUBSET Int /\ IsFiniteSet(b + 1 .. e + 1)
        BY <3>1, <4>2, FS_Interval
      <4>6. Filled(bars, b + 1) \in SUBSET Int /\ IsFiniteSet(Filled(bars, b + 1))
        BY <1>2, <3>1
      <4>7. InOrder(Filled(bars, b)) = InOrder(b + 1 .. e + 1) \o InOrder(Filled(bars, b + 1))
        BY <4>4, <4>5, <4>6, OrderJoins
      <4> QED
        BY <2>2, <3>2, <3>3, <4>3, <4>7 DEF e
    <3>4. CASE b \notin Gaps(bars)
      <4>1. Filled(bars, b) = Filled(bars, b + 1)
        BY <3>1, <3>4, FilledStep
      <4> QED
        BY <2>2, <3>2, <3>4, <4>1
    <3> QED
      BY <3>3, <3>4
  <2> QED
    BY <2>1, <2>2
<1> HIDE DEF From
<1>4. closed = [b \in 1 .. MaxBar + 1 |-> From(closed, b)]
  <2>1. \A b \in 1 .. MaxBar + 1 : From(closed, b) = closed[b]
    BY <1>3
  <2>2. closed = [b \in 1 .. MaxBar + 1 |-> closed[b]]
    OBVIOUS
  <2> HIDE DEF closed
  <2> QED
    BY <2>1, <2>2
<1>5. from = [b \in 1 .. MaxBar + 1 |-> From(from, b)]
  <2> HIDE DEF closed
  <2> QED
    BY <1>4
<1>6. Reconciled[bars] = from[1]
  BY DEF Reconciled, From
<1> HIDE DEF from
<1>7. from[1] = closed[1]
  <2> DEFINE S == {b \in 1 .. MaxBar + 1 : from[b] = closed[b]}
  <2>1. ASSUME NEW b \in 1 .. MaxBar + 1, \A d \in 1 .. MaxBar + 1 : d > b => d \in S
        PROVE  b \in S
    <3>1. from[b] = From(from, b)
      BY <1>5
    <3>2. \A d \in 1 .. MaxBar + 1 : d > b => from[d] = closed[d]
      BY <2>1
    <3> HIDE DEF closed
    <3> QED
      BY <1>3, <3>1, <3>2
  <2>2. 1 .. MaxBar + 1 \subseteq S
    <3>1. 1 \in Int /\ MaxBar + 1 \in Int
      BY <1>1
    <3> HIDE DEF S
    <3> QED
      BY <2>1, <3>1, DownFromAbove
  <2>3. 1 \in 1 .. MaxBar + 1
    BY <1>1
  <2> HIDE DEF closed
  <2> QED
    BY <2>2, <2>3
<1>8. closed[1] = InOrder(Filled(bars, 1))
  BY <1>1
<1> QED
  BY <1>6, <1>7, <1>8

-----------------------------------------------------------------------------
(* The invariant of the hub *)

Klines == [bar : Bars, confirm : BOOLEAN]
Ascending(seq) == \A i, j \in DOMAIN seq : i < j => seq[i] < seq[j]

HubTypeOK ==
  /\ feed \in {"stream", "poll", "both"} /\ now \in Bars
  /\ up \in BOOLEAN /\ silent \in BOOLEAN
  /\ wire \in Seq(Klines) /\ poll \in Seq(Klines)
  /\ series \in Seq(Bars) /\ series # << >>
  /\ lastFinal \in 0 .. MaxBar
  /\ backfill \in Seq(Bars) /\ closes \in Seq(Bars)

\* The messages on their way are in the order of time, and end with a bar's last.
WireInOrder ==
  /\ \A i \in DOMAIN wire : wire[i].bar <= now /\ (wire[i].confirm => wire[i].bar < now)
  /\ \A i, j \in DOMAIN wire :
       i < j => wire[i].bar <= wire[j].bar /\ (wire[i].confirm => wire[i].bar < wire[j].bar)
PollInOrder == \A i, j \in DOMAIN poll : i < j => poll[i].bar < poll[j].bar

\* The stream alone: what has been stored and closed is not after what comes.
StreamInv ==
  /\ poll = << >>
  /\ Ascending(closes)
  /\ \A i \in DOMAIN closes : closes[i] < now /\ \A j \in DOMAIN wire : closes[i] < wire[j].bar
  /\ Ascending(series)
  /\ Last(series) <= now
  /\ \A j \in DOMAIN wire : Last(series) <= wire[j].bar
  /\ \A i \in DOMAIN backfill : backfill[i] <= Last(series)

\* The polls alone: what has been closed is not after the last bar they closed.
PollInv ==
  /\ ~up /\ wire = << >>
  /\ Ascending(closes)
  /\ \A i \in DOMAIN closes : closes[i] <= lastFinal

HubInv ==
  /\ HubTypeOK /\ WireInOrder /\ PollInOrder
  /\ feed = "stream" => StreamInv
  /\ feed = "poll" => PollInv

LEMMA BarsAre ==
  /\ MaxBar \in Nat \ {0} /\ Bars \in SUBSET Int /\ IsFiniteSet(Bars)
  /\ \A b \in Bars : b \in Int /\ 1 <= b /\ b <= MaxBar
  /\ \A b \in Int : 1 <= b /\ b <= MaxBar => b \in Bars
<1>1. MaxBar \in Nat \ {0}
  BY PagingAssumption
<1> QED
  BY <1>1, FS_Interval DEF Bars

\* What the deque keeps ends as the list does, and is in order if that is.
LEMMA NewestIs ==
  ASSUME NEW candles \in Seq(Bars), candles # << >>
  PROVE  /\ Newest[candles] \in Seq(Bars) /\ Newest[candles] # << >>
         /\ Last(Newest[candles]) = Last(candles)
         /\ Ascending(candles) => Ascending(Newest[candles])
<1> DEFINE n == Len(candles)
           m == Max({1, n - History + 1})
           s == SubSeq(candles, m, n)
<1>1. n \in Nat /\ n >= 1 /\ DOMAIN candles = 1 .. n
  <2>1. n \in Nat \ {0}
    BY EmptySeq
  <2> QED
    BY <2>1, LenProperties
<1>2. candles \in Seq(Int)
  BY BarsAre, SeqMonotonic
<1>3. Newest[candles] = s
  BY <1>2 DEF Newest
<1>4. m \in 1 .. n
  <2>1. History \in Nat \ {0}
    BY HubAssumption
  <2> HIDE DEF n
  <2>2. n - History + 1 \in Int /\ 1 \in Int
    BY <1>1, <2>1
  <2>3. m = IF 1 >= n - History + 1 THEN 1 ELSE n - History + 1
    BY <2>2, MaxOfTwo
  <2> QED
    BY <1>1, <2>1, <2>3
<1> HIDE DEF m
<1>5. /\ s \in Seq(Bars) /\ Len(s) = n - m + 1
      /\ \A i \in 1 .. n - m + 1 : s[i] = candles[m + i - 1]
  <2>1. \A i \in m .. n : candles[i] \in Bars
    BY <1>1, <1>4, ElementOfSeq
  <2>2. m \in Int /\ n \in Int /\ m <= n
    BY <1>1, <1>4
  <2> HIDE DEF n
  <2> QED
    BY <2>1, <2>2, SubSeqProperties
<1> HIDE DEF n, s
<1>6. n - m + 1 \in Nat \ {0} /\ n - m + 1 \in 1 .. n - m + 1 /\ m + (n - m + 1) - 1 = n
  BY <1>1, <1>4
<1>7. s # << >>
  BY <1>5, <1>6
<1>8. Last(s) = Last(candles)
  BY <1>5, <1>6 DEF Last, n
<1>9. ASSUME Ascending(candles) PROVE Ascending(s)
  <2>1. DOMAIN s = 1 .. n - m + 1
    BY <1>5, LenProperties
  <2> SUFFICES ASSUME NEW i \in 1 .. n - m + 1, NEW j \in 1 .. n - m + 1, i < j PROVE s[i] < s[j]
    BY <2>1 DEF Ascending
  <2>2. m + i - 1 \in 1 .. n /\ m + j - 1 \in 1 .. n /\ m + i - 1 < m + j - 1
    BY <1>1, <1>4
  <2>3. candles[m + i - 1] < candles[m + j - 1]
    BY <1>1, <1>9, <2>2 DEF Ascending
  <2> QED
    BY <1>5, <2>3
<1> QED
  BY <1>3, <1>5, <1>7, <1>8, <1>9

LEMMA AppendIs ==
  ASSUME NEW candles \in Seq(Bars), candles # << >>, NEW bar \in Bars
  PROVE  /\ Append(candles, bar) \in Seq(Bars) /\ Append(candles, bar) # << >>
         /\ Len(Append(candles, bar)) = Len(candles) + 1
         /\ \A i \in 1 .. Len(candles) : Append(candles, bar)[i] = candles[i]
         /\ Append(candles, bar)[Len(candles) + 1] = bar
         /\ Last(Append(candles, bar)) = bar
<1>1. /\ Append(candles, bar) \in Seq(Bars) /\ Append(candles, bar) # << >>
      /\ Len(Append(candles, bar)) = Len(candles) + 1
      /\ \A i \in 1 .. Len(candles) : Append(candles, bar)[i] = candles[i]
      /\ Append(candles, bar)[Len(candles) + 1] = bar
  BY AppendProperties
<1> QED
  BY <1>1 DEF Last

\* The last of a list in order is the greatest.
LEMMA LastIsGreatest ==
  ASSUME NEW candles \in Seq(Bars), candles # << >>, Ascending(candles)
  PROVE  /\ Last(candles) \in Bars
         /\ \A i \in DOMAIN candles : candles[i] <= Last(candles)
<1>1. Len(candles) \in Nat \ {0} /\ DOMAIN candles = 1 .. Len(candles)
  BY EmptySeq, LenProperties
<1>2. Last(candles) = candles[Len(candles)] /\ Len(candles) \in 1 .. Len(candles)
  BY <1>1 DEF Last
<1>3. Last(candles) \in Bars
  BY <1>2, ElementOfSeq
<1>4. ASSUME NEW i \in DOMAIN candles PROVE candles[i] <= Last(candles)
  <2>1. i = Len(candles) \/ i < Len(candles)
    BY <1>1
  <2>2. candles[i] = Last(candles) \/ candles[i] < Last(candles)
    BY <1>1, <1>2, <2>1 DEF Ascending
  <2>3. candles[i] \in Int /\ Last(candles) \in Int
    BY <1>1, <1>3, BarsAre, ElementOfSeq
  <2> QED
    BY <2>2, <2>3
<1> QED
  BY <1>3, <1>4

\* Appending a later bar keeps the order.
LEMMA AppendKeepsOrder ==
  ASSUME NEW candles \in Seq(Bars), candles # << >>, Ascending(candles), NEW bar \in Bars,
         Last(candles) < bar
  PROVE  Ascending(Append(candles, bar))
<1> DEFINE n == Len(candles)
           s == Append(candles, bar)
<1>1. /\ s \in Seq(Bars) /\ Len(s) = n + 1 /\ s[n + 1] = bar
      /\ \A i \in 1 .. n : s[i] = candles[i]
  BY AppendIs
<1>2. n \in Nat /\ DOMAIN candles = 1 .. n /\ DOMAIN s = 1 .. n + 1
  BY <1>1, LenProperties
<1>3. \A i \in 1 .. n : candles[i] < bar
  <2>1. Last(candles) \in Bars /\ \A i \in 1 .. n : candles[i] <= Last(candles)
    BY <1>2, LastIsGreatest
  <2>2. \A i \in 1 .. n : candles[i] \in Int
    BY BarsAre, ElementOfSeq
  <2>3. Last(candles) \in Int /\ bar \in Int
    BY <2>1, BarsAre
  <2> HIDE DEF n
  <2> QED
    BY <2>1, <2>2, <2>3
<1> SUFFICES ASSUME NEW i \in 1 .. n + 1, NEW j \in 1 .. n + 1, i < j PROVE s[i] < s[j]
  BY <1>2 DEF Ascending
<1> HIDE DEF n, s
<1>4. i \in 1 .. n
  BY <1>2
<1>5. CASE j = n + 1
  BY <1>1, <1>3, <1>4, <1>5
<1>6. CASE j # n + 1
  <2>1. j \in 1 .. n
    BY <1>2, <1>6
  <2> QED
    BY <1>1, <1>2, <1>4, <2>1 DEF Ascending
<1> QED
  BY <1>5, <1>6

\* A kline that is stored.
LEMMA StoredIs ==
  ASSUME NEW candles \in Seq(Bars), candles # << >>, NEW bar \in Bars
  PROVE  /\ Stored[candles][bar] \in Seq(Bars) /\ Stored[candles][bar] # << >>
         /\ Ascending(candles) /\ Last(candles) <= bar =>
              Ascending(Stored[candles][bar]) /\ Last(Stored[candles][bar]) = bar
<1>1. candles \in Seq(Int) /\ bar \in Int
  BY BarsAre, SeqMonotonic
<1>2. Stored[candles][bar] = IF Last(candles) = bar THEN candles ELSE Newest[Append(candles, bar)]
  BY <1>1 DEF Stored
<1>3. CASE Last(candles) = bar
  BY <1>2, <1>3
<1>4. CASE Last(candles) # bar
  <2> DEFINE s == Append(candles, bar)
  <2>1. s \in Seq(Bars) /\ s # << >> /\ Last(s) = bar
    BY AppendIs
  <2>2. /\ Newest[s] \in Seq(Bars) /\ Newest[s] # << >> /\ Last(Newest[s]) = Last(s)
        /\ Ascending(s) => Ascending(Newest[s])
    <3> HIDE DEF s
    <3> QED
      BY <2>1, NewestIs
  <2>3. ASSUME Ascending(candles), Last(candles) <= bar PROVE Ascending(s)
    <3>1. Last(candles) \in Bars
      BY <2>3, LastIsGreatest
    <3>2. Last(candles) \in Int
      BY <3>1, BarsAre
    <3>3. Last(candles) < bar
      BY <1>1, <1>4, <2>3, <3>2
    <3> QED
      BY <2>3, <3>3, AppendKeepsOrder
  <2> QED
    BY <1>2, <1>4, <2>1, <2>2, <2>3
<1> QED
  BY <1>3, <1>4

\* A row that is put in its place.
LEMMA MergedIs ==
  ASSUME NEW candles \in Seq(Bars), candles # << >>, NEW bar \in Bars
  PROVE  /\ Merged[candles][bar] \in Seq(Bars) /\ Merged[candles][bar] # << >>
         /\ Ascending(candles) /\ bar <= Last(candles) =>
              Ascending(Merged[candles][bar]) /\ Last(Merged[candles][bar]) = Last(candles)
<1> DEFINE a == Append(candles, bar)
           n == Len(a)
           s == Sorted[a]
<1>1. candles \in Seq(Int) /\ bar \in Int /\ a \in Seq(Int)
  BY AppendIs, BarsAre, SeqMonotonic
<1>2. Merged[candles][bar] = IF bar \in ToSet(candles) THEN candles ELSE Newest[s]
  BY <1>1 DEF Merged, RowInPlace
<1>3. CASE bar \in ToSet(candles)
  BY <1>2, <1>3
<1>4. CASE bar \notin ToSet(candles)
  <2>1. /\ a \in Seq(Bars) /\ n = Len(candles) + 1 /\ a[n] = bar
        /\ \A i \in 1 .. Len(candles) : a[i] = candles[i]
    BY AppendIs
  <2>2. Len(candles) \in Nat \ {0} /\ DOMAIN candles = 1 .. Len(candles)
    BY EmptySeq, LenProperties
  <2>3. PICK q \in [1 .. n -> 1 .. n] :
           /\ s = [k \in 1 .. n |-> a[q[k]]]
           /\ \A j, k \in 1 .. n : j < k => a[q[j]] < a[q[k]] \/ (a[q[j]] = a[q[k]] /\ q[j] < q[k])
           /\ \A i \in 1 .. n : \E k \in 1 .. n : q[k] = i
    BY <1>1, SortedIs
  <2>4. \A i \in 1 .. n : a[i] \in Bars /\ a[i] \in Int
    BY <2>1, BarsAre, ElementOfSeq
  <2> HIDE DEF a, n, s
  <2>5. s \in Seq(Bars) /\ Len(s) = n /\ s # << >> /\ DOMAIN s = 1 .. n
    <3>1. n \in Nat \ {0}
      BY <2>1, <2>2
    <3>2. \A k \in 1 .. n : a[q[k]] \in Bars
      BY <2>4
    <3>3. s \in Seq(Bars) /\ Len(s) = n
      BY <2>3, <3>1, <3>2
    <3> QED
      BY <3>1, <3>3, LenProperties
  <2>6. /\ Newest[s] \in Seq(Bars) /\ Newest[s] # << >> /\ Last(Newest[s]) = Last(s)
        /\ Ascending(s) => Ascending(Newest[s])
    BY <2>5, NewestIs
  <2>7. ASSUME Ascending(candles), bar <= Last(candles)
        PROVE  Ascending(s) /\ Last(s) = Last(candles)
    <3>1. \A i \in 1 .. Len(candles) : candles[i] # bar
      BY <1>4, <2>2 DEF ToSet
    <3>2. Last(candles) = candles[Len(candles)] /\ Len(candles) \in 1 .. Len(candles)
      BY <2>2 DEF Last
    <3>3. bar < Last(candles) /\ Last(candles) \in Int
      BY <1>1, <2>7, <3>1, <3>2, BarsAre, LastIsGreatest
    <3>4. \A i \in 1 .. Len(candles) : candles[i] <= Last(candles) /\ candles[i] \in Int
      BY <2>2, <2>7, BarsAre, LastIsGreatest, ElementOfSeq
    <3>5. \A i, j \in 1 .. n : a[i] = a[j] => i = j
      <4> SUFFICES ASSUME NEW i \in 1 .. n, NEW j \in 1 .. n, a[i] = a[j] PROVE i = j
        OBVIOUS
      <4>1. i = n \/ i \in 1 .. Len(candles)
        BY <2>1, <2>2
      <4>2. j = n \/ j \in 1 .. Len(candles)
        BY <2>1, <2>2
      <4>3. CASE i \in 1 .. Len(candles) /\ j \in 1 .. Len(candles)
        <5>1. candles[i] = candles[j]
          BY <2>1, <4>3
        <5>2. ~(i < j) /\ ~(j < i)
          BY <2>2, <2>7, <3>4, <4>3, <5>1 DEF Ascending
        <5> QED
          BY <2>2, <4>3, <5>2
      <4> QED
        BY <2>1, <3>1, <4>1, <4>2, <4>3
    <3>6. \A j, k \in 1 .. n : j < k => s[j] < s[k]
      <4> SUFFICES ASSUME NEW j \in 1 .. n, NEW k \in 1 .. n, j < k PROVE s[j] < s[k]
        OBVIOUS
      <4>1. q[j] \in 1 .. n /\ q[k] \in 1 .. n
        OBVIOUS
      <4>2. a[q[j]] < a[q[k]] \/ q[j] = q[k]
        BY <2>3, <3>5, <4>1
      <4>3. a[q[j]] < a[q[k]] \/ (a[q[j]] = a[q[k]] /\ q[j] < q[k])
        BY <2>3
      <4>4. a[q[j]] < a[q[k]]
        BY <2>1, <2>2, <4>1, <4>2, <4>3
      <4> QED
        BY <2>3, <4>4
    <3>7. Ascending(s)
      BY <2>5, <3>6 DEF Ascending
    <3>8. Last(s) = Last(candles)
      <4>1. Last(s) = s[n] /\ n \in 1 .. n
        BY <2>1, <2>2, <2>5 DEF Last
      <4>2. \A i \in 1 .. n : a[i] <= Last(candles)
        <5> SUFFICES ASSUME NEW i \in 1 .. n PROVE a[i] <= Last(candles)
          OBVIOUS
        <5>1. i = n \/ i \in 1 .. Len(candles)
          BY <2>1, <2>2
        <5>2. CASE i = n
          <6>1. a[i] = bar /\ bar \in Int
            BY <1>1, <2>1, <5>2
          <6> QED
            BY <3>3, <6>1
        <5>3. CASE i \in 1 .. Len(candles)
          BY <2>1, <3>4, <5>3
        <5> QED
          BY <5>1, <5>2, <5>3
      <4>3. PICK k \in 1 .. n : q[k] = Len(candles)
        <5>1. Len(candles) \in 1 .. n
          BY <2>1, <2>2
        <5> QED
          BY <2>3, <5>1
      <4>4. s[k] = Last(candles)
        BY <2>1, <2>3, <3>2, <4>3
      <4>5. s[n] = a[q[n]] /\ q[n] \in 1 .. n /\ s[n] \in Int
        BY <2>3, <2>4, <4>1
      <4>6. k = n \/ s[k] < s[n]
        BY <2>1, <2>2, <3>6, <4>1
      <4> QED
        BY <3>3, <4>1, <4>2, <4>4, <4>5, <4>6
    <3> QED
      BY <3>7, <3>8
  <2> QED
    BY <1>2, <1>4, <2>6, <2>7 DEF s
<1> QED
  BY <1>3, <1>4

\* Storing klines one after the other.
LEMMA StoresAll ==
  ASSUME NEW candles \in Seq(Bars), candles # << >>, NEW bars \in Seq(Bars)
  PROVE  Looped(Stored, candles, bars) \in Seq(Bars) /\ Looped(Stored, candles, bars) # << >>
<1> DEFINE Good == {v \in Seq(Bars) : v # << >>}
<1>1. \A v \in Good : \A n \in 1 .. Len(bars) : Stored[v][bars[n]] \in Good
  BY StoredIs, ElementOfSeq
<1>2. candles \in Good
  OBVIOUS
<1>3. Looped(Stored, candles, bars) \in Good
  <2> HIDE DEF Good
  <2> QED
    BY <1>1, <1>2, LoopKeeps
<1> QED
  BY <1>3

\* Storing one that is not before the last.
LEMMA StoresOne ==
  ASSUME NEW candles \in Seq(Bars), candles # << >>, Ascending(candles), NEW bar \in Bars,
         Last(candles) <= bar
  PROVE  /\ Ascending(Looped(Stored, candles, <<bar>>))
         /\ Last(Looped(Stored, candles, <<bar>>)) <= bar
         /\ Last(candles) <= Last(Looped(Stored, candles, <<bar>>))
<1> DEFINE Good == {v \in Seq(Bars) : /\ v # << >> /\ Ascending(v)
                                     /\ Last(v) <= bar /\ Last(candles) <= Last(v)}
           bars == <<bar>>
<1>1. bars \in Seq(Bars) /\ \A n \in 1 .. Len(bars) : bars[n] = bar
  OBVIOUS
<1>2. \A v \in Good : Stored[v][bar] \in Good
  <2>1. bar <= bar
    BY BarsAre
  <2> QED
    BY <2>1, StoredIs
<1>3. candles \in Good
  <2>1. Last(candles) \in Bars
    BY LastIsGreatest
  <2>2. Last(candles) \in Int
    BY <2>1, BarsAre
  <2>3. Last(candles) <= Last(candles)
    BY <2>2
  <2> QED
    BY <2>3
<1>4. Looped(Stored, candles, bars) \in Good
  <2> HIDE DEF Good, bars
  <2>1. \A v \in Good : \A n \in 1 .. Len(bars) : Stored[v][bars[n]] \in Good
    BY <1>1, <1>2
  <2> QED
    BY <1>1, <1>3, <2>1, LoopKeeps
<1> QED
  BY <1>4

\* Merging rows one after the other.
LEMMA MergesAll ==
  ASSUME NEW candles \in Seq(Bars), candles # << >>, NEW rows \in Seq(Bars)
  PROVE  Looped(Merged, candles, rows) \in Seq(Bars) /\ Looped(Merged, candles, rows) # << >>
<1> DEFINE Good == {v \in Seq(Bars) : v # << >>}
<1>1. \A v \in Good : \A n \in 1 .. Len(rows) : Merged[v][rows[n]] \in Good
  BY MergedIs, ElementOfSeq
<1>2. candles \in Good
  OBVIOUS
<1>3. Looped(Merged, candles, rows) \in Good
  <2> HIDE DEF Good
  <2> QED
    BY <1>1, <1>2, LoopKeeps
<1> QED
  BY <1>3

LEMMA MergesInOrder ==
  ASSUME NEW candles \in Seq(Bars), candles # << >>, Ascending(candles), NEW rows \in Seq(Bars),
         \A i \in DOMAIN rows : rows[i] <= Last(candles)
  PROVE  /\ Ascending(Looped(Merged, candles, rows))
         /\ Last(Looped(Merged, candles, rows)) = Last(candles)
<1> DEFINE Good == {v \in Seq(Bars) : v # << >> /\ Ascending(v) /\ Last(v) = Last(candles)}
<1>1. \A v \in Good : \A n \in 1 .. Len(rows) : Merged[v][rows[n]] \in Good
  <2> SUFFICES ASSUME NEW v \in Good, NEW n \in 1 .. Len(rows) PROVE Merged[v][rows[n]] \in Good
    OBVIOUS
  <2>1. rows[n] \in Bars /\ rows[n] <= Last(v)
    BY ElementOfSeq, LenProperties
  <2> QED
    BY <2>1, MergedIs
<1>2. candles \in Good
  OBVIOUS
<1>3. Looped(Merged, candles, rows) \in Good
  <2> HIDE DEF Good
  <2> QED
    BY <1>1, <1>2, LoopKeeps
<1> QED
  BY <1>3

\* What is closed are confirmed bars, in the order of the klines.
LEMMA ClosingIs ==
  ASSUME NEW klines \in Seq(Klines)
  PROVE  /\ Closing(klines) \in Seq(Bars)
         /\ \A k \in DOMAIN Closing(klines) : \E i \in DOMAIN klines :
              klines[i].confirm /\ Closing(klines)[k] = klines[i].bar
         /\ (\A i, j \in DOMAIN klines : i < j => klines[i].bar < klines[j].bar)
              => Ascending(Closing(klines))
<1> DEFINE confirmed == {i \in DOMAIN klines : klines[i].confirm}
           n == Cardinality(confirmed)
           o == InOrder(confirmed)
           s == [k \in 1 .. n |-> klines[o[k]].bar]
<1>1. DOMAIN klines = 1 .. Len(klines) /\ Len(klines) \in Nat
  BY LenProperties
<1>2. confirmed \in SUBSET Int /\ IsFiniteSet(confirmed)
  <2>1. IsFiniteSet(1 .. Len(klines))
    BY <1>1, FS_Interval
  <2> QED
    BY <1>1, <2>1, FS_Subset
<1>3. n \in Nat
  BY <1>2, FS_CardinalityType
<1>4. o \in [1 .. n -> confirmed] /\ \A j, k \in 1 .. n : j < k => o[j] < o[k]
  <2> HIDE DEF confirmed
  <2> QED
    BY <1>2, InOrderIsOrdered DEF AscendingIn
<1>5. Closing(klines) = s
  BY DEF Closing
<1>6. \A k \in 1 .. n : o[k] \in DOMAIN klines /\ klines[o[k]].confirm /\ klines[o[k]].bar \in Bars
  <2> SUFFICES ASSUME NEW k \in 1 .. n
               PROVE  o[k] \in DOMAIN klines /\ klines[o[k]].confirm /\ klines[o[k]].bar \in Bars
    OBVIOUS
  <2>1. o[k] \in confirmed
    BY <1>4
  <2> HIDE DEF o
  <2>2. klines[o[k]] \in Klines
    BY <1>1, <2>1, ElementOfSeq
  <2> QED
    BY <2>1, <2>2 DEF Klines
<1> HIDE DEF confirmed, n, o
<1>7. s \in Seq(Bars) /\ DOMAIN s = 1 .. n
  BY <1>3, <1>6
<1>8. \A k \in 1 .. n : \E i \in DOMAIN klines : klines[i].confirm /\ s[k] = klines[i].bar
  BY <1>6
<1>9. ASSUME \A i, j \in DOMAIN klines : i < j => klines[i].bar < klines[j].bar
      PROVE  Ascending(s)
  <2>1. \A j, k \in 1 .. n : j < k => s[j] < s[k]
    BY <1>4, <1>6, <1>9
  <2> HIDE DEF s
  <2> QED
    BY <1>7, <2>1 DEF Ascending
<1> QED
  BY <1>5, <1>7, <1>8, <1>9

\* Later bars after earlier ones.
LEMMA ConcatKeepsOrder ==
  ASSUME NEW s \in Seq(Bars), NEW t \in Seq(Bars)
  PROVE  /\ s \o t \in Seq(Bars)
         /\ \A i \in DOMAIN (s \o t) : (\E j \in DOMAIN s : (s \o t)[i] = s[j])
                                     \/ (\E j \in DOMAIN t : (s \o t)[i] = t[j])
         /\ (Ascending(s) /\ Ascending(t) /\ \A i \in DOMAIN s, j \in DOMAIN t : s[i] < t[j])
              => Ascending(s \o t)
<1> DEFINE a == Len(s)
           b == Len(t)
           c == s \o t
<1>1. a \in Nat /\ b \in Nat /\ DOMAIN s = 1 .. a /\ DOMAIN t = 1 .. b
  BY LenProperties
<1>2. /\ c \in Seq(Bars) /\ DOMAIN c = 1 .. a + b
      /\ \A k \in 1 .. a + b : c[k] = IF k <= a THEN s[k] ELSE t[k - a]
  OBVIOUS
<1> HIDE DEF a, b, c
<1>3. ASSUME NEW k \in 1 .. a + b PROVE k \in 1 .. a \/ (k - a \in 1 .. b /\ ~(k <= a))
  <2>1. a \in Nat /\ b \in Nat
    BY <1>1
  <2> QED
    BY <2>1
<1>4. \A k \in 1 .. a + b : (\E j \in 1 .. a : c[k] = s[j]) \/ (\E j \in 1 .. b : c[k] = t[j])
  <2> SUFFICES ASSUME NEW k \in 1 .. a + b
               PROVE  (\E j \in 1 .. a : c[k] = s[j]) \/ (\E j \in 1 .. b : c[k] = t[j])
    OBVIOUS
  <2>1. CASE k \in 1 .. a
    <3>1. k <= a
      BY <1>1, <2>1
    <3> QED
      BY <1>2, <2>1, <3>1
  <2>2. CASE k - a \in 1 .. b /\ ~(k <= a)
    BY <1>2, <2>2
  <2> QED
    BY <1>3, <2>1, <2>2
<1>5. ASSUME Ascending(s), Ascending(t), \A i \in 1 .. a, j \in 1 .. b : s[i] < t[j]
      PROVE  Ascending(c)
  <2> SUFFICES ASSUME NEW i \in 1 .. a + b, NEW j \in 1 .. a + b, i < j PROVE c[i] < c[j]
    BY <1>2 DEF Ascending
  <2>1. CASE j <= a
    <3>1. i \in 1 .. a /\ j \in 1 .. a /\ i <= a
      BY <1>1, <2>1
    <3> QED
      BY <1>1, <1>2, <1>5, <2>1, <3>1 DEF Ascending
  <2>2. CASE ~(i <= a)
    <3>1. i - a \in 1 .. b /\ j - a \in 1 .. b /\ i - a < j - a /\ ~(j <= a)
      BY <1>1, <2>2
    <3> QED
      BY <1>1, <1>2, <1>5, <2>2, <3>1 DEF Ascending
  <2>3. CASE i <= a /\ ~(j <= a)
    <3>1. i \in 1 .. a /\ j - a \in 1 .. b
      BY <1>1, <2>3
    <3> QED
      BY <1>2, <1>5, <2>3, <3>1
  <2> QED
    BY <2>1, <2>2, <2>3
<1> QED
  BY <1>1, <1>2, <1>4, <1>5 DEF c

-----------------------------------------------------------------------------
(* Every step keeps the invariant. *)

LEMMA HubInitial == HubInit => HubInv
<1> SUFFICES ASSUME HubInit PROVE HubInv
  OBVIOUS
<1>1. 1 \in Bars /\ MaxBar \in Nat
  BY BarsAre
<1>2. /\ feed \in {"stream", "poll", "both"} /\ now = 1 /\ up = FALSE /\ wire = << >>
      /\ silent = TRUE /\ series = <<1>> /\ lastFinal = 0 /\ poll = << >>
      /\ backfill = << >> /\ closes = << >>
  BY HubAssumption DEF HubInit
<1>3. series \in Seq(Bars) /\ series # << >> /\ Last(series) = 1 /\ DOMAIN series = 1 .. 1
      /\ series[1] = 1
  BY <1>1, <1>2 DEF Last
<1>4. Ascending(series)
  BY <1>3 DEF Ascending
<1>5. HubTypeOK
  <2>1. << >> \in Seq(Klines) /\ << >> \in Seq(Bars)
    BY EmptySeq
  <2>2. wire \in Seq(Klines) /\ poll \in Seq(Klines) /\ backfill \in Seq(Bars) /\ closes \in Seq(Bars)
    BY <1>2, <2>1
  <2>3. now \in Bars /\ lastFinal \in 0 .. MaxBar /\ up \in BOOLEAN /\ silent \in BOOLEAN
    <3>1. 0 \in 0 .. MaxBar
      BY <1>1
    <3> QED
      BY <1>1, <1>2, <3>1
  <2>4. feed \in {"stream", "poll", "both"}
    BY <1>2
  <2> QED
    BY <1>3, <2>2, <2>3, <2>4 DEF HubTypeOK
<1>6. WireInOrder /\ PollInOrder /\ Ascending(closes)
  BY <1>2 DEF WireInOrder, PollInOrder, Ascending
<1>7. StreamInv
  BY <1>2, <1>3, <1>4, <1>6 DEF StreamInv
<1>8. PollInv
  BY <1>2, <1>6 DEF PollInv
<1> QED
  BY <1>5, <1>6, <1>7, <1>8 DEF HubInv

\* A message of the forming bar is appended.
LEMMA WireAppended ==
  ASSUME HubTypeOK, HubTypeOK', WireInOrder, NEW c \in BOOLEAN, now' = IF c THEN now + 1 ELSE now,
         wire' = Append(wire, Kline(now, c))
  PROVE  /\ WireInOrder'
         /\ \A j \in DOMAIN wire' : wire'[j].bar = now
                                   \/ (j \in DOMAIN wire /\ wire'[j].bar = wire[j].bar)
<1> DEFINE n == Len(wire)
<1>1. /\ n \in Nat /\ DOMAIN wire = 1 .. n /\ DOMAIN wire' = 1 .. n + 1
      /\ wire'[n + 1] = Kline(now, c) /\ \A i \in 1 .. n : wire'[i] = wire[i]
  BY DEF HubTypeOK
<1>2. now \in Int /\ now' \in Int /\ now <= now'
  BY BarsAre DEF HubTypeOK
<1>3. Kline(now, c).bar = now /\ Kline(now, c).confirm = c
  BY DEF Kline
<1>4. \A i \in 1 .. n : /\ wire[i].bar <= now /\ (wire[i].confirm => wire[i].bar < now)
                        /\ wire[i].bar \in Int
  <2>1. \A i \in 1 .. n : wire[i] \in Klines
    BY <1>1, ElementOfSeq DEF HubTypeOK
  <2>2. \A i \in 1 .. n : wire[i].bar \in Int
    BY <2>1, BarsAre DEF Klines
  <2> QED
    BY <1>1, <2>2 DEF WireInOrder
<1>5. \A i, j \in 1 .. n :
        i < j => wire[i].bar <= wire[j].bar /\ (wire[i].confirm => wire[i].bar < wire[j].bar)
  BY <1>1 DEF WireInOrder
<1> HIDE DEF n
<1>6. ASSUME NEW i \in 1 .. n + 1
      PROVE  wire'[i].bar <= now' /\ (wire'[i].confirm => wire'[i].bar < now')
  <2>1. CASE i = n + 1
    BY <1>1, <1>2, <1>3, <2>1
  <2>2. CASE i \in 1 .. n
    <3>1. /\ wire'[i] = wire[i] /\ wire[i].bar <= now /\ wire[i].bar \in Int
          /\ wire[i].confirm => wire[i].bar < now
      BY <1>1, <1>4, <2>2
    <3> QED
      BY <1>2, <3>1
  <2> QED
    BY <1>1, <2>1, <2>2
<1>7. ASSUME NEW i \in 1 .. n + 1, NEW j \in 1 .. n + 1, i < j
      PROVE  /\ wire'[i].bar <= wire'[j].bar
             /\ wire'[i].confirm => wire'[i].bar < wire'[j].bar
  <2>1. i \in 1 .. n
    BY <1>1, <1>7
  <2>2. CASE j = n + 1
    BY <1>1, <1>3, <1>4, <2>1, <2>2
  <2>3. CASE j \in 1 .. n
    BY <1>1, <1>5, <1>7, <2>1, <2>3
  <2> QED
    BY <1>1, <2>2, <2>3
<1>8. WireInOrder'
  <2>1. /\ \A i \in 1 .. n + 1 : wire'[i].bar <= now' /\ (wire'[i].confirm => wire'[i].bar < now')
        /\ \A i, j \in 1 .. n + 1 :
             i < j => wire'[i].bar <= wire'[j].bar /\ (wire'[i].confirm => wire'[i].bar < wire'[j].bar)
    BY <1>6, <1>7
  <2> QED
    BY <1>1, <2>1 DEF WireInOrder
<1>9. ASSUME NEW j \in 1 .. n + 1
      PROVE  wire'[j].bar = now \/ (j \in 1 .. n /\ wire'[j].bar = wire[j].bar)
  <2>1. j = n + 1 \/ j \in 1 .. n
    BY <1>1
  <2> QED
    BY <1>1, <1>3, <2>1
<1> QED
  BY <1>1, <1>8, <1>9

\* The order of the polled bars is that of the clock, whatever the stream does.
LEMMA UpdateKeeps ==
  ASSUME HubInv, Update
  PROVE  HubInv'
<1> USE DEF HubInv
<1>1. /\ up /\ wire' = Append(wire, Kline(now, FALSE))
      /\ UNCHANGED <<feed, now, up, silent, series, lastFinal, poll, backfill, closes>>
  BY DEF Update
<1>2. HubTypeOK'
  <2>1. Kline(now, FALSE) \in Klines
    BY DEF HubTypeOK, Kline, Klines
  <2>2. wire' \in Seq(Klines)
    BY <1>1, <2>1, AppendProperties DEF HubTypeOK
  <2> QED
    BY <1>1, <2>2 DEF HubTypeOK
<1>3. /\ WireInOrder'
      /\ \A j \in DOMAIN wire' : wire'[j].bar = now
                                \/ (j \in DOMAIN wire /\ wire'[j].bar = wire[j].bar)
  <2>1. now' = IF FALSE THEN now + 1 ELSE now
    BY <1>1
  <2> QED
    BY <1>1, <1>2, <2>1, WireAppended
<1>4. PollInOrder'
  BY <1>1 DEF PollInOrder
<1>5. ASSUME feed = "stream" PROVE StreamInv'
  <2>1. StreamInv
    BY <1>5
  <2>2. Ascending(closes') /\ Ascending(series')
    BY <1>1, <2>1 DEF StreamInv
  <2>3. \A i \in DOMAIN closes' : closes'[i] < now' /\ \A j \in DOMAIN wire' : closes'[i] < wire'[j].bar
    BY <1>1, <1>3, <2>1 DEF StreamInv
  <2>4. \A j \in DOMAIN wire' : Last(series') <= wire'[j].bar
    BY <1>1, <1>3, <2>1 DEF StreamInv
  <2> QED
    BY <1>1, <2>1, <2>2, <2>3, <2>4 DEF StreamInv
<1>6. feed # "poll"
  BY <1>1 DEF PollInv
<1> QED
  BY <1>1, <1>2, <1>3, <1>4, <1>5, <1>6

LEMMA CloseKeeps ==
  ASSUME HubInv, Close
  PROVE  HubInv'
<1> USE DEF HubInv
<1>1. /\ now < MaxBar /\ now' = now + 1
      /\ wire' = IF up THEN Append(wire, Kline(now, TRUE)) ELSE wire
      /\ UNCHANGED <<feed, up, silent, series, lastFinal, poll, backfill, closes>>
  BY DEF Close
<1>2. now \in Int /\ now' \in Bars /\ now < now'
  BY <1>1, BarsAre DEF HubTypeOK
<1>3. HubTypeOK'
  <2>1. Kline(now, TRUE) \in Klines
    BY DEF HubTypeOK, Kline, Klines
  <2>2. wire \in Seq(Klines) /\ Append(wire, Kline(now, TRUE)) \in Seq(Klines)
    BY <2>1, AppendProperties DEF HubTypeOK
  <2>3. wire' \in Seq(Klines)
    BY <1>1, <2>2
  <2> QED
    BY <1>1, <1>2, <2>3 DEF HubTypeOK
<1>4. \A i \in DOMAIN wire : wire[i].bar \in Int
  <2>1. \A i \in DOMAIN wire : wire[i] \in Klines
    BY LenProperties, ElementOfSeq DEF HubTypeOK
  <2> QED
    BY <2>1, BarsAre DEF Klines
<1>5. /\ WireInOrder'
      /\ \A j \in DOMAIN wire' : wire'[j].bar = now
                                \/ (j \in DOMAIN wire /\ wire'[j].bar = wire[j].bar)
  <2>1. CASE up
    <3>1. now' = IF TRUE THEN now + 1 ELSE now
      BY <1>1
    <3>2. wire' = Append(wire, Kline(now, TRUE))
      BY <1>1, <2>1
    <3> QED
      BY <1>3, <3>1, <3>2, WireAppended
  <2>2. CASE ~up
    <3>1. wire' = wire
      BY <1>1, <2>2
    <3>2. \A i \in DOMAIN wire : wire[i].bar <= now' /\ (wire[i].confirm => wire[i].bar < now')
      BY <1>2, <1>4, BarsAre DEF WireInOrder
    <3> QED
      BY <3>1, <3>2 DEF WireInOrder
  <2> QED
    BY <2>1, <2>2
<1>6. PollInOrder'
  BY <1>1 DEF PollInOrder
<1>7. ASSUME feed = "stream" PROVE StreamInv'
  <2>1. StreamInv
    BY <1>7
  <2>2. Ascending(closes') /\ Ascending(series')
    BY <1>1, <2>1 DEF StreamInv
  <2>3. ASSUME NEW i \in DOMAIN closes PROVE closes[i] < now' /\ \A j \in DOMAIN wire' : closes[i] < wire'[j].bar
    <3>1. closes[i] < now /\ \A j \in DOMAIN wire : closes[i] < wire[j].bar
      BY <2>1 DEF StreamInv
    <3>2. closes[i] \in Int
      BY BarsAre, LenProperties, ElementOfSeq DEF HubTypeOK
    <3>3. now' \in Int
      BY <1>1, <1>2
    <3> QED
      BY <1>2, <1>5, <3>1, <3>2, <3>3
  <2>4. \A j \in DOMAIN wire' : Last(series') <= wire'[j].bar
    BY <1>1, <1>5, <2>1 DEF StreamInv
  <2>5. Last(series') <= now'
    <3>1. Last(series) \in Int
      <4>1. Last(series) \in Bars
        BY <2>1, LastIsGreatest DEF HubTypeOK, StreamInv
      <4> QED
        BY <4>1, BarsAre
    <3> QED
      BY <1>1, <1>2, <2>1, <3>1 DEF StreamInv
  <2> QED
    BY <1>1, <2>1, <2>2, <2>3, <2>4, <2>5 DEF StreamInv
<1>8. ASSUME feed = "poll" PROVE PollInv'
  BY <1>1, <1>8 DEF PollInv
<1> QED
  BY <1>1, <1>3, <1>5, <1>6, <1>7, <1>8

LEMMA ConnectionKeeps ==
  ASSUME HubInv, Disconnect \/ Reconnect \/ FallSilent
  PROVE  HubInv'
<1> USE DEF HubInv
<1>1. /\ UNCHANGED <<feed, now, series, lastFinal, poll, backfill, closes>>
      /\ (wire' = wire \/ wire' = << >>) /\ up' \in BOOLEAN /\ silent' \in BOOLEAN
      /\ feed = "poll" => up' = up
  BY DEF Disconnect, Reconnect, FallSilent, HubTypeOK, PollInv
<1>2. HubTypeOK'
  <2>1. wire' \in Seq(Klines)
    BY <1>1, EmptySeq DEF HubTypeOK
  <2> QED
    BY <1>1, <2>1 DEF HubTypeOK
<1>3. WireInOrder' /\ \A j \in DOMAIN wire' : j \in DOMAIN wire /\ wire'[j] = wire[j]
  BY <1>1 DEF WireInOrder
<1>4. PollInOrder'
  BY <1>1 DEF PollInOrder
<1>5. ASSUME feed = "stream" PROVE StreamInv'
  <2>1. StreamInv
    BY <1>5
  <2>2. Ascending(closes') /\ Ascending(series')
    BY <1>1, <2>1 DEF StreamInv
  <2> QED
    BY <1>1, <1>3, <2>1, <2>2 DEF StreamInv
<1>6. ASSUME feed = "poll" PROVE PollInv'
  BY <1>1, <1>6 DEF PollInv
<1> QED
  BY <1>1, <1>2, <1>3, <1>4, <1>5, <1>6

\* The first message is handled: its bar is stored and perhaps closed.
LEMMA StreamDeliversKeeps ==
  ASSUME HubInv, StreamDelivers
  PROVE  HubInv'
<1> USE DEF HubInv
<1> DEFINE h == Head(wire)
           n == Len(wire)
           bars == [i \in DOMAIN <<h>> |-> <<h>>[i].bar]
<1>1. /\ wire # << >> /\ series' = Looped(Stored, series, bars)
      /\ closes' = closes \o Closing(<<h>>) /\ wire' = Tail(wire) /\ silent' = FALSE
      /\ UNCHANGED <<feed, now, up, lastFinal, poll, backfill>>
  BY DEF StreamDelivers, Handle
<1>2. wire \in Seq(Klines) /\ n \in Nat \ {0} /\ DOMAIN wire = 1 .. n
  <2>1. wire \in Seq(Klines)
    BY DEF HubTypeOK
  <2> QED
    BY <1>1, <2>1, EmptySeq, LenProperties
<1>3. /\ h = wire[1] /\ h \in Klines /\ wire' \in Seq(Klines) /\ DOMAIN wire' = 1 .. n - 1
      /\ \A i \in 1 .. n - 1 : wire'[i] = wire[i + 1]
  BY <1>1, <1>2
<1>4. h.bar \in Bars /\ h.confirm \in BOOLEAN
  BY <1>3 DEF Klines
<1>5. bars = <<h.bar>> /\ <<h.bar>> \in Seq(Bars) /\ <<h>> \in Seq(Klines)
  BY <1>3, <1>4
<1> HIDE DEF bars, h, n
<1>6. /\ Closing(<<h>>) \in Seq(Bars)
      /\ \A k \in DOMAIN Closing(<<h>>) : h.confirm /\ Closing(<<h>>)[k] = h.bar
      /\ Ascending(Closing(<<h>>))
  <2>1. \A i, j \in DOMAIN <<h>> : i < j => <<h>>[i].bar < <<h>>[j].bar
    OBVIOUS
  <2>2. \A i \in DOMAIN <<h>> : <<h>>[i] = h
    OBVIOUS
  <2> QED
    BY <1>5, <2>1, <2>2, ClosingIs
<1>7. closes \in Seq(Bars) /\ series \in Seq(Bars) /\ series # << >>
  BY DEF HubTypeOK
<1>8. HubTypeOK'
  <2>1. closes' \in Seq(Bars)
    BY <1>1, <1>6, <1>7, ConcatKeepsOrder
  <2>2. series' \in Seq(Bars) /\ series' # << >>
    BY <1>1, <1>5, <1>7, StoresAll
  <2> QED
    BY <1>1, <1>3, <2>1, <2>2 DEF HubTypeOK
<1>9. /\ \A i \in 1 .. n : wire[i].bar <= now /\ (wire[i].confirm => wire[i].bar < now)
      /\ \A i, j \in 1 .. n :
           i < j => wire[i].bar <= wire[j].bar /\ (wire[i].confirm => wire[i].bar < wire[j].bar)
  BY <1>2 DEF WireInOrder
<1>10. \A i \in 1 .. n - 1 : i + 1 \in 1 .. n /\ 1 < i + 1 /\ 1 \in 1 .. n
  BY <1>2
<1>11. /\ \A i \in 1 .. n - 1 : wire'[i].bar <= now /\ (wire'[i].confirm => wire'[i].bar < now)
       /\ \A i, j \in 1 .. n - 1 :
            i < j => wire'[i].bar <= wire'[j].bar /\ (wire'[i].confirm => wire'[i].bar < wire'[j].bar)
  <2>1. \A i, j \in 1 .. n - 1 : i < j => i + 1 < j + 1
    BY <1>2
  <2> QED
    BY <1>3, <1>9, <1>10, <2>1
<1>12. WireInOrder'
  BY <1>1, <1>3, <1>11 DEF WireInOrder
<1>13. PollInOrder'
  BY <1>1 DEF PollInOrder
<1>14. ASSUME feed = "stream" PROVE StreamInv'
  <2>1. StreamInv
    BY <1>14
  <2>2. 1 \in 1 .. n
    BY <1>2
  <2>3. h.bar <= now /\ (h.confirm => h.bar < now)
    BY <1>3, <1>9, <2>2
  <2>4. \A j \in 1 .. n - 1 : h.bar <= wire'[j].bar /\ (h.confirm => h.bar < wire'[j].bar)
    BY <1>3, <1>9, <1>10
  <2>5. Last(series) <= h.bar /\ \A i \in DOMAIN closes : closes[i] < h.bar
    BY <1>2, <1>3, <2>1, <2>2 DEF StreamInv
  <2>6. \A i \in DOMAIN closes : closes[i] < now /\ \A j \in 1 .. n - 1 : closes[i] < wire'[j].bar
    BY <1>2, <1>3, <1>10, <2>1 DEF StreamInv
  <2>7. Ascending(closes')
    <3>1. Ascending(closes)
      BY <2>1 DEF StreamInv
    <3>2. \A i \in DOMAIN closes, j \in DOMAIN Closing(<<h>>) : closes[i] < Closing(<<h>>)[j]
      BY <1>6, <2>5
    <3> QED
      BY <1>1, <1>6, <1>7, <3>1, <3>2, ConcatKeepsOrder
  <2>8. ASSUME NEW i \in DOMAIN closes'
        PROVE  closes'[i] < now /\ \A j \in 1 .. n - 1 : closes'[i] < wire'[j].bar
    <3>1. \/ \E j \in DOMAIN closes : closes'[i] = closes[j]
          \/ \E j \in DOMAIN Closing(<<h>>) : closes'[i] = Closing(<<h>>)[j]
      BY <1>1, <1>6, <1>7, <2>8, ConcatKeepsOrder
    <3> QED
      BY <1>6, <2>3, <2>4, <2>6, <3>1
  <2>9. /\ Ascending(series') /\ Last(series') <= h.bar /\ Last(series') \in Int
        /\ Last(series) <= Last(series')
    <3>1. Ascending(series)
      BY <2>1 DEF StreamInv
    <3>2. Ascending(series') /\ Last(series') <= h.bar
      BY <1>1, <1>4, <1>5, <1>7, <2>5, <3>1, StoresOne
    <3>3. Last(series') \in Bars
      BY <1>8, <3>2, LastIsGreatest DEF HubTypeOK
    <3>4. Last(series) <= Last(series')
      BY <1>1, <1>4, <1>5, <1>7, <2>5, <3>1, StoresOne
    <3> QED
      BY <3>2, <3>3, <3>4, BarsAre
  <2>10. h.bar \in Int /\ now \in Int /\ \A j \in 1 .. n - 1 : wire'[j].bar \in Int
    <3>1. \A j \in 1 .. n - 1 : wire'[j] \in Klines
      BY <1>3, ElementOfSeq, LenProperties
    <3>2. \A j \in 1 .. n - 1 : wire'[j].bar \in Bars
      BY <3>1 DEF Klines
    <3> QED
      BY <1>4, <3>2, BarsAre DEF HubTypeOK
  <2>11. Last(series') <= now /\ \A j \in 1 .. n - 1 : Last(series') <= wire'[j].bar
    BY <2>3, <2>4, <2>9, <2>10
  <2>12. \A i \in DOMAIN backfill : backfill[i] <= Last(series')
    <3>1. \A i \in DOMAIN backfill : backfill[i] <= Last(series) /\ backfill[i] \in Int
      BY <2>1, BarsAre, LenProperties, ElementOfSeq DEF StreamInv, HubTypeOK
    <3>2. Last(series) \in Int
      <4>1. Last(series) \in Bars
        BY <1>7, <2>1, LastIsGreatest DEF StreamInv
      <4> QED
        BY <4>1, BarsAre
    <3> QED
      BY <2>9, <3>1, <3>2
  <2>13. poll' = << >>
    BY <1>1, <2>1 DEF StreamInv
  <2> QED
    BY <1>1, <1>3, <2>7, <2>8, <2>9, <2>11, <2>12, <2>13 DEF StreamInv
<1>15. feed # "poll"
  BY <1>1 DEF PollInv
<1> QED
  BY <1>1, <1>8, <1>12, <1>13, <1>14, <1>15

LEMMA PollAsksKeeps ==
  ASSUME HubInv, PollAsks
  PROVE  HubInv'
<1> USE DEF HubInv
<1>1. /\ feed # "stream" /\ poll' = Polled
      /\ UNCHANGED <<feed, now, up, wire, silent, series, lastFinal, backfill, closes>>
  BY DEF PollAsks
<1> DEFINE n == Min({now, PolledBars})
<1>2. now \in Bars /\ now \in Int /\ 1 <= now /\ now <= MaxBar
  BY BarsAre DEF HubTypeOK
<1>3. n \in Nat /\ n <= now
  <2>1. PolledBars \in Nat \ {0}
    BY HubAssumption
  <2>2. n = IF now <= PolledBars THEN now ELSE PolledBars
    BY <1>2, <2>1, MinOfTwo
  <2> HIDE DEF n
  <2> QED
    BY <1>2, <2>1, <2>2
<1>4. Polled = [i \in 1 .. n |-> Kline(now - n + i, FALSE)]
  BY DEF Polled
<1> HIDE DEF n
<1>5. \A i \in 1 .. n : Kline(now - n + i, FALSE) \in Klines /\ Kline(now - n + i, FALSE).bar = now - n + i
  <2> SUFFICES ASSUME NEW i \in 1 .. n
               PROVE  Kline(now - n + i, FALSE) \in Klines /\ Kline(now - n + i, FALSE).bar = now - n + i
    OBVIOUS
  <2>1. now - n + i \in Int /\ 1 <= now - n + i /\ now - n + i <= MaxBar
    BY <1>2, <1>3, BarsAre
  <2>2. now - n + i \in Bars
    BY <2>1, BarsAre
  <2> QED
    BY <2>2 DEF Kline, Klines
<1>6. poll' \in Seq(Klines) /\ DOMAIN poll' = 1 .. n
  <2>1. poll' = [i \in 1 .. n |-> Kline(now - n + i, FALSE)]
    BY <1>1, <1>4
  <2>2. poll' \in [1 .. n -> Klines] /\ DOMAIN poll' = 1 .. n
    BY <1>5, <2>1
  <2> QED
    BY <1>3, <2>2
<1>7. HubTypeOK'
  BY <1>1, <1>6 DEF HubTypeOK
<1>8. WireInOrder'
  BY <1>1 DEF WireInOrder
<1>9. PollInOrder'
  <2>1. \A i \in 1 .. n : poll'[i].bar = now - n + i
    BY <1>1, <1>4, <1>5
  <2>2. \A i, j \in 1 .. n : i < j => now - n + i < now - n + j
    BY <1>2, <1>3
  <2>3. \A i, j \in 1 .. n : i < j => poll'[i].bar < poll'[j].bar
    BY <2>1, <2>2
  <2> QED
    BY <1>6, <2>3 DEF PollInOrder
<1>10. ASSUME feed = "poll" PROVE PollInv'
  BY <1>1, <1>10 DEF PollInv
<1> QED
  BY <1>1, <1>7, <1>8, <1>9, <1>10

\* The klines of a poll: those beyond the last one closed, but the newest, close.
LEMMA PollStoresKeeps ==
  ASSUME HubInv, PollStores
  PROVE  HubInv'
<1> USE DEF HubInv
<1> DEFINE klines == Ingested(poll)
           final == Closing(klines)
           bars == [i \in DOMAIN klines |-> klines[i].bar]
<1>1. /\ poll # << >> /\ series' = Looped(Stored, series, bars) /\ closes' = closes \o final
      /\ lastFinal' = IF final = << >> THEN lastFinal ELSE Last(final)
      /\ poll' = << >> /\ UNCHANGED <<feed, now, up, wire, silent, backfill>>
  BY DEF PollStores, Handle
<1>2. poll \in Seq(Klines) /\ DOMAIN poll = 1 .. Len(poll) /\ Len(poll) \in Nat
  BY LenProperties DEF HubTypeOK
<1>3. /\ klines = [i \in 1 .. Len(poll) |-> [poll[i] EXCEPT !.confirm = Confirms(poll[i], poll)]]
      /\ \A i \in 1 .. Len(poll) : poll[i] \in Klines
  BY <1>2, ElementOfSeq DEF Ingested
<1>4. \A i \in 1 .. Len(poll) :
        /\ klines[i] \in Klines /\ klines[i].bar = poll[i].bar /\ klines[i].bar \in Bars
        /\ klines[i].confirm => klines[i].bar > lastFinal
  <2> SUFFICES ASSUME NEW i \in 1 .. Len(poll)
               PROVE  /\ klines[i] \in Klines /\ klines[i].bar = poll[i].bar
                      /\ klines[i].bar \in Bars
                      /\ klines[i].confirm => klines[i].bar > lastFinal
    OBVIOUS
  <2>1. klines[i] = [poll[i] EXCEPT !.confirm = Confirms(poll[i], poll)]
    BY <1>3
  <2>2. Confirms(poll[i], poll) \in BOOLEAN /\ (Confirms(poll[i], poll) => poll[i].bar > lastFinal)
    BY DEF Confirms
  <2>3. poll[i] \in Klines
    BY <1>3
  <2> HIDE DEF klines
  <2> QED
    BY <2>1, <2>2, <2>3 DEF Klines
<1>5. klines \in Seq(Klines) /\ DOMAIN klines = 1 .. Len(poll)
  <2>1. DOMAIN klines = 1 .. Len(poll)
    BY <1>3
  <2>2. klines = [i \in 1 .. Len(poll) |-> klines[i]]
    BY <1>3
  <2> HIDE DEF klines
  <2> QED
    BY <1>2, <1>4, <2>1, <2>2
<1> HIDE DEF klines
<1>6. bars \in Seq(Bars)
  BY <1>2, <1>4, <1>5
<1>7. /\ final \in Seq(Bars) /\ Ascending(final)
      /\ \A k \in DOMAIN final : final[k] > lastFinal
  <2>1. \A i, j \in DOMAIN klines : i < j => klines[i].bar < klines[j].bar
    BY <1>2, <1>4, <1>5 DEF PollInOrder
  <2>2. /\ final \in Seq(Bars) /\ Ascending(final)
        /\ \A k \in DOMAIN final : \E i \in DOMAIN klines : klines[i].confirm /\ final[k] = klines[i].bar
    <3> HIDE DEF final
    <3> QED
      BY <1>5, <2>1, ClosingIs DEF final
  <2> HIDE DEF final
  <2> QED
    BY <1>4, <1>5, <2>2
<1> HIDE DEF final, bars
<1>8. closes \in Seq(Bars) /\ series \in Seq(Bars) /\ series # << >>
  BY DEF HubTypeOK
<1>9. lastFinal \in Int /\ 0 <= lastFinal /\ lastFinal <= MaxBar /\ MaxBar \in Nat
  BY BarsAre DEF HubTypeOK
<1>10. /\ lastFinal' \in 0 .. MaxBar /\ lastFinal <= lastFinal'
       /\ \A k \in DOMAIN final : final[k] <= lastFinal'
  <2>1. CASE final = << >>
    BY <1>1, <1>9, <2>1
  <2>2. CASE final # << >>
    <3>1. Last(final) \in Bars /\ \A k \in DOMAIN final : final[k] <= Last(final)
      BY <1>7, <2>2, LastIsGreatest
    <3>2. Last(final) \in Int /\ 1 <= Last(final) /\ Last(final) <= MaxBar
      BY <3>1, BarsAre
    <3>3. 1 \in DOMAIN final
      BY <1>7, <2>2, EmptySeq, LenProperties
    <3>4. final[1] > lastFinal /\ final[1] <= Last(final) /\ final[1] \in Int
      BY <1>7, <3>1, <3>3, BarsAre, LenProperties, ElementOfSeq
    <3> QED
      BY <1>1, <1>9, <2>2, <3>1, <3>2, <3>4
  <2> QED
    BY <2>1, <2>2
<1>11. HubTypeOK'
  <2>1. closes' \in Seq(Bars)
    BY <1>1, <1>7, <1>8, ConcatKeepsOrder
  <2>2. series' \in Seq(Bars) /\ series' # << >>
    BY <1>1, <1>6, <1>8, StoresAll
  <2>3. poll' \in Seq(Klines)
    BY <1>1, EmptySeq
  <2> QED
    BY <1>1, <1>10, <2>1, <2>2, <2>3 DEF HubTypeOK
<1>12. WireInOrder'
  BY <1>1 DEF WireInOrder
<1>13. PollInOrder'
  BY <1>1 DEF PollInOrder
<1>14. feed # "stream"
  BY <1>1 DEF StreamInv
<1>15. ASSUME feed = "poll" PROVE PollInv'
  <2>1. ~up /\ wire = << >> /\ Ascending(closes) /\ \A i \in DOMAIN closes : closes[i] <= lastFinal
    BY <1>15 DEF PollInv
  <2>2. \A i \in DOMAIN closes : closes[i] \in Int
    BY <1>8, BarsAre, LenProperties, ElementOfSeq
  <2>3. \A i \in DOMAIN closes : closes[i] <= lastFinal'
    <3>1. lastFinal' \in Int
      BY <1>9, <1>10
    <3> QED
      BY <1>9, <1>10, <2>1, <2>2, <3>1
  <2>4. \A i \in DOMAIN closes, j \in DOMAIN final : closes[i] < final[j]
    <3>1. \A j \in DOMAIN final : final[j] \in Int /\ final[j] > lastFinal
      BY <1>7, BarsAre, LenProperties, ElementOfSeq
    <3> QED
      BY <1>9, <2>1, <2>2, <3>1
  <2>5. Ascending(closes')
    BY <1>1, <1>7, <1>8, <2>1, <2>4, ConcatKeepsOrder
  <2>6. ASSUME NEW i \in DOMAIN closes' PROVE closes'[i] <= lastFinal'
    <3>1. \/ \E j \in DOMAIN closes : closes'[i] = closes[j]
          \/ \E j \in DOMAIN final : closes'[i] = final[j]
      BY <1>1, <1>7, <1>8, <2>6, ConcatKeepsOrder
    <3> QED
      BY <1>10, <2>3, <3>1
  <2> QED
    BY <1>1, <2>1, <2>5, <2>6 DEF PollInv
<1> QED
  BY <1>1, <1>11, <1>12, <1>13, <1>14, <1>15

\* What the reconciler is sent.
LEMMA ReconciledRows ==
  ASSUME NEW bars \in SUBSET Bars
  PROVE  /\ Reconciled[bars] \in Seq(Bars) /\ Ascending(Reconciled[bars])
         /\ ToSet(Reconciled[bars]) = Filled(bars, 1)
<1> DEFINE ids == Filled(bars, 1)
           n == Cardinality(ids)
           s == InOrder(ids)
<1>1. ids \in SUBSET Bars
  BY DEF Filled
<1>2. ids \in SUBSET Int /\ IsFiniteSet(ids)
  BY <1>1, BarsAre, FS_Subset
<1> HIDE DEF ids
<1>3. AscendingIn(ids, s)
  BY <1>2, InOrderIsOrdered
<1>4. \A i \in ids : \E k \in 1 .. n : s[k] = i
  BY <1>2, <1>3, OrderedHasAll
<1>5. /\ n \in Nat /\ s \in [1 .. n -> ids] /\ \A j, k \in 1 .. n : j < k => s[j] < s[k]
  BY <1>2, <1>3, FS_CardinalityType DEF AscendingIn
<1>6. s = Reconciled[bars]
  BY ReconciledIs DEF ids
<1> HIDE DEF s, n
<1>7. s \in Seq(Bars) /\ DOMAIN s = 1 .. n
  BY <1>1, <1>5
<1>8. Ascending(s)
  BY <1>5, <1>7 DEF Ascending
<1>9. ToSet(s) = ids
  BY <1>4, <1>5, <1>7 DEF ToSet
<1> QED
  BY <1>6, <1>7, <1>8, <1>9 DEF ids

LEMMA SeriesBars == HubTypeOK => ToSet(series) \in SUBSET Bars
<1> SUFFICES ASSUME HubTypeOK PROVE \A i \in DOMAIN series : series[i] \in Bars
  BY DEF ToSet
<1> QED
  BY LenProperties, ElementOfSeq DEF HubTypeOK

LEMMA ReconcilerAsksKeeps ==
  ASSUME HubInv, ReconcilerAsks
  PROVE  HubInv'
<1> USE DEF HubInv
<1> DEFINE bars == ToSet(series)
<1>1. /\ backfill' = Reconciled[bars]
      /\ UNCHANGED <<feed, now, up, wire, silent, series, lastFinal, poll, closes>>
  BY DEF ReconcilerAsks
<1>2. bars \in SUBSET Bars
  BY SeriesBars
<1>3. bars = {series[i] : i \in DOMAIN series}
  BY DEF ToSet
<1> HIDE DEF bars
<1>4. backfill' \in Seq(Bars) /\ ToSet(backfill') = Filled(bars, 1)
  BY <1>1, <1>2, ReconciledRows
<1>5. HubTypeOK'
  BY <1>1, <1>4 DEF HubTypeOK
<1>6. WireInOrder' /\ PollInOrder'
  BY <1>1 DEF WireInOrder, PollInOrder
<1>7. ASSUME feed = "stream" PROVE StreamInv'
  <2>1. StreamInv
    BY <1>7
  <2>2. Last(series) \in Bars /\ \A i \in DOMAIN series : series[i] <= Last(series)
    BY <2>1, LastIsGreatest DEF StreamInv, HubTypeOK
  <2>3. ASSUME NEW i \in DOMAIN backfill' PROVE backfill'[i] <= Last(series)
    <3>1. backfill'[i] \in Filled(bars, 1)
      BY <1>4 DEF ToSet
    <3>2. PICK low \in Gaps(bars) : backfill'[i] <= GapEnd(bars, low) + 1
      BY <3>1 DEF Filled
    <3>3. GapEnd(bars, low) + 1 \in bars
      BY <1>2, GapEndIs
    <3>4. GapEnd(bars, low) + 1 <= Last(series)
      BY <1>3, <2>2, <3>3
    <3>5. backfill'[i] \in Int /\ GapEnd(bars, low) + 1 \in Int /\ Last(series) \in Int
      <4>1. backfill'[i] \in Bars
        BY <3>1 DEF Filled
      <4> QED
        BY <1>2, <2>2, <3>3, <4>1, BarsAre
    <3> QED
      BY <3>2, <3>4, <3>5
  <2>4. Ascending(closes') /\ Ascending(series')
    BY <1>1, <2>1 DEF StreamInv
  <2> QED
    BY <1>1, <2>1, <2>3, <2>4 DEF StreamInv
<1>8. ASSUME feed = "poll" PROVE PollInv'
  BY <1>1, <1>8 DEF PollInv
<1> QED
  BY <1>1, <1>5, <1>6, <1>7, <1>8

LEMMA ReconcilerMergesKeeps ==
  ASSUME HubInv, ReconcilerMerges
  PROVE  HubInv'
<1> USE DEF HubInv
<1>1. /\ series' = Looped(Merged, series, backfill) /\ backfill' = << >>
      /\ UNCHANGED <<feed, now, up, wire, silent, lastFinal, poll, closes>>
  BY DEF ReconcilerMerges
<1>2. series \in Seq(Bars) /\ series # << >> /\ backfill \in Seq(Bars)
  BY DEF HubTypeOK
<1>3. HubTypeOK'
  <2>1. series' \in Seq(Bars) /\ series' # << >>
    BY <1>1, <1>2, MergesAll
  <2>2. backfill' \in Seq(Bars)
    BY <1>1, EmptySeq
  <2> QED
    BY <1>1, <2>1, <2>2 DEF HubTypeOK
<1>4. WireInOrder' /\ PollInOrder'
  BY <1>1 DEF WireInOrder, PollInOrder
<1>5. ASSUME feed = "stream" PROVE StreamInv'
  <2>1. StreamInv
    BY <1>5
  <2>2. Ascending(series') /\ Last(series') = Last(series)
    BY <1>1, <1>2, <2>1, MergesInOrder DEF StreamInv
  <2>3. Ascending(closes')
    BY <1>1, <2>1 DEF StreamInv
  <2> QED
    BY <1>1, <2>1, <2>2, <2>3 DEF StreamInv
<1>6. ASSUME feed = "poll" PROVE PollInv'
  BY <1>1, <1>6 DEF PollInv
<1> QED
  BY <1>1, <1>3, <1>4, <1>5, <1>6

LEMMA HubStep == HubInv /\ [HubNext]_hubVars => HubInv'
<1> SUFFICES ASSUME HubInv, [HubNext]_hubVars PROVE HubInv'
  OBVIOUS
<1>1. CASE UNCHANGED hubVars
  <2>1. Ascending(closes') <=> Ascending(closes)
    BY <1>1 DEF hubVars
  <2>2. Ascending(series') <=> Ascending(series)
    BY <1>1 DEF hubVars
  <2> QED
    BY <1>1, <2>1, <2>2 DEF hubVars, HubInv, HubTypeOK, WireInOrder, PollInOrder, StreamInv, PollInv
<1>2. CASE HubNext
  BY <1>2, UpdateKeeps, CloseKeeps, ConnectionKeeps, StreamDeliversKeeps, PollAsksKeeps,
     PollStoresKeeps, ReconcilerAsksKeeps, ReconcilerMergesKeeps DEF HubNext, Reconcile
<1> QED
  BY <1>1, <1>2

(* The invariant that the theorems below rest on holds of the hub in every   *)
(* run: what is on its way is in the order of time, and what one channel has *)
(* stored and closed is not after what is still to come.                     *)
THEOREM HubInvariant == HubSpec => []HubInv
  BY HubInitial, HubStep, PTL DEF HubSpec

(* While one channel works, no bar is given to the strategies twice: what    *)
(* Handle closes is in the order of time, for every history, limit and page. *)
THEOREM BarsCloseOnce == HubSpec => []CloseFiresOnce
<1>1. HubInv => CloseFiresOnce
  <2> SUFFICES ASSUME HubInv, feed # "both", NEW i \in DOMAIN closes, NEW j \in DOMAIN closes,
                      closes[i] = closes[j]
               PROVE  i = j
    BY DEF CloseFiresOnce
  <2>1. Ascending(closes)
    BY DEF HubInv, HubTypeOK, StreamInv, PollInv
  <2>2. DOMAIN closes = 1 .. Len(closes) /\ Len(closes) \in Nat
    BY LenProperties DEF HubInv, HubTypeOK
  <2>3. closes[i] \in Int
    BY <2>2, BarsAre, ElementOfSeq DEF HubInv, HubTypeOK
  <2>4. ~(i < j) /\ ~(j < i)
    BY <2>1, <2>3 DEF Ascending
  <2> QED
    BY <2>2, <2>4
<1> QED
  BY <1>1, HubInvariant, PTL

(* The series of a streamed symbol stays in the order of time, whatever the  *)
(* connection loses and however late the reconciler's rows are merged.       *)
THEOREM StreamedSeriesIsAscending == HubSpec => []SeriesAscending
<1>1. HubInv => SeriesAscending
  <2> SUFFICES ASSUME HubInv, feed = "stream", NEW i \in DOMAIN series, i > 1
               PROVE  series[i - 1] < series[i]
    BY DEF SeriesAscending
  <2>1. Ascending(series)
    BY DEF HubInv, StreamInv
  <2>2. DOMAIN series = 1 .. Len(series) /\ Len(series) \in Nat
    BY LenProperties DEF HubInv, HubTypeOK
  <2>3. i - 1 \in DOMAIN series /\ i - 1 < i
    BY <2>2
  <2> QED
    BY <2>1, <2>3 DEF Ascending
<1> QED
  BY <1>1, HubInvariant, PTL

\* A bar is missing when it is not stored and lies within an answered gap.
LEMMA MissingIsFilled ==
  ASSUME HubTypeOK, NEW bars, bars = ToSet(series)
  PROVE  Filled(bars, 1) \ bars = {b \in Bars : Missing(b)}
<1>1. bars \in SUBSET Bars
  BY SeriesBars
<1>2. \A b \in Bars : Missing(b) <=> (b \notin bars /\ (\E x \in bars : x < b) /\ \E y \in bars : b < y)
  BY DEF Missing, ToSet
<1>3. \A b \in Bars : b \in Int
  BY BarsAre
<1>4. ASSUME NEW b \in Filled(bars, 1), b \notin bars PROVE b \in Bars /\ Missing(b)
  <2>1. b \in Bars
    BY DEF Filled
  <2>2. PICK low \in Gaps(bars) : low < b /\ b <= GapEnd(bars, low) + 1
    BY DEF Filled
  <2>3. low \in bars /\ GapEnd(bars, low) + 1 \in bars
    BY <1>1, GapEndIs
  <2>4. GapEnd(bars, low) + 1 \in Int /\ GapEnd(bars, low) + 1 # b
    BY <1>1, <1>3, <1>4, <2>3
  <2>5. b < GapEnd(bars, low) + 1
    BY <1>3, <2>1, <2>2, <2>4
  <2> QED
    BY <1>2, <2>1, <2>2, <2>3, <2>5, <1>4
<1>5. ASSUME NEW b \in Bars, Missing(b) PROVE b \in Filled(bars, 1) /\ b \notin bars
  <2>1. b \notin bars /\ (\E x \in bars : x < b) /\ \E y \in bars : b < y
    BY <1>2, <1>5
  <2> DEFINE below == {x \in bars : x < b}
             low == Max(below)
  <2>2. low \in below /\ \A x \in below : x <= low
    <3>1. below \in SUBSET Int /\ below # {}
      BY <1>1, <1>3, <2>1
    <3>2. IsFiniteSet(below)
      <4>1. below \subseteq Bars /\ IsFiniteSet(Bars)
        BY <1>1, BarsAre
      <4> QED
        BY <4>1, FS_Subset
    <3> HIDE DEF below
    <3> QED
      BY <3>1, <3>2, MaxIsMember
  <2> HIDE DEF low
  <2>3. low \in bars /\ low < b /\ low \in Int /\ 1 <= low
    BY <1>1, <2>2, BarsAre
  <2>4. low + 1 \notin bars
    <3>1. SUFFICES ASSUME low + 1 \in bars PROVE FALSE
      OBVIOUS
    <3>2. low + 1 # b
      BY <2>1, <3>1
    <3>3. low + 1 < b
      BY <1>3, <2>3, <3>2
    <3>4. low + 1 <= low
      BY <2>2, <3>1, <3>3
    <3> QED
      BY <2>3, <3>4
  <2>5. \E y \in bars : low < y
    <3>1. PICK y \in bars : b < y
      BY <2>1
    <3>2. y \in Int
      BY <1>1, <1>3
    <3> QED
      BY <1>3, <2>3, <3>1, <3>2
  <2>6. low \in Gaps(bars)
    BY <2>3, <2>4, <2>5 DEF Gaps
  <2>7. b <= GapEnd(bars, low) + 1
    <3> DEFINE e == GapEnd(bars, low) + 1
    <3>1. e \in bars /\ low + 1 < e
      BY <1>1, <2>6, GapEndIs
    <3>2. e \in Int
      BY <1>1, <1>3, <3>1
    <3> HIDE DEF e
    <3>3. ASSUME e < b PROVE FALSE
      <4>1. e <= low
        BY <2>2, <3>1, <3>3
      <4> QED
        BY <2>3, <3>1, <3>2, <4>1
    <3>4. b <= e
      BY <1>3, <3>2, <3>3
    <3> QED
      BY <3>4 DEF e
  <2> QED
    BY <2>1, <2>3, <2>6, <2>7 DEF Filled
<1> QED
  BY <1>4, <1>5

(* What the reconciler is sent, in pages of any size from either exchange,   *)
(* is every missing bar, in the order of time and no bar twice, and besides  *)
(* them only bars that the series has.                                       *)
THEOREM AnswersAreTheGaps == HubSpec => BackfillAnswersGaps
<1>1. ASSUME HubInv, [HubNext]_hubVars, backfill = << >>, backfill' # << >>
      PROVE  /\ ToSet(backfill') \ ToSet(series) = {b \in Bars : Missing(b)}
             /\ \A i \in DOMAIN backfill' : i > 1 => backfill'[i - 1] < backfill'[i]
  <2> DEFINE bars == ToSet(series)
  <2>1. backfill' = Reconciled[bars]
    BY <1>1 DEF HubNext, Reconcile, Update, Close, Disconnect, Reconnect, StreamDelivers, FallSilent,
       PollAsks, PollStores, ReconcilerAsks, ReconcilerMerges, hubVars
  <2>2. bars \in SUBSET Bars /\ HubTypeOK
    BY <1>1, SeriesBars DEF HubInv
  <2> HIDE DEF bars
  <2>3. backfill' \in Seq(Bars) /\ Ascending(backfill') /\ ToSet(backfill') = Filled(bars, 1)
    BY <2>1, <2>2, ReconciledRows
  <2>4. Filled(bars, 1) \ bars = {b \in Bars : Missing(b)}
    BY <2>2, MissingIsFilled DEF bars
  <2>5. DOMAIN backfill' = 1 .. Len(backfill') /\ Len(backfill') \in Nat
    BY <2>3, LenProperties
  <2>6. ASSUME NEW i \in DOMAIN backfill', i > 1 PROVE backfill'[i - 1] < backfill'[i]
    <3>1. i - 1 \in DOMAIN backfill' /\ i - 1 < i
      BY <2>5, <2>6
    <3> QED
      BY <2>3, <3>1 DEF Ascending
  <2> QED
    BY <2>3, <2>4, <2>6 DEF bars
<1>2. HubInv /\ [HubNext]_hubVars =>
        [backfill = << >> /\ backfill' # << >> =>
           /\ ToSet(backfill') \ ToSet(series) = {b \in Bars : Missing(b)}
           /\ \A i \in DOMAIN backfill' : i > 1 => backfill'[i - 1] < backfill'[i]]_hubVars
  BY <1>1
<1> QED
  BY <1>2, HubInvariant, PTL DEF HubSpec, BackfillAnswersGaps
=============================================================================
