----------------------------- MODULE RequestPacer -----------------------------
(***************************************************************************)
(* reconcile_job.py: PublicRequestPacer, the hook that a client calls      *)
(* before each request. Kraken keeps a counter for the key that a private  *)
(* request raises by its cost and time lowers; the pacer keeps an estimate *)
(* of it by the local monotonic clock and sleeps until a request fits      *)
(* under a ceiling. It cannot see when a request arrives. Public requests  *)
(* are kept an interval apart.                                             *)
(*                                                                         *)
(* A tick is the time in which the counter falls by one. The calls come    *)
(* one at a time: private ones hold the key's lock (PrivateRequests) and   *)
(* the job makes all of its calls in one thread.                           *)
(***************************************************************************)
EXTENDS Integers

CONSTANTS
  PrivateCosts,  \* of endpoints, in units of the counter
  Ceiling,       \* PRIVATE_COUNTER_CEILING
  Interval,      \* PUBLIC_REQUEST_INTERVAL_SECONDS, in ticks
  Delay,         \* the longest way of a request to Kraken
  Leftover,      \* what the counter may hold from an earlier process
  MaxClock       \* bound of the model: ticks of the local clock

ASSUME PacerAssumption ==
  /\ PrivateCosts \subseteq 1..Ceiling
  /\ {Ceiling, Interval, Delay} \subseteq Nat
  /\ Leftover \subseteq Nat
  /\ MaxClock \in Nat

VARIABLES
  monotonic,    \* the local clock
  estimate,     \* _private_counter
  lastPrivate,  \* _last_private_at, or NotYet
  lastPublic,   \* _last_public_at, or NotYet
  call,         \* the call that sleeps in the pacer
  recent,       \* recent[a]: the cost of the private requests on their way that
                \*   left at most a ticks ago
  publics,      \* the ages of the public requests on their way
  counter,      \* external: Kraken's counter of the key
  leftover,     \* external: what an earlier process had left in it
  sincePublic,  \* external: time since the last public request arrived, up to
                \*   Interval,
  publicGap     \*   and its least value at an arrival

krakens == <<counter, leftover, sincePublic, publicGap>>
pacer == <<monotonic, estimate, lastPrivate, lastPublic, call, recent, publics, krakens>>

NotYet == -1
NoCall == [kind |-> "none"]
Ages == 0..Delay

PacerInit ==
  /\ monotonic = 0
  /\ estimate = 0
  /\ lastPrivate = NotYet /\ lastPublic = NotYet
  /\ call = NoCall
  /\ recent = [a \in Ages |-> 0] /\ publics = {}
  /\ leftover \in Leftover /\ counter = leftover
  /\ sincePublic = Interval /\ publicGap = Interval

Lowered(n, by) == IF n > by THEN n - by ELSE 0

-----------------------------------------------------------------------------

\* The request goes out, or fails before it does.
Passed(cost, left, now) ==
  /\ estimate' = left + cost
  /\ lastPrivate' = now
  /\ call' = NoCall
  /\ recent' = [a \in Ages |-> recent[a] + cost] \/ UNCHANGED recent

Excess_OfBefore(left, cost) == left - Ceiling

Excess(left, cost) == left + cost - Ceiling

PacePrivate(cost) ==
  /\ call = NoCall
  /\ LET left == IF lastPrivate = NotYet THEN estimate
                 ELSE Lowered(estimate, monotonic - lastPrivate)
     IN \/ /\ Excess(left, cost) <= 0
           /\ Passed(cost, left, monotonic)
        \/ /\ Excess(left, cost) > 0
           /\ estimate' = left
           /\ call' = [kind |-> "private", cost |-> cost, at |-> monotonic,
                       wake |-> monotonic + Excess(left, cost)]
           /\ UNCHANGED <<lastPrivate, recent>>
  /\ UNCHANGED <<monotonic, lastPublic, publics, krakens>>

\* The sleep may last longer than asked.
WakePrivate ==
  /\ call.kind = "private" /\ monotonic >= call.wake
  /\ Passed(call.cost, Lowered(estimate, monotonic - call.at), monotonic)
  /\ UNCHANGED <<monotonic, lastPublic, publics, krakens>>

PublicPassed ==
  /\ lastPublic' = monotonic
  /\ call' = NoCall
  /\ publics' = publics \cup {0} \/ UNCHANGED publics

PacePublic ==
  /\ call = NoCall
  /\ \/ (lastPublic = NotYet \/ monotonic - lastPublic >= Interval) /\ PublicPassed
     \/ /\ lastPublic # NotYet /\ monotonic - lastPublic < Interval
        /\ call' = [kind |-> "public", wake |-> lastPublic + Interval]
        /\ UNCHANGED <<lastPublic, publics>>
  /\ UNCHANGED <<monotonic, estimate, lastPrivate, recent, krakens>>

WakePublic ==
  /\ call.kind = "public" /\ monotonic >= call.wake
  /\ PublicPassed
  /\ UNCHANGED <<monotonic, estimate, lastPrivate, recent, krakens>>

-----------------------------------------------------------------------------
(* Kraken and time (external)                                              *)

\* The cost of the private requests that left exactly a ticks ago.
OfAge(a) == IF a = 0 THEN recent[0] ELSE recent[a] - recent[a - 1]

\* Requests arrive in any order, or are lost.
ArrivePrivate(age, cost) ==
  /\ cost <= OfAge(age)
  /\ recent' = [a \in Ages |-> IF a >= age THEN recent[a] - cost ELSE recent[a]]
  /\ counter' = counter + cost \/ UNCHANGED counter
  /\ UNCHANGED <<monotonic, estimate, lastPrivate, lastPublic, call, publics, leftover,
                 sincePublic, publicGap>>

ArrivePublic(age) ==
  /\ publics' = publics \ {age}
  /\ \/ /\ sincePublic' = 0
        /\ publicGap' = IF sincePublic < publicGap THEN sincePublic ELSE publicGap
     \/ UNCHANGED <<sincePublic, publicGap>>
  /\ UNCHANGED <<monotonic, estimate, lastPrivate, lastPublic, call, recent, counter, leftover>>

\* Time passes; while the host is suspended its clock stands still.
Pass ==
  /\ OfAge(Delay) = 0 /\ Delay \notin publics
  /\ recent' = [a \in Ages |-> IF a = 0 THEN 0 ELSE recent[a - 1]]
  /\ publics' = {a + 1 : a \in publics}
  /\ counter' = Lowered(counter, 1)
  /\ sincePublic' = IF sincePublic < Interval THEN sincePublic + 1 ELSE Interval
  /\ (monotonic < MaxClock /\ monotonic' = monotonic + 1) \/ UNCHANGED monotonic
  /\ UNCHANGED <<estimate, lastPrivate, lastPublic, call, leftover, publicGap>>

PacerNext ==
  \/ \E cost \in PrivateCosts : PacePrivate(cost)
  \/ PacePublic
  \/ WakePrivate \/ WakePublic
  \/ \E age \in Ages, cost \in PrivateCosts : ArrivePrivate(age, cost)
  \/ \E age \in publics : ArrivePublic(age)
  \/ Pass

PacerSpec == PacerInit /\ [][PacerNext]_pacer

-----------------------------------------------------------------------------

\* Kraken's counter exceeds the ceiling at most by what falls off in the longest
\* way of a request, whatever is delayed, reordered, lost or slept through, on
\* top of what an earlier process left; and public requests arrive the interval
\* apart but for the difference of their ways.
KrakensLimitsHold ==
  /\ counter <= leftover + Ceiling + Delay
  /\ publicGap >= Interval - Delay

=============================================================================
