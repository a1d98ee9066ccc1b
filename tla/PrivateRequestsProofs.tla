------------------------- MODULE PrivateRequestsProofs ------------------------
(***************************************************************************)
(* What holds of PrivateRequests for every number of clients, every set of *)
(* endpoint costs, every limit and every choice of nonce sources, and of   *)
(* RequestPacer for every ceiling and every delay of requests. What holds  *)
(* of the former rests on the key's lock: between the charge of a request  *)
(* and its departure nobody else charges, signs or sends, so what the      *)
(* holder found out about the budget and about the last nonce is still     *)
(* true.                                                                   *)
(***************************************************************************)
EXTENDS PrivateRequests, RequestPacer, TLAPS

Inside == {"charge", "pace", "nonce", "send"}

\* A request between charge and departure holds the key's lock.
Locked == \A c \in Clients : pc[c] \in Inside <=> lock = c

\* What is charged but not sent yet is the holder's cost.
Charged == \A c \in Clients : pc[c] \in {"pace", "nonce"} => sent + cost[c] <= spent

\* Until a restart, all that Kraken has seen or may still see is at most the
\* last nonce signed, and below it while that one is on its way.
Ordered ==
  ~restarted =>
    /\ accepted <= lastNonce
    /\ \A n \in late : n <= lastNonce
    /\ \A c \in Clients : pc[c] = "send" =>
         /\ nonce[c] = lastNonce
         /\ accepted < nonce[c]
         /\ \A n \in late : n < nonce[c]

IInv == TypeOK /\ Locked /\ BudgetBoundsRequests /\ Charged /\ Ordered /\ NoNonceIsRefused

-----------------------------------------------------------------------------

LEMMA CandidateIsNat ==
  ASSUME TypeOK, NEW c \in Clients, NEW t \in 0..MaxNonce
  PROVE  Candidate(c, t) \in Nat
BY RequestsAssumption DEF TypeOK, Candidate, Nonces, Unset

LEMMA InitInv == Init => IInv
<1>. SUFFICES ASSUME Init PROVE IInv
  OBVIOUS
<1>. USE RequestsAssumption DEF Init, Unset
<1>1. TypeOK
  BY DEF TypeOK, Stages, Nonces
<1>2. Locked
  BY DEF Locked, Inside
<1>3. BudgetBoundsRequests /\ Charged
  BY DEF BudgetBoundsRequests, Charged
<1>4. Ordered /\ NoNonceIsRefused
  BY DEF Ordered, NoNonceIsRefused
<1>. QED
  BY <1>1, <1>2, <1>3, <1>4 DEF IInv

\* A request that fails before it is sent takes nothing along but the lock.
LEMMA Sent ==
  ASSUME TypeOK, NEW c \in Clients, NEW n \in Nat, pc[c] = "nonce", SignWith(c, n)
  PROVE  \/ /\ pc' = [pc EXCEPT ![c] = "failed"] /\ lock' = NoClient
            /\ UNCHANGED <<lastNonce, nonce, sent>> /\ source' \in Nonces
         \/ /\ pc' = [pc EXCEPT ![c] = "send"] /\ UNCHANGED lock
            /\ n \in 0..MaxNonce /\ n > lastNonce /\ lastNonce' = n
            /\ nonce' = [nonce EXCEPT ![c] = n]
            /\ sent' = sent + cost[c] /\ source' \in Nonces
BY RequestsAssumption DEF TypeOK, SignWith, Leave, Goto, Nonces

\* Every variable keeps its type.
THEOREM TypeCorrect == Spec => []TypeOK
<1>1. Init => TypeOK
  BY InitInv DEF IInv
<1>2. TypeOK /\ [Next]_vars => TypeOK'
  <2>. SUFFICES ASSUME TypeOK, [Next]_vars PROVE TypeOK'
    OBVIOUS
  <2>. USE RequestsAssumption DEF TypeOK, Goto, Leave, Stages
  <2>1. CASE LateArrival
    BY <2>1 DEF LateArrival, Arrive, Nonces
  <2>2. CASE Restart
    <3>1. accepted' \in Nonces
      <4>1. \A c \in Sending : nonce[c] \in Nonces
        BY DEF Sending
      <4>2. accepted' \in {accepted} \cup late \cup {nonce[c] : c \in Sending}
        BY <2>2 DEF Restart
      <4>. HIDE DEF TypeOK, Goto, Leave, Stages, Sending
      <4>3. accepted \in Nonces /\ late \subseteq Nonces
        BY DEF TypeOK, Nonces
      <4>. QED
        BY <4>1, <4>2, <4>3
    <3>2. /\ pc' \in [Clients -> Stages] /\ \A c \in Clients : pc'[c] = "idle"
          /\ cost' \in [Clients -> {0} \cup Costs] /\ nonce' \in [Clients -> Nonces]
      BY <2>2 DEF Restart, Nonces
    <3>3. /\ lock' \in Clients \cup {NoClient} /\ lastNonce' \in Nonces /\ source' \in Nonces
          /\ spent' \in Nat /\ sent' \in Nat /\ late' \in SUBSET (0..MaxNonce)
          /\ restarted' \in BOOLEAN
      BY <2>2 DEF Restart, Nonces
    <3>. QED
      BY <3>1, <3>2, <3>3
  <2>3. ASSUME NEW c \in Clients, Call(c) PROVE TypeOK'
    BY <2>3 DEF Call
  <2>4. ASSUME NEW c \in Clients, Acquire(c) PROVE TypeOK'
    BY <2>4 DEF Acquire
  <2>5. ASSUME NEW c \in Clients, Charge(c) PROVE TypeOK'
    <3>1. cost[c] \in Nat
      BY <2>5 DEF Charge
    <3>. QED
      BY <2>5, <3>1 DEF Charge
  <2>6. ASSUME NEW c \in Clients, Pace(c) PROVE TypeOK'
    BY <2>6 DEF Pace
  <2>7. ASSUME NEW c \in Clients, Sign(c) PROVE TypeOK'
    <3>1. PICK n \in Nat : pc[c] = "nonce" /\ SignWith(c, n)
      BY <2>7, CandidateIsNat DEF Sign
    <3>2. cost[c] \in Nat
      BY <3>1
    <3>3. UNCHANGED <<spent, cost, late, accepted, restarted>>
      BY <2>7 DEF Sign
    <3>4. CASE /\ pc' = [pc EXCEPT ![c] = "failed"] /\ lock' = NoClient
               /\ UNCHANGED <<lastNonce, nonce, sent>> /\ source' \in Nonces
      BY <3>1, <3>3, <3>4
    <3>5. CASE /\ pc' = [pc EXCEPT ![c] = "send"] /\ UNCHANGED lock
               /\ n \in 0..MaxNonce /\ n > lastNonce /\ lastNonce' = n
               /\ nonce' = [nonce EXCEPT ![c] = n]
               /\ sent' = sent + cost[c] /\ source' \in Nonces
      BY <3>1, <3>2, <3>3, <3>5 DEF Nonces
    <3>. QED
      BY <3>1, <3>4, <3>5, Sent
  <2>8. ASSUME NEW c \in Clients, Send(c) PROVE TypeOK'
    BY <2>8 DEF Send, Arrive, Nonces
  <2>9. ASSUME NEW c \in Clients, Timeout(c) PROVE TypeOK'
    BY <2>9 DEF Timeout, Arrive, Nonces
  <2>10. CASE UNCHANGED vars
    BY <2>10 DEF vars
  <2>. QED
    BY <2>1, <2>2, <2>3, <2>4, <2>5, <2>6, <2>7, <2>8, <2>9, <2>10 DEF Next, Step
<1>. QED
  BY <1>1, <1>2, PTL DEF Spec

-----------------------------------------------------------------------------

LEMMA NextLocked == TypeOK /\ Locked /\ [Next]_vars => Locked'
<1>. SUFFICES ASSUME TypeOK, Locked, [Next]_vars PROVE Locked'
  OBVIOUS
<1>. USE RequestsAssumption DEF TypeOK, Locked, Inside, Goto, Leave
<1>1. CASE LateArrival \/ UNCHANGED vars
  BY <1>1 DEF LateArrival, vars
<1>2. CASE Restart
  BY <1>2 DEF Restart
<1>3. ASSUME NEW c \in Clients, Call(c) PROVE Locked'
  BY <1>3 DEF Call
<1>4. ASSUME NEW c \in Clients, Acquire(c) PROVE Locked'
  BY <1>4 DEF Acquire
<1>5. ASSUME NEW c \in Clients, Charge(c) \/ Pace(c) PROVE Locked'
  BY <1>5 DEF Charge, Pace
<1>6. ASSUME NEW c \in Clients, Sign(c) PROVE Locked'
  <2>1. PICK n \in Nat : pc[c] = "nonce" /\ SignWith(c, n)
    BY <1>6, CandidateIsNat DEF Sign
  <2>2. \/ pc' = [pc EXCEPT ![c] = "failed"] /\ lock' = NoClient
        \/ pc' = [pc EXCEPT ![c] = "send"] /\ UNCHANGED lock
    BY <2>1, Sent
  <2>. QED
    BY <2>1, <2>2
<1>7. ASSUME NEW c \in Clients, Send(c) \/ Timeout(c) PROVE Locked'
  BY <1>7 DEF Send, Timeout
<1>. QED
  BY <1>1, <1>2, <1>3, <1>4, <1>5, <1>6, <1>7 DEF Next, Step

\* The budget: only the holder's own cost separates what is charged from what
\* was sent.
LEMMA NextBudget ==
  IInv /\ TypeOK' /\ [Next]_vars => BudgetBoundsRequests' /\ Charged'
<1>. SUFFICES ASSUME IInv, TypeOK', [Next]_vars PROVE BudgetBoundsRequests' /\ Charged'
  OBVIOUS
<1>. USE RequestsAssumption DEF IInv, TypeOK, BudgetBoundsRequests, Charged, Goto, Leave
<1>1. CASE LateArrival \/ UNCHANGED vars
  BY <1>1 DEF LateArrival, vars
<1>2. CASE Restart
  BY <1>2 DEF Restart
<1>3. ASSUME NEW c \in Clients, Call(c) PROVE BudgetBoundsRequests' /\ Charged'
  BY <1>3 DEF Call
<1>4. ASSUME NEW c \in Clients, Acquire(c) \/ Pace(c) \/ Send(c) \/ Timeout(c)
      PROVE  BudgetBoundsRequests' /\ Charged'
  BY <1>4 DEF Acquire, Pace, Send, Timeout
<1>5. ASSUME NEW c \in Clients, Charge(c) PROVE BudgetBoundsRequests' /\ Charged'
  <2>1. cost[c] \in Nat /\ \A d \in Clients \ {c} : pc[d] \notin {"pace", "nonce"}
    BY <1>5 DEF Charge, Locked, Inside
  <2>. QED
    BY <1>5, <2>1 DEF Charge
<1>6. ASSUME NEW c \in Clients, Sign(c) PROVE BudgetBoundsRequests' /\ Charged'
  <2>1. PICK n \in Nat : pc[c] = "nonce" /\ SignWith(c, n)
    BY <1>6, CandidateIsNat DEF Sign
  <2>2. cost[c] \in Nat /\ \A d \in Clients \ {c} : pc[d] \notin {"pace", "nonce"}
    BY <2>1 DEF Locked, Inside
  <2>3. \/ pc' = [pc EXCEPT ![c] = "failed"] /\ UNCHANGED sent
        \/ pc' = [pc EXCEPT ![c] = "send"] /\ sent' = sent + cost[c]
    BY <2>1, Sent
  <2>4. UNCHANGED <<spent, cost>>
    BY <1>6 DEF Sign
  <2>. QED
    BY <2>1, <2>2, <2>3, <2>4
<1>. QED
  BY <1>1, <1>2, <1>3, <1>4, <1>5, <1>6 DEF Next, Step

\* The order of nonces: the holder signs above everything seen so far, and until
\* it has sent nothing above it can have been signed.
LEMMA NextOrdered ==
  IInv /\ TypeOK' /\ [Next]_vars => Ordered' /\ NoNonceIsRefused'
<1>. SUFFICES ASSUME IInv, TypeOK', [Next]_vars, ~restarted'
              PROVE  /\ accepted' <= lastNonce'
                     /\ \A n \in late' : n <= lastNonce'
                     /\ \A c \in Clients : pc'[c] = "send" =>
                          /\ nonce'[c] = lastNonce'
                          /\ accepted' < nonce'[c]
                          /\ \A n \in late' : n < nonce'[c]
                     /\ \A c \in Clients : pc'[c] # "refused"
  BY DEF Ordered, NoNonceIsRefused
<1>. DEFINE Goal == /\ accepted' <= lastNonce'
                    /\ \A n \in late' : n <= lastNonce'
                    /\ \A c \in Clients : pc'[c] = "send" =>
                         /\ nonce'[c] = lastNonce'
                         /\ accepted' < nonce'[c]
                         /\ \A n \in late' : n < nonce'[c]
                    /\ \A c \in Clients : pc'[c] # "refused"
<1>0. ~restarted
  BY DEF Next, LateArrival, Restart, Step, Call, Acquire, Charge, Pace, Sign, Send, Timeout, vars
<1>. USE <1>0, RequestsAssumption
         DEF IInv, TypeOK, Ordered, NoNonceIsRefused, Nonces, Unset, Goto, Leave
<1>1. CASE UNCHANGED vars
  BY <1>1 DEF vars
<1>2. CASE LateArrival
  BY <1>2 DEF LateArrival, Arrive
<1>3. CASE Restart
  BY <1>3 DEF Restart
<1>4. ASSUME NEW c \in Clients, Call(c) \/ Acquire(c) \/ Charge(c) \/ Pace(c) PROVE Goal
  BY <1>4 DEF Call, Acquire, Charge, Pace
<1>5. ASSUME NEW c \in Clients, Sign(c) PROVE Goal
  <2>1. PICK n \in Nat : pc[c] = "nonce" /\ SignWith(c, n)
    BY <1>5, CandidateIsNat DEF Sign
  <2>2. \A d \in Clients \ {c} : pc[d] # "send"
    BY <2>1 DEF Locked, Inside
  <2>3. UNCHANGED <<late, accepted>>
    BY <1>5 DEF Sign
  <2>4. CASE pc' = [pc EXCEPT ![c] = "failed"] /\ UNCHANGED <<lastNonce, nonce>>
    BY <2>2, <2>3, <2>4
  <2>5. CASE /\ pc' = [pc EXCEPT ![c] = "send"]
             /\ n > lastNonce /\ lastNonce' = n
             /\ nonce' = [nonce EXCEPT ![c] = n]
    BY <2>2, <2>3, <2>5
  <2>. QED
    BY <2>1, <2>4, <2>5, Sent
<1>6. ASSUME NEW c \in Clients, Send(c) PROVE Goal
  <2>1. \A d \in Clients \ {c} : pc[d] # "send"
    BY <1>6 DEF Send, Locked, Inside
  <2>2. nonce[c] > accepted
    BY <1>6 DEF Send
  <2>. QED
    BY <1>6, <2>1, <2>2 DEF Send, Arrive
<1>7. ASSUME NEW c \in Clients, Timeout(c) PROVE Goal
  <2>1. \A d \in Clients \ {c} : pc[d] # "send"
    BY <1>7 DEF Timeout, Locked, Inside
  <2>. QED
    BY <1>7, <2>1 DEF Timeout, Arrive
<1>. QED
  BY <1>1, <1>2, <1>3, <1>4, <1>5, <1>6, <1>7 DEF Next, Step

LEMMA InvariantHolds == Spec => []IInv
<1>1. IInv /\ TypeOK' /\ [Next]_vars => IInv'
  BY NextLocked, NextBudget, NextOrdered DEF IInv
<1>. QED
  BY InitInv, TypeCorrect, <1>1, PTL DEF Spec

-----------------------------------------------------------------------------

\* Kraken refuses no answered request of a process that was not restarted: the
\* lock orders the nonces and last_nonce turns back a source that went back.
THEOREM NonceOrder == Spec => []NoNonceIsRefused
<1>1. IInv => NoNonceIsRefused
  BY DEF IInv
<1>. QED
  BY InvariantHolds, <1>1, PTL

\* What went out is charged, and the charges stay within the budget.
THEOREM Budget == Spec => []BudgetBoundsRequests
<1>1. IInv => BudgetBoundsRequests
  BY DEF IInv
<1>. QED
  BY InvariantHolds, <1>1, PTL

-----------------------------------------------------------------------------
(* The pacer beside Kraken's counter                                       *)

PacerTypeOK ==
  /\ monotonic \in Nat /\ estimate \in 0..Ceiling
  /\ lastPrivate \in 0..monotonic \cup {NotYet} /\ lastPublic \in 0..monotonic \cup {NotYet}
  /\ recent \in [Ages -> Nat] /\ publics \subseteq Ages
  /\ counter \in Nat /\ leftover \in Nat
  /\ sincePublic \in 0..Interval /\ publicGap \in 0..Interval

PrivateSleep(n, at) ==
  /\ call = [kind |-> "private", cost |-> n, at |-> at, wake |-> at + Excess(estimate, n)]
  /\ Excess(estimate, n) > 0

PublicSleep ==
  /\ lastPublic # NotYet
  /\ call = [kind |-> "public", wake |-> lastPublic + Interval]

\* What a call that sleeps is waiting for.
Sleeps ==
  \/ call = NoCall
  \/ \E n \in PrivateCosts, at \in 0..monotonic : PrivateSleep(n, at)
  \/ PublicSleep

\* The estimate as it would be if it were taken now.
EstimateNow ==
  IF call.kind = "private" THEN Lowered(estimate, monotonic - call.at)
  ELSE IF lastPrivate = NotYet THEN estimate
  ELSE Lowered(estimate, monotonic - lastPrivate)

\* The estimate has room for what left lately, but for the time that it has been
\* on its way, and for the counter with all that may still arrive.
Covers(e) ==
  /\ \A a \in Ages : recent[a] <= e + a
  /\ \A a, b \in Ages : a <= b => recent[a] <= recent[b]
  /\ counter + recent[Delay] <= leftover + e + Delay

\* A public request left no sooner than the interval after the one before it, and
\* if no way is that long at most one of them is on its way.
Apart ==
  /\ lastPublic = NotYet => publics = {} /\ sincePublic = Interval
  /\ \A a \in publics : monotonic - lastPublic <= a
  /\ Delay < Interval =>
       /\ \A a, b \in publics : a = b
       /\ \A a \in publics : sincePublic >= Interval - Delay + a
       /\ lastPublic # NotYet =>
            \/ sincePublic >= Interval - Delay
            \/ sincePublic >= monotonic - lastPublic - Delay
  /\ publicGap >= Interval - Delay

PacerInv == PacerTypeOK /\ Sleeps /\ Covers(EstimateNow) /\ Apart

LEMMA PacerConstants ==
  /\ Ceiling \in Nat /\ Interval \in Nat /\ Delay \in Nat
  /\ 0 \in Ages /\ Delay \in Ages /\ \A a \in Ages : a \in Nat /\ a <= Delay
  /\ \A n \in PrivateCosts : n \in Nat /\ 0 < n /\ n <= Ceiling
PROOF
<1>1. {Ceiling, Interval, Delay} \subseteq Nat /\ PrivateCosts \subseteq 1..Ceiling
  BY PacerAssumption
<1>2. Ceiling \in Nat /\ Interval \in Nat /\ Delay \in Nat
  BY <1>1
<1> QED
  BY <1>1, <1>2 DEF Ages

LEMMA EstimateIsBounded ==
  ASSUME PacerTypeOK, Sleeps
  PROVE  EstimateNow \in 0..Ceiling
PROOF
<1>1. Ceiling \in Nat
  BY PacerConstants
<1>2. \A m \in 0..Ceiling, by \in Nat : Lowered(m, by) \in 0..Ceiling
  BY <1>1 DEF Lowered
<1>3. ASSUME NEW n \in PrivateCosts, NEW at \in 0..monotonic, PrivateSleep(n, at)
      PROVE  EstimateNow \in 0..Ceiling
  <2>1. call.kind = "private" /\ call.at = at
    BY <1>3 DEF PrivateSleep
  <2>2. monotonic - at \in Nat /\ estimate \in 0..Ceiling
    BY DEF PacerTypeOK
  <2> QED
    BY <1>2, <2>1, <2>2 DEF EstimateNow
<1>4. CASE call = NoCall \/ PublicSleep
  <2>1. call.kind # "private"
    BY <1>4 DEF NoCall, PublicSleep
  <2>2. estimate \in 0..Ceiling /\ (lastPrivate # NotYet => monotonic - lastPrivate \in Nat)
    BY DEF PacerTypeOK
  <2> QED
    BY <1>2, <2>1, <2>2 DEF EstimateNow
<1> QED
  BY <1>3, <1>4 DEF Sleeps

\* A request that passes is added to an estimate that has room for it.
LEMMA PassedIsCovered ==
  ASSUME PacerTypeOK, NEW e \in 0..Ceiling, Covers(e), NEW n \in PrivateCosts,
         e + n <= Ceiling, Passed(n, e, monotonic),
         UNCHANGED <<monotonic, lastPublic, publics, krakens>>
  PROVE  PacerTypeOK' /\ Sleeps' /\ Covers(EstimateNow)'
PROOF
<1>1. n \in Nat /\ Ceiling \in Nat /\ Delay \in Nat /\ Delay \in Ages
  BY PacerConstants
<1>2. /\ estimate' = e + n /\ lastPrivate' = monotonic /\ call' = NoCall
      /\ UNCHANGED <<monotonic, lastPublic, publics, counter, leftover, sincePublic, publicGap>>
  BY DEF Passed, krakens
<1>3. estimate' \in 0..Ceiling /\ monotonic \in Nat
  BY <1>1, <1>2 DEF PacerTypeOK
<1>4. recent' = [a \in Ages |-> recent[a] + n] \/ recent' = recent
  BY DEF Passed
<1>5. recent' \in [Ages -> Nat]
  BY <1>1, <1>4 DEF PacerTypeOK
<1>6. PacerTypeOK'
  BY <1>2, <1>3, <1>5 DEF PacerTypeOK
<1>7. EstimateNow' = e + n
  <2>1. call'.kind = "none" /\ monotonic' = monotonic
    BY <1>2 DEF NoCall
  <2>2. EstimateNow' = Lowered(e + n, monotonic - monotonic)
    BY <1>2, <1>3, <2>1 DEF EstimateNow, NotYet
  <2> QED
    BY <1>1, <1>3, <2>2 DEF Lowered
<1>8. \A a \in Ages : recent[a] \in Nat /\ recent'[a] \in {recent[a], recent[a] + n}
  BY <1>4 DEF PacerTypeOK
<1>9. \A a, b \in Ages : recent'[a] - recent[a] = recent'[b] - recent[b]
  BY <1>1, <1>4, <1>8
<1>10. \A a \in Ages : a \in Nat
  BY DEF Ages
<1>11. Covers(e + n)'
  <2>1. \A a \in Ages : recent'[a] <= e + n + a
    BY <1>1, <1>8, <1>10 DEF Covers
  <2>2. \A a, b \in Ages : a <= b => recent'[a] <= recent'[b]
    BY <1>1, <1>8, <1>9, <1>10 DEF Covers
  <2>3. counter' + recent'[Delay] <= leftover' + (e + n) + Delay
    BY <1>1, <1>2, <1>8 DEF Covers, PacerTypeOK
  <2> QED
    BY <1>2, <2>1, <2>2, <2>3 DEF Covers
<1> QED
  BY <1>2, <1>6, <1>7, <1>11 DEF Sleeps, Covers

LEMMA PacePrivateKeeps ==
  ASSUME PacerTypeOK, Sleeps, Covers(EstimateNow), NEW n \in PrivateCosts, PacePrivate(n)
  PROVE  PacerTypeOK' /\ Sleeps' /\ Covers(EstimateNow)'
PROOF
<1>1. /\ call = NoCall /\ call.kind = "none"
      /\ UNCHANGED <<monotonic, lastPublic, publics, counter, leftover, sincePublic, publicGap>>
  BY DEF PacePrivate, NoCall, krakens
<1>2. n \in Nat /\ n <= Ceiling /\ Ceiling \in Nat
  BY PacerConstants
<1>3. EstimateNow \in 0..Ceiling
  BY EstimateIsBounded
<1> DEFINE e == EstimateNow
<1>4. \/ Excess(e, n) <= 0 /\ Passed(n, e, monotonic)
      \/ /\ Excess(e, n) > 0 /\ estimate' = e
         /\ call' = [kind |-> "private", cost |-> n, at |-> monotonic,
                     wake |-> monotonic + Excess(e, n)]
         /\ UNCHANGED <<lastPrivate, recent>>
  BY <1>1 DEF PacePrivate, EstimateNow
<1>5. CASE Excess(e, n) <= 0 /\ Passed(n, e, monotonic)
  <2>1. e + n <= Ceiling
    BY <1>2, <1>3, <1>5 DEF Excess
  <2> QED
    BY <1>1, <1>3, <1>5, <2>1, PassedIsCovered DEF krakens
<1>6. CASE /\ Excess(e, n) > 0 /\ estimate' = e
           /\ call' = [kind |-> "private", cost |-> n, at |-> monotonic,
                       wake |-> monotonic + Excess(e, n)]
           /\ UNCHANGED <<lastPrivate, recent>>
  <2>1. PacerTypeOK'
    BY <1>1, <1>3, <1>6 DEF PacerTypeOK
  <2>2. monotonic' = monotonic /\ monotonic \in 0..monotonic
    BY <1>1 DEF PacerTypeOK
  <2>3. PrivateSleep(n, monotonic)'
    BY <1>6, <2>2 DEF PrivateSleep, Excess
  <2>4. Sleeps'
    BY <2>2, <2>3 DEF Sleeps
  <2>5. EstimateNow' = e
    <3>1. call'.kind = "private" /\ call'.at = monotonic
      BY <1>6
    <3>2. EstimateNow' = Lowered(e, monotonic - monotonic)
      BY <1>6, <2>2, <3>1 DEF EstimateNow, PrivateSleep
    <3> QED
      BY <1>3, <2>2, <3>2 DEF Lowered, PacerTypeOK
  <2>6. Covers(EstimateNow)'
    BY <1>1, <1>6, <2>5 DEF Covers
  <2> QED
    BY <2>1, <2>4, <2>6
<1> QED
  BY <1>4, <1>5, <1>6

LEMMA WakePrivateKeeps ==
  ASSUME PacerTypeOK, Sleeps, Covers(EstimateNow), WakePrivate
  PROVE  PacerTypeOK' /\ Sleeps' /\ Covers(EstimateNow)'
PROOF
<1>1. PICK n \in PrivateCosts, at \in 0..monotonic : PrivateSleep(n, at)
  BY DEF WakePrivate, Sleeps, NoCall, PublicSleep
<1>2. /\ call.kind = "private" /\ call.cost = n /\ call.at = at
      /\ call.wake = at + Excess(estimate, n)
  BY <1>1 DEF PrivateSleep
<1>3. EstimateNow = Lowered(estimate, monotonic - at)
  BY <1>2 DEF EstimateNow
<1>4. EstimateNow \in 0..Ceiling
  BY EstimateIsBounded
<1>5. monotonic >= at + Excess(estimate, n) /\ Passed(n, EstimateNow, monotonic)
  BY <1>2, <1>3 DEF WakePrivate
<1>6. EstimateNow + n <= Ceiling
  BY <1>3, <1>5, PacerConstants DEF Lowered, Excess, PacerTypeOK
<1> QED
  BY <1>4, <1>5, <1>6, PassedIsCovered DEF WakePrivate

\* Nothing else moves the estimate.
LEMMA EstimateStays ==
  ASSUME UNCHANGED <<monotonic, estimate, lastPrivate>>,
         call' = call \/ (call.kind # "private" /\ call'.kind # "private")
  PROVE  EstimateNow' = EstimateNow
BY DEF EstimateNow

\* A public request leaves when the one before it cannot be on its way any more,
\* unless a way is as long as the interval.
LEMMA PublicPassedKeeps ==
  ASSUME PacerTypeOK, Apart, PublicPassed,
         lastPublic = NotYet \/ monotonic - lastPublic >= Interval,
         UNCHANGED <<monotonic, estimate, lastPrivate, recent, krakens>>
  PROVE  PacerTypeOK' /\ Sleeps' /\ Apart'
PROOF
<1>1. /\ lastPublic' = monotonic /\ call' = NoCall
      /\ publics' = publics \cup {0} \/ publics' = publics
      /\ UNCHANGED <<monotonic, estimate, lastPrivate, recent, counter, leftover, sincePublic, publicGap>>
  BY DEF PublicPassed, krakens
<1>2. monotonic \in Nat /\ lastPublic \in Int /\ NotYet = -1 /\ sincePublic \in Nat
  BY DEF PacerTypeOK, NotYet
<1>3. PacerTypeOK' /\ Sleeps'
  <2>1. publics' \subseteq Ages
    BY <1>1, PacerConstants DEF PacerTypeOK
  <2> QED
    BY <1>1, <1>2, <2>1 DEF PacerTypeOK, Sleeps
<1>4. ASSUME Delay < Interval PROVE publics = {} /\ sincePublic >= Interval - Delay
  <2>1. CASE lastPublic = NotYet
    BY <2>1, <1>2, PacerConstants DEF Apart
  <2>2. CASE lastPublic # NotYet /\ monotonic - lastPublic >= Interval
    <3>1. ASSUME NEW a \in publics PROVE FALSE
      <4>1. a \in Nat /\ a <= Delay /\ monotonic - lastPublic <= a
        BY PacerConstants DEF Apart, PacerTypeOK
      <4> QED
        BY <1>2, <1>4, <2>2, <4>1, PacerConstants
    <3>2. sincePublic >= Interval - Delay \/ sincePublic >= monotonic - lastPublic - Delay
      BY <1>4, <2>2 DEF Apart
    <3> QED
      BY <1>2, <2>2, <3>1, <3>2, PacerConstants
  <2> QED
    BY <2>1, <2>2
<1>5. \A a \in publics' : a \in Nat
  BY <1>3, PacerConstants DEF PacerTypeOK
<1>6. Apart'
  <2>1. monotonic - monotonic = 0 /\ lastPublic' # NotYet
    BY <1>1, <1>2
  <2>2. \A a \in publics' : monotonic' - lastPublic' <= a
    BY <1>1, <1>5, <2>1
  <2>3. ASSUME Delay < Interval
        PROVE  /\ \A a, b \in publics' : a = b
               /\ \A a \in publics' : sincePublic' >= Interval - Delay + a
               /\ sincePublic' >= Interval - Delay
    BY <1>1, <1>2, <1>4, <2>3, PacerConstants
  <2>4. publicGap' >= Interval - Delay
    BY <1>1 DEF Apart
  <2> QED
    BY <2>1, <2>2, <2>3, <2>4 DEF Apart
<1> QED
  BY <1>3, <1>6

LEMMA PublicKeeps ==
  ASSUME PacerInv, PacePublic \/ WakePublic
  PROVE  PacerInv'
PROOF
<1>1. UNCHANGED <<monotonic, estimate, lastPrivate, recent, krakens>> /\ call.kind # "private"
  BY DEF PacePublic, WakePublic, NoCall
<1>2. CASE PublicPassed
  <2>1. lastPublic = NotYet \/ monotonic - lastPublic >= Interval
    <3>1. CASE PacePublic
      BY <1>2, <3>1, PacerConstants DEF PacePublic, PublicPassed, NoCall
    <3>2. CASE WakePublic
      <4>1. PublicSleep
        BY <3>2 DEF WakePublic, PacerInv, Sleeps, NoCall, PrivateSleep
      <4>2. monotonic >= lastPublic + Interval
        BY <3>2, <4>1 DEF WakePublic, PublicSleep
      <4> QED
        BY <4>1, <4>2, PacerConstants DEF PublicSleep, PacerInv, PacerTypeOK
    <3> QED
      BY <3>1, <3>2
  <2>2. call'.kind # "private"
    BY <1>2 DEF PublicPassed, NoCall
  <2>3. Covers(EstimateNow)'
    BY <1>1, <2>2, EstimateStays DEF PacerInv, Covers, krakens
  <2> QED
    BY <1>1, <1>2, <2>1, <2>3, PublicPassedKeeps DEF PacerInv
<1>3. CASE /\ lastPublic # NotYet
           /\ call' = [kind |-> "public", wake |-> lastPublic + Interval]
           /\ UNCHANGED <<lastPublic, publics>>
  <2>1. call'.kind # "private"
    BY <1>3
  <2>2. Covers(EstimateNow)'
    BY <1>1, <2>1, EstimateStays DEF PacerInv, Covers, krakens
  <2>3. PacerTypeOK' /\ Apart'
    BY <1>1, <1>3 DEF PacerInv, PacerTypeOK, Apart, krakens
  <2>4. Sleeps'
    BY <1>3 DEF Sleeps, PublicSleep
  <2> QED
    BY <2>2, <2>3, <2>4 DEF PacerInv
<1> QED
  BY <1>2, <1>3 DEF PacePublic, WakePublic

LEMMA ArrivePrivateKeeps ==
  ASSUME PacerInv, NEW age \in Ages, NEW n \in PrivateCosts, ArrivePrivate(age, n)
  PROVE  PacerInv'
PROOF
<1>1. /\ n <= OfAge(age)
      /\ recent' = [a \in Ages |-> IF a >= age THEN recent[a] - n ELSE recent[a]]
      /\ counter' = counter + n \/ counter' = counter
      /\ UNCHANGED <<monotonic, estimate, lastPrivate, lastPublic, call, publics, leftover,
                     sincePublic, publicGap>>
  BY DEF ArrivePrivate
<1>2. n \in Nat /\ age \in Nat /\ age <= Delay
  BY PacerConstants
<1>3. /\ \A a \in Ages : recent[a] \in Nat /\ a \in Nat
      /\ \A a, b \in Ages : a <= b => recent[a] <= recent[b]
  BY PacerConstants DEF PacerInv, PacerTypeOK, Covers
<1>4. CASE age = 0
  <2>1. \A a \in Ages : recent'[a] = recent[a] - n /\ n <= recent[a]
    BY <1>1, <1>2, <1>3, <1>4 DEF OfAge
  <2> QED
    BY <1>1, <1>2, <1>3, <2>1, EstimateStays, EstimateIsBounded, PacerConstants
       DEF PacerInv, PacerTypeOK, Covers, Sleeps, PrivateSleep, PublicSleep, Apart
<1>5. CASE age # 0
  <2>1. age - 1 \in Ages /\ n <= recent[age] - recent[age - 1]
    BY <1>1, <1>2, <1>5, PacerConstants DEF OfAge, Ages
  <2>2. \A a \in Ages : a >= age => recent[age - 1] <= recent[a] - n
    BY <1>2, <1>3, <2>1
  <2>3. \A a \in Ages : a < age => recent[a] <= recent[age - 1]
    BY <1>2, <1>3, <2>1
  <2>4. recent' \in [Ages -> Nat]
    BY <1>1, <1>2, <1>3, <2>1, <2>2
  <2>5. \A a, b \in Ages : a <= b => recent'[a] <= recent'[b]
    <3> SUFFICES ASSUME NEW a \in Ages, NEW b \in Ages, a <= b PROVE recent'[a] <= recent'[b]
      OBVIOUS
    <3>1. /\ recent'[a] = IF a >= age THEN recent[a] - n ELSE recent[a]
          /\ recent'[b] = IF b >= age THEN recent[b] - n ELSE recent[b]
      BY <1>1
    <3>2. recent[a] <= recent[b] /\ recent[a] \in Nat /\ recent[b] \in Nat
          /\ recent[age - 1] \in Nat /\ a \in Nat /\ b \in Nat
      BY <1>3, <2>1
    <3> QED
      BY <1>2, <2>2, <2>3, <3>1, <3>2
  <2>6. \A a \in Ages : recent'[a] <= recent[a]
    BY <1>1, <1>2, <1>3
  <2>7. recent'[Delay] = recent[Delay] - n
    BY <1>1, <1>2, PacerConstants
  <2>8. EstimateNow' = EstimateNow /\ EstimateNow \in Nat
    BY <1>1, EstimateStays, EstimateIsBounded, PacerConstants DEF PacerInv
  <2>9. PacerTypeOK'
    BY <1>1, <1>2, <2>4 DEF PacerInv, PacerTypeOK
  <2>10. Covers(EstimateNow)'
    <3>1. \A a \in Ages : recent'[a] <= EstimateNow + a
      BY <1>3, <2>4, <2>6, <2>8 DEF PacerInv, Covers
    <3>2. counter' + recent'[Delay] <= leftover' + EstimateNow + Delay
      BY <1>1, <1>2, <1>3, <2>7, <2>8, PacerConstants DEF PacerInv, Covers, PacerTypeOK
    <3> QED
      BY <2>5, <2>8, <3>1, <3>2 DEF Covers
  <2> QED
    BY <1>1, <2>9, <2>10 DEF PacerInv, Sleeps, PrivateSleep, PublicSleep, Apart
<1> QED
  BY <1>4, <1>5

LEMMA ArrivePublicKeeps ==
  ASSUME PacerInv, NEW age \in publics, ArrivePublic(age)
  PROVE  PacerInv'
PROOF
<1>1. /\ publics' = publics \ {age}
      /\ \/ sincePublic' = 0 /\ publicGap' = IF sincePublic < publicGap THEN sincePublic ELSE publicGap
         \/ UNCHANGED <<sincePublic, publicGap>>
      /\ UNCHANGED <<monotonic, estimate, lastPrivate, lastPublic, call, recent, counter, leftover>>
  BY DEF ArrivePublic
<1>2. /\ age \in Nat /\ age <= Delay /\ monotonic - lastPublic <= age /\ lastPublic # NotYet
      /\ monotonic \in Nat /\ lastPublic \in Nat /\ sincePublic \in 0..Interval
      /\ publicGap \in 0..Interval /\ publicGap >= Interval - Delay
  BY PacerConstants DEF PacerInv, PacerTypeOK, Apart, NotYet
<1>3. sincePublic' \in 0..Interval /\ publicGap' \in 0..Interval
  BY <1>1, <1>2, PacerConstants
<1>4. PacerTypeOK' /\ Sleeps' /\ Covers(EstimateNow)'
  BY <1>1, <1>3, EstimateStays
     DEF PacerInv, PacerTypeOK, Sleeps, PrivateSleep, PublicSleep, Covers
<1>5. publicGap' >= Interval - Delay
  <2>1. sincePublic >= Interval - Delay
    BY <1>2, PacerConstants DEF PacerInv, Apart
  <2> QED
    BY <1>1, <1>2, <2>1
<1>6. ASSUME Delay < Interval
      PROVE  /\ publics' = {}
             /\ \/ sincePublic' >= Interval - Delay
                \/ sincePublic' >= monotonic' - lastPublic' - Delay
  <2>1. publics' = {}
    BY <1>1, <1>6 DEF PacerInv, Apart
  <2> QED
    BY <1>1, <1>2, <1>6, <2>1, PacerConstants DEF PacerInv, Apart
<1>7. \A a \in publics' : monotonic' - lastPublic' <= a
  BY <1>1 DEF PacerInv, Apart
<1>8. Apart'
  BY <1>1, <1>2, <1>5, <1>6, <1>7 DEF Apart
<1> QED
  BY <1>4, <1>8 DEF PacerInv

\* The estimate falls no faster than the counter, or, if that is zero, than the
\* requests that may still arrive grow old.
LEMMA PassKeepsCover ==
  ASSUME PacerInv, Pass
  PROVE  PacerTypeOK' /\ Sleeps' /\ Covers(EstimateNow)'
PROOF
<1>1. /\ OfAge(Delay) = 0 /\ Delay \notin publics
      /\ recent' = [a \in Ages |-> IF a = 0 THEN 0 ELSE recent[a - 1]]
      /\ publics' = {a + 1 : a \in publics}
      /\ counter' = Lowered(counter, 1)
      /\ sincePublic' = IF sincePublic < Interval THEN sincePublic + 1 ELSE Interval
      /\ monotonic' = monotonic + 1 \/ monotonic' = monotonic
      /\ UNCHANGED <<estimate, lastPrivate, lastPublic, call, leftover, publicGap>>
  BY DEF Pass
<1>2. /\ monotonic \in Nat /\ sincePublic \in 0..Interval /\ counter \in Nat /\ leftover \in Nat
      /\ \A a \in Ages : recent[a] \in Nat /\ a \in Nat
  BY PacerConstants DEF PacerInv, PacerTypeOK
<1>3. \A a \in Ages : a # 0 => a - 1 \in Ages
  BY PacerConstants DEF Ages
<1>4. PacerTypeOK'
  <2>1. recent' \in [Ages -> Nat]
    BY <1>1, <1>2, <1>3
  <2>2. publics' \subseteq Ages
    <3>1. ASSUME NEW a \in publics PROVE a + 1 \in Ages
      <4>1. a \in Ages /\ a # Delay
        BY <1>1 DEF PacerInv, PacerTypeOK
      <4> QED
        BY <4>1, PacerConstants DEF Ages
    <3> QED
      BY <1>1, <3>1
  <2>3. counter' \in Nat /\ sincePublic' \in 0..Interval
    BY <1>1, <1>2, PacerConstants DEF Lowered
  <2>4. monotonic' \in Nat /\ monotonic <= monotonic'
    BY <1>1, <1>2
  <2>5. lastPrivate' \in 0..monotonic' \cup {NotYet} /\ lastPublic' \in 0..monotonic' \cup {NotYet}
    BY <1>1, <1>2, <2>4 DEF PacerInv, PacerTypeOK, NotYet
  <2> QED
    BY <1>1, <2>1, <2>2, <2>3, <2>4, <2>5 DEF PacerInv, PacerTypeOK
<1>5. Sleeps'
  <2>1. ASSUME NEW n \in PrivateCosts, NEW at \in 0..monotonic, PrivateSleep(n, at)
        PROVE  Sleeps'
    <3>1. at \in 0..monotonic' /\ PrivateSleep(n, at)'
      BY <1>1, <1>2, <2>1 DEF PrivateSleep
    <3> QED
      BY <3>1 DEF Sleeps
  <2>2. CASE call = NoCall \/ PublicSleep
    BY <1>1, <2>2 DEF Sleeps, PublicSleep
  <2> QED
    BY <2>1, <2>2 DEF PacerInv, Sleeps
<1>6. EstimateNow \in Nat /\ EstimateNow' \in Nat /\ EstimateNow <= EstimateNow' + 1
  <2>1. EstimateNow \in Nat
    BY EstimateIsBounded, PacerConstants DEF PacerInv
  <2>2. ASSUME NEW m \in Nat, NEW k \in Int
        PROVE  Lowered(m, k) \in Nat /\ Lowered(m, k) <= Lowered(m, k + 1) + 1
    BY DEF Lowered
  <2>3. ASSUME NEW m \in Nat, NEW since \in Int
        PROVE  /\ Lowered(m, monotonic' - since) \in Nat
               /\ Lowered(m, monotonic - since) <= Lowered(m, monotonic' - since) + 1
    <3>1. /\ monotonic - since \in Int /\ (monotonic - since) + 1 \in Int
          /\ (monotonic + 1) - since = (monotonic - since) + 1
      BY <1>2
    <3>2. CASE monotonic' = monotonic
      <4>1. Lowered(m, monotonic - since) \in Nat
        BY <2>2, <3>1
      <4> QED
        BY <3>2, <4>1
    <3>3. CASE monotonic' = monotonic + 1
      <4>1. monotonic' - since = (monotonic - since) + 1
        BY <3>1, <3>3, Zenon
      <4> QED
        BY <2>2, <3>1, <4>1, Zenon
    <3> QED
      BY <1>1, <3>2, <3>3
  <2>4. ASSUME NEW n \in PrivateCosts, NEW at \in 0..monotonic, PrivateSleep(n, at)
        PROVE  EstimateNow' \in Nat /\ EstimateNow <= EstimateNow' + 1
    <3>1. call.kind = "private" /\ call.at = at /\ at \in Int /\ estimate \in Nat
      BY <2>4, <1>2 DEF PrivateSleep, PacerInv, PacerTypeOK
    <3>2. EstimateNow = Lowered(estimate, monotonic - at)
          /\ EstimateNow' = Lowered(estimate, monotonic' - at)
      BY <1>1, <3>1 DEF EstimateNow
    <3> QED
      BY <2>3, <3>1, <3>2
  <2>5. CASE call = NoCall \/ PublicSleep
    <3>1. call.kind # "private" /\ estimate \in Nat
      BY <2>5, PacerConstants DEF NoCall, PublicSleep, PacerInv, PacerTypeOK
    <3>2. CASE lastPrivate = NotYet
      BY <1>1, <2>1, <3>1, <3>2 DEF EstimateNow
    <3>3. CASE lastPrivate # NotYet
      <4>1. EstimateNow = Lowered(estimate, monotonic - lastPrivate)
            /\ EstimateNow' = Lowered(estimate, monotonic' - lastPrivate)
        BY <1>1, <3>1, <3>3 DEF EstimateNow
      <4>2. lastPrivate \in Int
        BY <1>2, <3>3 DEF PacerInv, PacerTypeOK
      <4>3. /\ Lowered(estimate, monotonic' - lastPrivate) \in Nat
            /\ Lowered(estimate, monotonic - lastPrivate)
                 <= Lowered(estimate, monotonic' - lastPrivate) + 1
        BY <2>3, <3>1, <4>2, Zenon
      <4> QED
        BY <2>1, <4>1, <4>3, Zenon
    <3> QED
      BY <3>2, <3>3
  <2> QED
    BY <2>1, <2>4, <2>5 DEF PacerInv, Sleeps
<1> DEFINE e == EstimateNow
           f == EstimateNow'
<1>7. /\ \A a \in Ages : recent[a] <= e + a
      /\ \A a, b \in Ages : a <= b => recent[a] <= recent[b]
      /\ counter + recent[Delay] <= leftover + e + Delay
  BY DEF PacerInv, Covers
<1>8. \A a \in Ages : recent'[a] = IF a = 0 THEN 0 ELSE recent[a - 1]
  BY <1>1
<1>0. e \in Nat /\ f \in Nat /\ e <= f + 1
  BY <1>6
<1> HIDE DEF e, f
<1>9. \A a \in Ages : recent'[a] <= f + a
  <2> SUFFICES ASSUME NEW a \in Ages PROVE recent'[a] <= f + a
    OBVIOUS
  <2>1. CASE a = 0
    BY <1>0, <1>8, <2>1
  <2>2. CASE a # 0
    <3>1. a - 1 \in Ages /\ recent[a - 1] <= e + (a - 1) /\ recent'[a] = recent[a - 1]
      BY <1>3, <1>7, <1>8, <2>2
    <3> QED
      BY <1>0, <1>2, <3>1
  <2> QED
    BY <2>1, <2>2
<1>10. \A a, b \in Ages : a <= b => recent'[a] <= recent'[b]
  <2> SUFFICES ASSUME NEW a \in Ages, NEW b \in Ages, a <= b PROVE recent'[a] <= recent'[b]
    OBVIOUS
  <2>1. CASE a = 0 /\ b = 0
    BY <1>8, <2>1
  <2>2. CASE a = 0 /\ b # 0
    BY <1>2, <1>3, <1>8, <2>2
  <2>3. CASE a # 0
    <3>1. a \in Nat /\ b \in Nat /\ b # 0 /\ a - 1 <= b - 1
      BY <1>2, <2>3
    <3> QED
      BY <1>3, <1>7, <1>8, <2>3, <3>1
  <2> QED
    BY <2>1, <2>2, <2>3
<1>11. counter' + recent'[Delay] <= leftover' + f + Delay
  <2>1. recent'[Delay] <= f + Delay /\ recent'[Delay] \in Nat /\ recent[Delay] \in Nat
    BY <1>2, <1>4, <1>9, PacerConstants DEF PacerTypeOK
  <2>2. recent'[Delay] = recent[Delay]
    BY <1>1, <1>2, <1>8, PacerConstants DEF OfAge, Ages
  <2>3. CASE counter = 0
    BY <1>0, <1>1, <1>2, <2>1, <2>3, PacerConstants DEF Lowered
  <2>4. CASE counter > 0
    <3>1. counter' = counter - 1 /\ leftover' = leftover
      BY <1>1, <1>2, <2>4 DEF Lowered
    <3> QED
      BY <1>0, <1>2, <1>7, <2>1, <2>2, <3>1, PacerConstants
  <2> QED
    BY <1>2, <2>3, <2>4
<1>12. Covers(EstimateNow)'
  BY <1>9, <1>10, <1>11 DEF Covers, f
<1> QED
  BY <1>4, <1>5, <1>12

LEMMA PassKeeps ==
  ASSUME PacerInv, Pass
  PROVE  PacerInv'
PROOF
<1>1. /\ Delay \notin publics
      /\ publics' = {a + 1 : a \in publics}
      /\ sincePublic' = IF sincePublic < Interval THEN sincePublic + 1 ELSE Interval
      /\ monotonic' = monotonic + 1 \/ monotonic' = monotonic
      /\ lastPublic' = lastPublic /\ publicGap' = publicGap
  BY DEF Pass
<1>2. /\ monotonic \in Nat /\ sincePublic \in 0..Interval /\ lastPublic \in Int
      /\ \A a \in publics : a \in Nat /\ a < Delay
  <2>1. monotonic \in Nat /\ sincePublic \in 0..Interval /\ lastPublic \in Int /\ publics \subseteq Ages
    BY DEF PacerInv, PacerTypeOK, NotYet
  <2> QED
    BY <1>1, <2>1, PacerConstants
<1>3. sincePublic' >= sincePublic /\ (sincePublic' = sincePublic + 1 \/ sincePublic' = Interval)
  BY <1>1, <1>2, PacerConstants
<1>4. lastPublic' = NotYet => publics' = {} /\ sincePublic' = Interval
  BY <1>1, PacerConstants DEF PacerInv, Apart
<1>5. \A a \in publics' : monotonic' - lastPublic' <= a
  <2>1. ASSUME NEW a \in publics PROVE monotonic' - lastPublic' <= a + 1
    BY <1>1, <1>2 DEF PacerInv, Apart
  <2> QED
    BY <1>1, <2>1
<1>6. ASSUME Delay < Interval
      PROVE  /\ \A a, b \in publics' : a = b
             /\ \A a \in publics' : sincePublic' >= Interval - Delay + a
             /\ lastPublic' # NotYet =>
                  \/ sincePublic' >= Interval - Delay
                  \/ sincePublic' >= monotonic' - lastPublic' - Delay
  <2>1. \A a, b \in publics' : a = b
    BY <1>1, <1>6 DEF PacerInv, Apart
  <2>2. ASSUME NEW a \in publics PROVE sincePublic' >= Interval - Delay + (a + 1)
    <3>1. sincePublic >= Interval - Delay + a
      BY <1>6 DEF PacerInv, Apart
    <3> QED
      BY <1>2, <1>3, <3>1, PacerConstants
  <2>3. lastPublic' # NotYet =>
          \/ sincePublic' >= Interval - Delay
          \/ sincePublic' >= monotonic' - lastPublic' - Delay
    BY <1>1, <1>2, <1>3, <1>6, PacerConstants DEF PacerInv, Apart
  <2> QED
    BY <1>1, <2>1, <2>2, <2>3
<1>7. Apart'
  BY <1>1, <1>4, <1>5, <1>6 DEF PacerInv, Apart
<1> QED
  BY <1>7, PassKeepsCover DEF PacerInv

LEMMA PacerStarts == PacerInit => PacerInv
PROOF
<1> SUFFICES ASSUME PacerInit PROVE PacerInv
  OBVIOUS
<1>1. PacerTypeOK
  BY PacerConstants, PacerAssumption DEF PacerInit, PacerTypeOK
<1>2. Sleeps
  BY DEF PacerInit, Sleeps
<1>3. EstimateNow = 0
  BY DEF PacerInit, EstimateNow, NoCall
<1>4. Covers(0)
  BY <1>1, PacerConstants DEF PacerInit, Covers, PacerTypeOK
<1>5. Apart
  BY PacerConstants DEF PacerInit, Apart
<1> QED
  BY <1>1, <1>2, <1>3, <1>4, <1>5 DEF PacerInv

\* Kraken's counter stays under the ceiling and public requests an interval apart,
\* but for the delay of requests (PublicRequestPacer): for all costs of endpoints,
\* ceilings, intervals and delays, and any number of requests on their way.
THEOREM LimitsHold == PacerSpec => []KrakensLimitsHold
PROOF
<1>1. PacerInv /\ [PacerNext]_pacer => PacerInv'
  <2> SUFFICES ASSUME PacerInv, [PacerNext]_pacer PROVE PacerInv'
    OBVIOUS
  <2>1. ASSUME NEW n \in PrivateCosts, PacePrivate(n) PROVE PacerInv'
    <3>1. PacerTypeOK' /\ Sleeps' /\ Covers(EstimateNow)'
      BY <2>1, PacePrivateKeeps DEF PacerInv
    <3> QED
      BY <2>1, <3>1 DEF PacerInv, PacePrivate, Apart, krakens
  <2>2. CASE WakePrivate
    <3>1. PacerTypeOK' /\ Sleeps' /\ Covers(EstimateNow)'
      BY <2>2, WakePrivateKeeps DEF PacerInv
    <3> QED
      BY <2>2, <3>1 DEF PacerInv, WakePrivate, Apart, krakens
  <2>3. CASE PacePublic \/ WakePublic
    BY <2>3, PublicKeeps
  <2>4. ASSUME NEW age \in Ages, NEW n \in PrivateCosts, ArrivePrivate(age, n) PROVE PacerInv'
    BY <2>4, ArrivePrivateKeeps
  <2>5. ASSUME NEW age \in publics, ArrivePublic(age) PROVE PacerInv'
    BY <2>5, ArrivePublicKeeps
  <2>6. CASE Pass
    BY <2>6, PassKeeps
  <2>7. CASE UNCHANGED pacer
    BY <2>7 DEF pacer, krakens, PacerInv, PacerTypeOK, Sleeps, PrivateSleep, PublicSleep,
                EstimateNow, Covers, Apart
  <2> QED
    BY <2>1, <2>2, <2>3, <2>4, <2>5, <2>6, <2>7 DEF PacerNext
<1>2. PacerInv => KrakensLimitsHold
  <2> SUFFICES ASSUME PacerInv PROVE KrakensLimitsHold
    OBVIOUS
  <2>1. EstimateNow \in 0..Ceiling
    BY EstimateIsBounded DEF PacerInv
  <2>2. counter + recent[Delay] <= leftover + EstimateNow + Delay /\ recent[Delay] \in Nat
    BY PacerConstants DEF PacerInv, Covers, PacerTypeOK
  <2>3. counter <= leftover + Ceiling + Delay
    BY <2>1, <2>2, PacerConstants DEF PacerInv, PacerTypeOK
  <2> QED
    BY <2>3 DEF PacerInv, Apart, KrakensLimitsHold
<1> QED
  BY <1>1, <1>2, PacerStarts, PTL DEF PacerSpec

=============================================================================
