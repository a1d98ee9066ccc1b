--------------------------- MODULE PrivateRequests ----------------------------
(***************************************************************************)
(* kraken_read.py: private requests of several clients of one process with *)
(* one API key. The key's sequence state has a lock that a request holds   *)
(* from charging its budget to the end of its transport; a nonce comes     *)
(* from the key's own source, which never repeats or goes back, or from an *)
(* injected one, which may.                                                *)
(*                                                                         *)
(* Kraken refuses a nonce that does not exceed the last one it accepted. A *)
(* request whose transport timed out may still arrive, or never.           *)
(***************************************************************************)
EXTENDS Integers, FiniteSets

CONSTANTS
  Clients,     \* KrakenReadClients, each used by a thread
  Injected,    \* those with a nonce source of their own
  NoClient,    \* nobody holds the key's lock
  Costs,       \* PRIVATE_ENDPOINT_COSTS
  CostLimit,   \* private_cost_limit of the budget the clients share
  MaxNonce     \* MAX_UNSIGNED_64

ASSUME RequestsAssumption ==
  /\ NoClient \notin Clients
  /\ Injected \subseteq Clients
  /\ Costs \subseteq Nat \ {0}
  /\ CostLimit \in Nat \ {0}
  /\ MaxNonce \in Nat

VARIABLES
  lock,       \* _PrivateSequenceState.lock: its holder
  lastNonce,  \* _PrivateSequenceState.last_nonce
  source,     \* MonotonicNonce._last of the key's own source
  spent,      \* KrakenRequestBudget._private_cost_spent
  pc,         \* where each client's request is
  cost,       \* what its endpoint costs
  nonce,      \* the nonce it signed
  late,       \* nonces of requests that timed out and may still arrive
  accepted,   \* external: the last nonce Kraken accepted
  sent,       \* history: the cost of what this process handed to the transport
  restarted   \* history: the process was restarted

vars == <<lock, lastNonce, source, spent, pc, cost, nonce, late, accepted, sent,
          restarted>>

Unset == -1

Init ==
  /\ lock = NoClient
  /\ lastNonce = Unset /\ source = Unset
  /\ spent = 0
  /\ pc = [c \in Clients |-> "idle"]
  /\ cost = [c \in Clients |-> 0]
  /\ nonce = [c \in Clients |-> Unset]
  /\ late = {}
  /\ accepted = Unset
  /\ sent = 0
  /\ restarted = FALSE

Goto(c, from, to) == pc[c] = from /\ pc' = [pc EXCEPT ![c] = to]

-----------------------------------------------------------------------------

Call(c) ==
  /\ \E from \in {"idle", "answered", "refused", "failed"} : Goto(c, from, "lock")
  /\ \E k \in Costs : cost' = [cost EXCEPT ![c] = k]
  /\ UNCHANGED <<lock, lastNonce, source, spent, nonce, late, accepted, sent, restarted>>

Acquire_Unlocked(c) ==
  /\ Goto(c, "lock", "charge")
  /\ lock' = c
  /\ UNCHANGED <<lastNonce, source, spent, cost, nonce, late, accepted, sent, restarted>>

Acquire(c) ==
  /\ lock = NoClient
  /\ Goto(c, "lock", "charge")
  /\ lock' = c
  /\ UNCHANGED <<lastNonce, source, spent, cost, nonce, late, accepted, sent, restarted>>

\* Leaving the with block, with an answer or an exception.
Leave_Holding(c, from, result) == Goto(c, from, result) /\ UNCHANGED lock

Leave(c, from, result) == Goto(c, from, result) /\ lock' = NoClient

\* consume_private: a request that the budget does not cover is not made.
Charge_Unchecked(c) ==
  /\ Goto(c, "charge", "pace")
  /\ spent' = spent + cost[c]
  /\ UNCHANGED <<lock, lastNonce, source, cost, nonce, late, accepted, sent, restarted>>

Charge(c) ==
  /\ \/ /\ spent + cost[c] > CostLimit
        /\ Leave(c, "charge", "failed") /\ UNCHANGED spent
     \/ /\ spent + cost[c] <= CostLimit
        /\ spent' = spent + cost[c]
        /\ Goto(c, "charge", "pace") /\ UNCHANGED lock
  /\ UNCHANGED <<lastNonce, source, cost, nonce, late, accepted, sent, restarted>>

\* The pacing hook sleeps, or raises.
Pace(c) ==
  /\ (Goto(c, "pace", "nonce") /\ UNCHANGED lock) \/ Leave(c, "pace", "failed")
  /\ UNCHANGED <<lastNonce, source, spent, cost, nonce, late, accepted, sent, restarted>>

\* What a nonce source answers when the wall clock says t: the key's own source
\* steps past what it gave before, an injected one need not.
Candidate(c, t) == IF c \in Injected \/ t > source THEN t ELSE source + 1

\* A nonce is out of range, or it did not increase, or it is signed. The key's
\* own source remembers what it gave, not what it refused to give.
SignWith(c, n) ==
  \/ /\ n > MaxNonce
     /\ Leave(c, "nonce", "failed")
     /\ UNCHANGED <<source, lastNonce, nonce, sent>>
  \/ /\ n <= MaxNonce
     /\ source' = IF c \in Injected THEN source ELSE n
     /\ \/ /\ n <= lastNonce
           /\ Leave(c, "nonce", "failed")
           /\ UNCHANGED <<lastNonce, nonce, sent>>
        \/ /\ n > lastNonce
           /\ lastNonce' = n
           /\ nonce' = [nonce EXCEPT ![c] = n]
           /\ sent' = sent + cost[c]
           /\ Goto(c, "nonce", "send") /\ UNCHANGED lock

\* The wall clock may be set at any time.
Sign_AnyNonce(c) ==
  /\ \E t \in 0..MaxNonce :
       /\ lastNonce' = Candidate(c, t)
       /\ source' = IF c \in Injected THEN source ELSE Candidate(c, t)
       /\ nonce' = [nonce EXCEPT ![c] = Candidate(c, t)]
  /\ sent' = sent + cost[c]
  /\ Goto(c, "nonce", "send")
  /\ UNCHANGED <<lock, spent, cost, late, accepted, restarted>>

Sign(c) ==
  /\ pc[c] = "nonce"
  /\ \E t \in 0..MaxNonce : SignWith(c, Candidate(c, t))
  /\ UNCHANGED <<spent, cost, late, accepted, restarted>>

\* external: Kraken accepts a nonce that exceeds the last one, or refuses it.
Arrive(n) == accepted' = IF n > accepted THEN n ELSE accepted

\* The request arrives and its answer comes back.
Send(c) ==
  /\ Leave(c, "send", IF nonce[c] > accepted THEN "answered" ELSE "refused")
  /\ Arrive(nonce[c])
  /\ UNCHANGED <<lastNonce, source, spent, cost, nonce, late, sent, restarted>>

\* The transport times out, or its answer is lost or unreadable.
Timeout(c) ==
  /\ Leave(c, "send", "failed")
  /\ \/ late' = late \cup {nonce[c]} /\ UNCHANGED accepted
     \/ Arrive(nonce[c]) /\ UNCHANGED late
  /\ UNCHANGED <<lastNonce, source, spent, cost, nonce, sent, restarted>>

\* external: what timed out arrives after all, or is lost.
LateArrival ==
  /\ \E n \in late :
       /\ late' = late \ {n}
       /\ Arrive(n) \/ UNCHANGED accepted
  /\ UNCHANGED <<lock, lastNonce, source, spent, pc, cost, nonce, sent, restarted>>

Sending == {c \in Clients : pc[c] = "send"}

\* A new process: its sequence state and its budget are fresh. What the old one
\* had in flight arrives at once or never.
Restart ==
  /\ restarted' = TRUE
  /\ lock' = NoClient
  /\ lastNonce' = Unset /\ source' = Unset
  /\ spent' = 0 /\ sent' = 0
  /\ pc' = [c \in Clients |-> "idle"]
  /\ cost' = [c \in Clients |-> 0]
  /\ nonce' = [c \in Clients |-> Unset]
  /\ late' = {}
  /\ accepted' \in {accepted} \cup {n \in late \cup {nonce[c] : c \in Sending} : n > accepted}

Step(c) == Acquire(c) \/ Charge(c) \/ Pace(c) \/ Sign(c) \/ Send(c) \/ Timeout(c)

Next == LateArrival \/ Restart \/ \E c \in Clients : Call(c) \/ Step(c)

Spec == Init /\ [][Next]_vars

\* A thread in a request goes on; the transport has a timeout.
FairSpec == Spec /\ \A c \in Clients : WF_vars(Step(c))

-----------------------------------------------------------------------------

Stages == {"idle", "lock", "charge", "pace", "nonce", "send", "answered", "refused", "failed"}

Nonces == {Unset} \cup 0..MaxNonce

\* Typing.
TypeOK ==
  /\ lock \in Clients \cup {NoClient}
  /\ lastNonce \in Nonces /\ source \in Nonces
  /\ spent \in Nat /\ sent \in Nat
  /\ pc \in [Clients -> Stages]
  /\ cost \in [Clients -> {0} \cup Costs]
  /\ nonce \in [Clients -> Nonces]
  /\ \A c \in Clients : /\ pc[c] \notin {"idle"} => cost[c] \in Costs
                        /\ pc[c] = "send" => nonce[c] \in 0..MaxNonce
  /\ late \in SUBSET (0..MaxNonce)
  /\ accepted \in Nonces
  /\ restarted \in BOOLEAN

\* Until the process is restarted, Kraken refuses no nonce of a request that
\* gets an answer, whatever the wall clock, the injected sources and the other
\* threads do, and whatever arrives late (_private_post).
NoNonceIsRefused == ~restarted => \A c \in Clients : pc[c] # "refused"

\* What went out is charged, failed requests included, and the charges stay
\* within the budget that several clients draw on (consume_private).
BudgetBoundsRequests == sent <= spent /\ spent <= CostLimit

\* The key's lock is always freed: no exception leaves it held.
LockIsFreed == (lock # NoClient) ~> (lock = NoClient)

=============================================================================
