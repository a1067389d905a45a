--------------------------- MODULE CircuitBreaker ---------------------------
(***************************************************************************)
(* The circuit breaker of connector/resilience/circuit_breaker.go: one     *)
(* breaker shared by every worker that writes to the QuasarDB cluster.     *)
(*                                                                         *)
(* A caller of Execute goes through two critical sections of cb.mu with    *)
(* the protected function running between them: canProceed (Admit or       *)
(* Reject below) and recordResult (RecordResult).  Anything may happen to  *)
(* the breaker while the function runs; the requests in flight, and how    *)
(* each of them was admitted, are kept in ticket, a history variable.      *)
(*                                                                         *)
(* The lock-held methods of the Go type are functions from breaker to      *)
(* breaker, composed in the order in which the code calls them.            *)
(***************************************************************************)
EXTENDS Integers, FiniteSets

CONSTANTS
  Callers,           \* the goroutines that call Execute (the workers)
  FailureThreshold,  \* consecutive cluster failures that open the circuit
  HalfOpenBase,      \* first half-open level (baseAllowed)
  HalfOpenMax,       \* last half-open level (maxAllowed), 0 for no limit
  MaxInt64,          \* largest int64: where doubling a level wraps around
  CounterCap         \* bound at which the consecutive counters saturate

(***************************************************************************)
(* What validateOptions guarantees of the thresholds.  The counters are    *)
(* only ever compared with FailureThreshold and with half-open levels, so  *)
(* letting them saturate at CounterCap, above all of these, loses nothing. *)
(***************************************************************************)
ASSUME BreakerAssumption ==
  /\ Callers # {} /\ IsFiniteSet(Callers)
  /\ FailureThreshold \in Nat \ {0}
  /\ HalfOpenBase \in Nat \ {0}
  /\ HalfOpenMax \in Nat
  /\ HalfOpenMax = 0 \/ HalfOpenMax >= HalfOpenBase
  /\ MaxInt64 \in Nat /\ MaxInt64 >= HalfOpenMax /\ MaxInt64 >= HalfOpenBase
  /\ CounterCap \in Nat
  /\ CounterCap >= FailureThreshold /\ CounterCap >= 2 * MaxInt64

VARIABLES
  cb,         \* the CircuitBreaker struct
  ticket,     \* history: how each caller's request in flight was admitted
  unclaimed,  \* history: slots released in this half-open period by requests
              \* that hold none of its slots
  evidence,   \* history: cluster failures recorded since the circuit closed
  wins        \* history: successes recorded since the circuit went half-open

vars == <<cb, ticket, unclaimed, evidence, wins>>

States == {"closed", "open", "half-open"}

(* Age of lastFailureTime.  The effective timeout is drawn anew, with       *)
(* jitter, at every check: before the shortest one can have passed ("fresh") *)
(* the check fails, after the longest ("expired") it succeeds, in between   *)
(* ("window") it may do either.                                             *)
Ages == {"fresh", "window", "expired"}

Breaker == [state: States, failures: 0..CounterCap, successes: 0..CounterCap,
            allowed: 0..MaxInt64, active: Int, age: Ages]

(* "slot": holds a slot of the current half-open period; "stale": holds one *)
(* of an earlier period; "unlimited": admitted at level 0, without a slot.  *)
Tickets == {"idle", "closed", "slot", "stale", "unlimited"}

-----------------------------------------------------------------------------
(* Lock-held methods: each takes a breaker and returns the one it leaves.   *)

Incr(n) == IF n < CounterCap THEN n + 1 ELSE n

(* int64 doubling with two's complement wraparound *)
Doubled(level) ==
  IF 2 * level > MaxInt64 THEN 2 * level - 2 * (MaxInt64 + 1) ELSE 2 * level

(* Fault: the successes counted before the period are kept. *)
ResetHalfOpenKeepsSuccesses(b) ==
  [b EXCEPT !.allowed = HalfOpenBase, !.active = 0]

ResetHalfOpen(b) ==
  [b EXCEPT !.allowed = HalfOpenBase, !.active = 0, !.successes = 0]

TransitionTo(b, newState) ==
  IF newState = "half-open"
  THEN ResetHalfOpen([b EXCEPT !.state = newState])
  ELSE [b EXCEPT !.state = newState]

(* Fault: a level that wrapped around is not recognised. *)
ProgressToNextLevelWrapped(b) ==
  LET next == Doubled(b.allowed)
  IN  IF HalfOpenMax > 0 /\ next > HalfOpenMax
      THEN TransitionTo(b, "closed")
      ELSE [b EXCEPT !.allowed = next, !.successes = 0]

ProgressToNextLevel(b) ==
  LET next == Doubled(b.allowed)
  IN  IF next < b.allowed \/ (HalfOpenMax > 0 /\ next > HalfOpenMax)
      THEN IF HalfOpenMax = 0
           THEN [b EXCEPT !.allowed = 0, !.successes = 0]
           ELSE TransitionTo(b, "closed")
      ELSE [b EXCEPT !.allowed = next, !.successes = 0]

UpdateHalfOpenState(b) ==
  IF b.failures >= 1 THEN TransitionTo(b, "open")
  ELSE IF b.allowed = 0 THEN TransitionTo(b, "closed")
  ELSE IF b.successes >= b.allowed THEN ProgressToNextLevel(b)
  ELSE b

(* Fault: the comparison with the timeout is lost, one way or the other. *)
ShouldTransitionToHalfOpenAlways(b) == {TRUE}
ShouldTransitionToHalfOpenNever(b) == {FALSE}

(* The outcomes time.Since(lastFailureTime) > effectiveTimeout can have. *)
ShouldTransitionToHalfOpen(b) ==
  CASE b.age = "fresh"   -> {FALSE}
    [] b.age = "window"  -> BOOLEAN
    [] b.age = "expired" -> {TRUE}

UpdateState(b, timedOut) ==
  CASE b.state = "closed" ->
         IF b.failures >= FailureThreshold THEN TransitionTo(b, "open") ELSE b
    [] b.state = "open" ->
         IF timedOut THEN TransitionTo(b, "half-open") ELSE b
    [] b.state = "half-open" -> UpdateHalfOpenState(b)

OnFailure(b) ==
  [b EXCEPT !.failures = Incr(@), !.successes = 0, !.age = "fresh"]

(* Fault: a success does not end the run of failures. *)
OnSuccessKeepsFailures(b) == [b EXCEPT !.successes = Incr(@)]

OnSuccess(b) == [b EXCEPT !.successes = Incr(@), !.failures = 0]

(* Fault: the slot is never given back. *)
ReleaseSlotForgotten(b) == b

(* A breaker found half-open gives a slot back, whoever finished. *)
ReleaseSlot(b) ==
  IF b.state = "half-open" THEN [b EXCEPT !.active = @ - 1] ELSE b

Record(b, unavailable) ==
  IF unavailable THEN OnFailure(ReleaseSlot(b)) ELSE OnSuccess(ReleaseSlot(b))

(* Fault: off by one. *)
CanProceedHalfOpenOneMore(b) == b.allowed = 0 \/ b.active <= b.allowed

CanProceedHalfOpen(b) == b.allowed = 0 \/ b.active < b.allowed

Admits(b) ==
  \/ b.state = "closed"
  \/ b.state = "half-open" /\ CanProceedHalfOpen(b)

(* The breaker after it admitted a request. *)
Claim(b) ==
  IF b.state = "half-open" /\ b.allowed # 0
  THEN [b EXCEPT !.active = @ + 1] ELSE b

-----------------------------------------------------------------------------
(* History: what a change of the breaker from cb to b says about the        *)
(* requests in flight and about the current closed or half-open period.     *)

Enters(b, s) == b.state = s /\ cb.state # s

TicketFor(b) ==
  CASE b.state = "closed" -> "closed"
    [] b.state = "half-open" -> IF b.allowed = 0 THEN "unlimited" ELSE "slot"

Aged(b, t) ==
  [c \in Callers |-> IF Enters(b, "half-open") /\ t[c] = "slot" THEN "stale" ELSE t[c]]

Holders == {c \in Callers : ticket[c] = "slot"}
Probes == {c \in Callers : ticket[c] \in {"slot", "stale"}}

-----------------------------------------------------------------------------
Init ==
  /\ cb = [state |-> "closed", failures |-> 0, successes |-> 0,
           allowed |-> HalfOpenBase, active |-> 0, age |-> "expired"]
  /\ ticket = [c \in Callers |-> "idle"]
  /\ unclaimed = 0
  /\ evidence = 0
  /\ wins = 0

(* canProceed let the request in: Execute goes on to run the function. *)
Admit(c) ==
  /\ ticket[c] = "idle"
  /\ \E timedOut \in ShouldTransitionToHalfOpen(cb) :
       LET b == UpdateState(cb, timedOut)
       IN  /\ Admits(b)
           /\ cb' = Claim(b)
           /\ ticket' = [Aged(b, ticket) EXCEPT ![c] = TicketFor(b)]
           /\ unclaimed' = IF Enters(b, "half-open") THEN 0 ELSE unclaimed
           /\ evidence' = IF Enters(b, "closed") THEN 0 ELSE evidence
           /\ wins' = IF Enters(b, "half-open") THEN 0 ELSE wins

(* canProceed refused the request: Execute returns "circuit breaker open". *)
(* The check itself may have moved the breaker.                            *)
Reject(c) ==
  /\ ticket[c] = "idle"
  /\ \E timedOut \in ShouldTransitionToHalfOpen(cb) :
       LET b == UpdateState(cb, timedOut)
       IN  /\ ~Admits(b)
           /\ cb' = b
           /\ ticket' = Aged(b, ticket)
           /\ unclaimed' = IF Enters(b, "half-open") THEN 0 ELSE unclaimed
           /\ wins' = IF Enters(b, "half-open") THEN 0 ELSE wins
           /\ UNCHANGED evidence

(* The function returned; unavailable tells whether qdb.IsClusterUnavailable *)
(* holds of its error.                                                       *)
RecordResult(c, unavailable) ==
  /\ ticket[c] # "idle"
  /\ LET r == Record(cb, unavailable)
     IN  \E timedOut \in ShouldTransitionToHalfOpen(r) :
           LET b == UpdateState(r, timedOut)
           IN  /\ cb' = b
               /\ ticket' = [Aged(b, ticket) EXCEPT ![c] = "idle"]
               /\ unclaimed' =
                    CASE Enters(b, "half-open") -> 0
                      [] cb.state = "half-open" /\ ticket[c] # "slot" -> unclaimed + 1
                      [] OTHER -> unclaimed
               /\ evidence' =
                    CASE Enters(b, "closed") -> 0
                      [] cb.state = "closed" /\ unavailable -> Incr(evidence)
                      [] OTHER -> evidence
               /\ wins' =
                    CASE Enters(b, "half-open") -> 0
                      [] cb.state = "half-open" /\ ~unavailable -> Incr(wins)
                      [] OTHER -> wins

(* Fault: the consecutive failures survive a reset. *)
ResetKeepsFailures ==
  /\ cb' = [ResetHalfOpen(cb) EXCEPT !.state = "closed", !.age = "expired"]
  /\ evidence' = 0
  /\ UNCHANGED <<ticket, unclaimed, wins>>

(* Manager.ResetAll and ResetResource: the breaker as it was built. *)
Reset ==
  /\ cb' = [ResetHalfOpen(cb) EXCEPT !.state = "closed", !.failures = 0, !.age = "expired"]
  /\ evidence' = 0
  /\ UNCHANGED <<ticket, unclaimed, wins>>

(* Time passes since the last failure. *)
Tick ==
  /\ cb.age # "expired"
  /\ cb' = [cb EXCEPT !.age = IF @ = "fresh" THEN "window" ELSE "expired"]
  /\ UNCHANGED <<ticket, unclaimed, evidence, wins>>

Next ==
  \/ \E c \in Callers :
       \/ Admit(c)
       \/ Reject(c)
       \/ \E unavailable \in BOOLEAN : RecordResult(c, unavailable)
  \/ Reset
  \/ Tick

Spec == Init /\ [][Next]_vars

(* Workers keep calling as long as the stream has messages, the protected   *)
(* write returns (its retry loop is bounded) and time passes.               *)
Fairness ==
  /\ \A c \in Callers :
       /\ WF_vars(Admit(c) \/ Reject(c))
       /\ WF_vars(\E unavailable \in BOOLEAN : RecordResult(c, unavailable))
  /\ WF_vars(Tick)

LiveSpec == Spec /\ Fairness

-----------------------------------------------------------------------------
(* Types of the CircuitBreaker struct and of the history variables. *)
TypeOK ==
  /\ cb \in Breaker
  /\ ticket \in [Callers -> Tickets]
  /\ unclaimed \in Nat
  /\ evidence \in 0..CounterCap
  /\ wins \in 0..CounterCap

(* Half-open admission counter (activeRequests): it equals the requests      *)
(* that really hold a slot of the current half-open period, less the slots   *)
(* given back by requests that hold none (recordResult decrements whenever   *)
(* it finds the breaker half-open).                                          *)
SlotAccounting ==
  cb.state = "half-open" => cb.active = Cardinality(Holders) - unclaimed

(* Half-open admission control (canProceedHalfOpenLocked): the requests of   *)
(* the current period that are in flight never exceed the level by more than *)
(* the slots that requests of other periods gave back in their stead.        *)
AdmissionBound ==
  cb.state = "half-open" /\ cb.allowed # 0
    => Cardinality(Holders) <= cb.allowed + unclaimed

(* Closed to open (updateStateLocked): FailureThreshold cluster failures     *)
(* were recorded since the circuit last closed; nothing counted before a     *)
(* recovery helps to open it again.                                          *)
OpensOnEvidence ==
  [][cb.state = "closed" /\ cb'.state = "open" => evidence' >= FailureThreshold]_vars

(* Level at which the progressive recovery ends. *)
Ceiling == IF HalfOpenMax = 0 THEN MaxInt64 ELSE HalfOpenMax

(* Half-open to closed (progressToNextLevelLocked): unless an operator       *)
(* resets it, the circuit closes only after the whole ladder base, 2*base,   *)
(* 4*base ... was climbed by successes recorded in this half-open period,    *)
(* base + 2*base + ... + level of them, with 2*level above the ceiling.      *)
ClosesAfterLadder ==
  [][cb.state = "half-open" /\ cb'.state = "closed" /\ ~Reset
       => wins' + HalfOpenBase > Ceiling]_vars

(* Cool-down (shouldTransitionToHalfOpenLocked): while less than the shortest *)
(* effective timeout has passed since the last cluster failure, a circuit    *)
(* that is not closed lets no request through, whichever way it got there.   *)
NoAdmissionInCooldown ==
  [][cb.state # "closed" /\ cb.age = "fresh"
       => \A c \in Callers : ticket[c] = "idle" => ticket'[c] = "idle"]_vars

(* A circuit that opened is tried again: it does not stay open for ever,     *)
(* however the requests still in flight end.                                 *)
OpenIsLeft == cb.state = "open" ~> cb.state # "open"

(* Recovery: once no request ends with the cluster unavailable any more, the *)
(* circuit closes for good, whatever slots and counters the outage left.     *)
Recovery ==
  <>[][~\E c \in Callers : RecordResult(c, TRUE)]_vars => <>[](cb.state = "closed")

-----------------------------------------------------------------------------
(* The inductive invariant behind the theorems of CircuitBreakerProofs.      *)

(* What every critical section of cb.mu leaves behind.  A circuit that is    *)
(* closed has not reached its threshold, a half-open one is neither cooling  *)
(* down nor due to move up a level, and level 0 means there is no limit.     *)
Settled ==
  /\ cb.state = "closed" => cb.failures < FailureThreshold
  /\ cb.state = "half-open" =>
       /\ cb.age # "fresh"
       /\ cb.allowed # 0 => cb.successes < cb.allowed
       /\ cb.allowed = 0 => HalfOpenMax = 0

(* The failures a closed breaker counts were all recorded since it closed.   *)
FailuresAreEvidence == cb.state = "closed" => cb.failures <= evidence

(* The levels below the current one sum up to allowed - base, and each was   *)
(* left after as many successes of this period.                              *)
LadderClimbed ==
  cb.state = "half-open" =>
    IF cb.allowed = 0 THEN wins + HalfOpenBase > MaxInt64
                      ELSE wins + HalfOpenBase >= cb.allowed + cb.successes

SlotsBounded ==
  cb.state = "half-open" /\ cb.allowed # 0 => cb.active <= cb.allowed

IInv ==
  /\ TypeOK
  /\ Settled
  /\ FailuresAreEvidence
  /\ LadderClimbed
  /\ SlotAccounting
  /\ SlotsBounded

-----------------------------------------------------------------------------
(* What a comment of the code says, and the code does not keep.              *)

(* canProceedHalfOpenLocked: "CAS loop ensures exactly 'allowed' concurrent  *)
(* requests".  The requests admitted half-open and still in flight.          *)
HalfOpenLimit ==
  cb.state = "half-open" /\ cb.allowed # 0 => Cardinality(Probes) <= cb.allowed
=============================================================================
