------------------------ MODULE CircuitBreakerProofs ------------------------
(* Proofs about the shared circuit breaker, for any number of callers, any  *)
(* thresholds and any half-open ladder.                                     *)
EXTENDS CircuitBreaker, FiniteSetTheorems, TLAPS

(***************************************************************************)
(* The ways updateStateLocked can leave a breaker, one per branch.         *)
(***************************************************************************)
LEMMA UpdateStateCases ==
  ASSUME NEW b \in Breaker, NEW t \in BOOLEAN
  PROVE  \/ /\ b.state = "closed" /\ b.failures < FailureThreshold
            /\ UpdateState(b, t) = b
         \/ /\ b.state = "closed" /\ b.failures >= FailureThreshold
            /\ UpdateState(b, t) = [b EXCEPT !.state = "open"]
         \/ /\ b.state = "open" /\ t = FALSE
            /\ UpdateState(b, t) = b
         \/ /\ b.state = "open" /\ t = TRUE
            /\ UpdateState(b, t) = [b EXCEPT !.state = "half-open", !.active = 0,
                                      !.allowed = HalfOpenBase, !.successes = 0]
         \/ /\ b.state = "half-open" /\ b.failures >= 1
            /\ UpdateState(b, t) = [b EXCEPT !.state = "open"]
         \/ /\ b.state = "half-open" /\ b.failures = 0 /\ b.allowed = 0
            /\ UpdateState(b, t) = [b EXCEPT !.state = "closed"]
         \/ /\ b.state = "half-open" /\ b.failures = 0 /\ b.allowed # 0
            /\ b.successes < b.allowed
            /\ UpdateState(b, t) = b
         \/ /\ b.state = "half-open" /\ b.failures = 0 /\ b.allowed # 0
            /\ b.successes >= b.allowed /\ 2 * b.allowed <= Ceiling
            /\ UpdateState(b, t) = [b EXCEPT !.allowed = 2 * @, !.successes = 0]
         \/ /\ b.state = "half-open" /\ b.failures = 0 /\ b.allowed # 0
            /\ b.successes >= b.allowed /\ 2 * b.allowed > Ceiling /\ HalfOpenMax = 0
            /\ UpdateState(b, t) = [b EXCEPT !.allowed = 0, !.successes = 0]
         \/ /\ b.state = "half-open" /\ b.failures = 0 /\ b.allowed # 0
            /\ b.successes >= b.allowed /\ 2 * b.allowed > Ceiling /\ HalfOpenMax # 0
            /\ UpdateState(b, t) = [b EXCEPT !.state = "closed"]
<1> USE BreakerAssumption
<1>1. CASE b.state = "closed"
  BY <1>1 DEF UpdateState, TransitionTo, Breaker
<1>2. CASE b.state = "open"
  BY <1>2 DEF UpdateState, TransitionTo, ResetHalfOpen, Breaker
<1>3. CASE b.state = "half-open"
  <2>1. UpdateState(b, t) = UpdateHalfOpenState(b)
    BY <1>3 DEF UpdateState
  <2>2. CASE b.failures >= 1
    BY <1>3, <2>1, <2>2 DEF UpdateHalfOpenState, TransitionTo
  <2>3. CASE b.failures = 0 /\ b.allowed = 0
    BY <1>3, <2>1, <2>3 DEF UpdateHalfOpenState, TransitionTo
  <2>4. CASE b.failures = 0 /\ b.allowed # 0 /\ b.successes < b.allowed
    BY <1>3, <2>1, <2>4 DEF UpdateHalfOpenState, Breaker
  <2>5. CASE b.failures = 0 /\ b.allowed # 0 /\ b.successes >= b.allowed
    <3>1. UpdateState(b, t) = ProgressToNextLevel(b)
      BY <2>1, <2>5 DEF UpdateHalfOpenState
    <3>2. CASE 2 * b.allowed <= Ceiling
      <4>1. Doubled(b.allowed) = 2 * b.allowed /\ ~(2 * b.allowed < b.allowed)
        BY <3>2 DEF Doubled, Ceiling, Breaker
      <4>2. ~(HalfOpenMax > 0 /\ 2 * b.allowed > HalfOpenMax)
        BY <3>2 DEF Ceiling, Breaker
      <4> QED
        BY <1>3, <2>5, <3>1, <3>2, <4>1, <4>2 DEF ProgressToNextLevel
    <3>3. CASE 2 * b.allowed > Ceiling /\ HalfOpenMax = 0
      BY <1>3, <2>5, <3>1, <3>3 DEF ProgressToNextLevel, Doubled, Ceiling, Breaker
    <3>4. CASE 2 * b.allowed > Ceiling /\ HalfOpenMax # 0
      BY <1>3, <2>5, <3>1, <3>4
         DEF ProgressToNextLevel, Doubled, Ceiling, Breaker, TransitionTo
    <3>5. 2 * b.allowed <= Ceiling \/ 2 * b.allowed > Ceiling
      BY DEF Breaker, Ceiling
    <3> QED
      BY <3>2, <3>3, <3>4, <3>5
  <2>6. \/ b.failures >= 1
        \/ b.failures = 0 /\ b.allowed = 0
        \/ b.failures = 0 /\ b.allowed # 0 /\ b.successes < b.allowed
        \/ b.failures = 0 /\ b.allowed # 0 /\ b.successes >= b.allowed
    BY DEF Breaker
  <2> QED
    BY <2>2, <2>3, <2>4, <2>5, <2>6
<1>4. b.state \in {"closed", "open", "half-open"}
  BY DEF Breaker, States
<1> QED
  BY <1>1, <1>2, <1>3, <1>4

(* A breaker stays one when a field gets a value of its type. *)
LEMMA FieldUpdates ==
  ASSUME NEW b \in Breaker
  PROVE  /\ \A x \in States : [b EXCEPT !.state = x] \in Breaker
         /\ \A x \in 0..CounterCap : [b EXCEPT !.failures = x] \in Breaker
         /\ \A x \in 0..CounterCap : [b EXCEPT !.successes = x] \in Breaker
         /\ \A x \in 0..MaxInt64 : [b EXCEPT !.allowed = x] \in Breaker
         /\ \A x \in Int : [b EXCEPT !.active = x] \in Breaker
         /\ \A x \in Ages : [b EXCEPT !.age = x] \in Breaker
<1>1. \A x \in States : [b EXCEPT !.state = x] \in Breaker
  BY DEF Breaker
<1>2. \A x \in 0..CounterCap : [b EXCEPT !.failures = x] \in Breaker
  BY DEF Breaker
<1>3. \A x \in 0..CounterCap : [b EXCEPT !.successes = x] \in Breaker
  BY DEF Breaker
<1>4. \A x \in 0..MaxInt64 : [b EXCEPT !.allowed = x] \in Breaker
  BY DEF Breaker
<1>5. \A x \in Int : [b EXCEPT !.active = x] \in Breaker
  BY DEF Breaker
<1>6. \A x \in Ages : [b EXCEPT !.age = x] \in Breaker
  BY DEF Breaker
<1> QED
  BY <1>1, <1>2, <1>3, <1>4, <1>5, <1>6

(* The two halves of a reset of the half-open ladder: level and successes... *)
LEMMA NewLevelType ==
  ASSUME NEW b \in Breaker, NEW n \in 0..MaxInt64
  PROVE  [b EXCEPT !.allowed = n, !.successes = 0] \in Breaker
<1>1. [b EXCEPT !.allowed = n] \in Breaker
  BY FieldUpdates
<1>2. 0 \in 0..CounterCap
  BY BreakerAssumption
<1>3. [[b EXCEPT !.allowed = n] EXCEPT !.successes = 0] \in Breaker
  BY <1>1, <1>2, FieldUpdates
<1> QED
  BY <1>3

(* ... and the slots in use. *)
LEMMA HalfOpenType ==
  ASSUME NEW b \in Breaker
  PROVE  [b EXCEPT !.state = "half-open", !.active = 0,
                   !.allowed = HalfOpenBase, !.successes = 0] \in Breaker
<1>1. [b EXCEPT !.state = "half-open"] \in Breaker
  BY FieldUpdates DEF States
<1>0. 0 \in Int
  OBVIOUS
<1>2. [[b EXCEPT !.state = "half-open"] EXCEPT !.active = 0] \in Breaker
  BY <1>0, <1>1, FieldUpdates
<1>3. HalfOpenBase \in 0..MaxInt64
  BY BreakerAssumption
<1> DEFINE h == [[b EXCEPT !.state = "half-open"] EXCEPT !.active = 0]
<1>4. [b EXCEPT !.state = "half-open", !.active = 0, !.allowed = HalfOpenBase, !.successes = 0]
        = [h EXCEPT !.allowed = HalfOpenBase, !.successes = 0]
  OBVIOUS
<1>5. h \in Breaker
  BY <1>2
<1> HIDE DEF h
<1> QED
  BY <1>3, <1>4, <1>5, NewLevelType

(* updateState keeps the breaker well typed. *)
LEMMA UpdateStateType ==
  ASSUME NEW b \in Breaker, NEW t \in BOOLEAN
  PROVE  UpdateState(b, t) \in Breaker
<1>1. [b EXCEPT !.state = "open"] \in Breaker /\ [b EXCEPT !.state = "closed"] \in Breaker
  BY FieldUpdates DEF States
<1>2. [b EXCEPT !.allowed = 0, !.successes = 0] \in Breaker
  <2>1. 0 \in 0..MaxInt64
    BY BreakerAssumption
  <2> QED
    BY <2>1, NewLevelType
<1>3. 2 * b.allowed <= Ceiling => [b EXCEPT !.allowed = 2 * @, !.successes = 0] \in Breaker
  <2>1. 2 * b.allowed <= Ceiling => 2 * b.allowed \in 0..MaxInt64
    BY BreakerAssumption DEF Breaker, Ceiling
  <2> QED
    BY <2>1, NewLevelType
<1> QED
  BY ONLY UpdateStateCases, HalfOpenType, <1>1, <1>2, <1>3, b \in Breaker, t \in BOOLEAN

(* A counter that saturates grows by one or stays at its cap. *)
LEMMA IncrFacts ==
  ASSUME NEW n \in 0..CounterCap
  PROVE  /\ Incr(n) \in 0..CounterCap
         /\ Incr(n) >= 1 /\ Incr(n) >= n /\ Incr(n) <= n + 1
         /\ Incr(n) = n + 1 \/ Incr(n) = CounterCap
BY BreakerAssumption DEF Incr

(* Releasing a slot touches nothing but the number of active requests. *)
LEMMA ReleaseSlotFields ==
  ASSUME NEW b \in Breaker
  PROVE  /\ ReleaseSlot(b) \in Breaker
         /\ ReleaseSlot(b).state = b.state
         /\ ReleaseSlot(b).allowed = b.allowed
         /\ ReleaseSlot(b).age = b.age
         /\ ReleaseSlot(b).failures = b.failures
         /\ ReleaseSlot(b).successes = b.successes
         /\ b.state = "half-open" => ReleaseSlot(b).active = b.active - 1
BY DEF ReleaseSlot, Breaker

(* recordResult, before it looks at the state: what a cluster failure leaves *)
LEMMA RecordFailure ==
  ASSUME NEW b \in Breaker
  PROVE  /\ Record(b, TRUE) \in Breaker
         /\ Record(b, TRUE).state = b.state
         /\ Record(b, TRUE).allowed = b.allowed
         /\ b.state = "half-open" => Record(b, TRUE).active = b.active - 1
         /\ Record(b, TRUE).failures = Incr(b.failures)
         /\ Record(b, TRUE).failures >= 1
         /\ Record(b, TRUE).successes = 0
         /\ Record(b, TRUE).age = "fresh"
<1> DEFINE q == ReleaseSlot(b)
<1>1. Record(b, TRUE) = OnFailure(q)
  BY DEF Record
<1>2. b.failures \in 0..CounterCap
  BY DEF Breaker
<1>3. Incr(b.failures) \in 0..CounterCap /\ Incr(b.failures) >= 1
  BY <1>2, IncrFacts
<1> HIDE DEF q
<1>4. /\ q \in Breaker
      /\ q.state = b.state /\ q.allowed = b.allowed /\ q.failures = b.failures
      /\ b.state = "half-open" => q.active = b.active - 1
  BY ReleaseSlotFields DEF q
<1>5. OnFailure(q) = [[[q EXCEPT !.failures = Incr(b.failures)]
                           EXCEPT !.successes = 0] EXCEPT !.age = "fresh"]
  BY <1>4 DEF OnFailure
<1>6. 0 \in 0..CounterCap
  BY BreakerAssumption
<1>7. [q EXCEPT !.failures = Incr(b.failures)] \in Breaker
  BY <1>3, <1>4, FieldUpdates
<1>8. [[q EXCEPT !.failures = Incr(b.failures)] EXCEPT !.successes = 0] \in Breaker
  BY <1>6, <1>7, FieldUpdates
<1>9. OnFailure(q) \in Breaker
  BY <1>5, <1>8, FieldUpdates DEF Ages
<1>10. /\ OnFailure(q).state = b.state /\ OnFailure(q).allowed = b.allowed
       /\ OnFailure(q).active = q.active /\ OnFailure(q).successes = 0
       /\ OnFailure(q).failures = Incr(b.failures) /\ OnFailure(q).age = "fresh"
  BY <1>4 DEF OnFailure, Breaker
<1> QED
  BY <1>1, <1>3, <1>4, <1>9, <1>10

(* ... and what any other outcome leaves. *)
LEMMA RecordSuccess ==
  ASSUME NEW b \in Breaker
  PROVE  /\ Record(b, FALSE) \in Breaker
         /\ Record(b, FALSE).state = b.state
         /\ Record(b, FALSE).allowed = b.allowed
         /\ b.state = "half-open" => Record(b, FALSE).active = b.active - 1
         /\ Record(b, FALSE).failures = 0
         /\ Record(b, FALSE).successes = Incr(b.successes)
         /\ Record(b, FALSE).age = b.age
<1> DEFINE q == ReleaseSlot(b)
<1>1. Record(b, FALSE) = OnSuccess(q)
  BY DEF Record
<1>2. b.successes \in 0..CounterCap
  BY DEF Breaker
<1>3. Incr(b.successes) \in 0..CounterCap
  BY <1>2, IncrFacts
<1> HIDE DEF q
<1>4. /\ q \in Breaker
      /\ q.state = b.state /\ q.allowed = b.allowed /\ q.age = b.age
      /\ q.successes = b.successes
      /\ b.state = "half-open" => q.active = b.active - 1
  BY ReleaseSlotFields DEF q
<1>5. OnSuccess(q) = [[q EXCEPT !.successes = Incr(b.successes)] EXCEPT !.failures = 0]
  BY <1>4 DEF OnSuccess
<1>6. 0 \in 0..CounterCap
  BY BreakerAssumption
<1>7. [q EXCEPT !.successes = Incr(b.successes)] \in Breaker
  BY <1>3, <1>4, FieldUpdates
<1>8. OnSuccess(q) \in Breaker
  BY <1>5, <1>6, <1>7, FieldUpdates
<1>9. /\ OnSuccess(q).state = b.state /\ OnSuccess(q).allowed = b.allowed
      /\ OnSuccess(q).active = q.active /\ OnSuccess(q).failures = 0
      /\ OnSuccess(q).successes = Incr(b.successes) /\ OnSuccess(q).age = b.age
  BY <1>4 DEF OnSuccess, Breaker
<1> QED
  BY <1>1, <1>4, <1>8, <1>9

-----------------------------------------------------------------------------
(* History: who holds a slot. *)

(* The callers that hold a slot can be counted. *)
LEMMA HoldersFinite == IsFiniteSet(Holders) /\ Cardinality(Holders) \in Nat
<1>1. Holders \in SUBSET Callers
  BY DEF Holders
<1>2. IsFiniteSet(Holders)
  BY <1>1, FS_Subset, BreakerAssumption
<1> QED
  BY <1>2, FS_CardinalityType

(* Entering half-open leaves every caller with a ticket. *)
LEMMA AgedType ==
  ASSUME TypeOK, NEW b
  PROVE  Aged(b, ticket) \in [Callers -> Tickets]
BY DEF Aged, TypeOK, Tickets

(* A request that ends gives up its ticket; entering half-open voids all.    *)
LEMMA HoldersAfterResult ==
  ASSUME TypeOK, NEW c \in Callers, NEW b,
         ticket' = [Aged(b, ticket) EXCEPT ![c] = "idle"]
  PROVE  /\ Enters(b, "half-open") => Cardinality(Holders') = 0
         /\ ~Enters(b, "half-open") =>
              Cardinality(Holders') = IF ticket[c] = "slot" THEN Cardinality(Holders) - 1
                                      ELSE Cardinality(Holders)
<1>1. ASSUME Enters(b, "half-open") PROVE Holders' = {}
  BY <1>1 DEF Holders, Aged, TypeOK
<1>2. ASSUME ~Enters(b, "half-open") PROVE Holders' = Holders \ {c}
  BY <1>2 DEF Holders, Aged, TypeOK
<1>3. c \in Holders <=> ticket[c] = "slot"
  BY DEF Holders
<1> QED
  BY <1>1, <1>2, <1>3, HoldersFinite, FS_EmptySet, FS_RemoveElement

(* A request that is admitted with a slot becomes a holder. *)
LEMMA HoldersAfterAdmit ==
  ASSUME TypeOK, NEW c \in Callers, NEW b, ticket[c] = "idle",
         ticket' = [Aged(b, ticket) EXCEPT ![c] = "slot"]
  PROVE  /\ Enters(b, "half-open") => Cardinality(Holders') = 1
         /\ ~Enters(b, "half-open") => Cardinality(Holders') = Cardinality(Holders) + 1
<1>1. ASSUME Enters(b, "half-open") PROVE Holders' = {c}
  BY <1>1 DEF Holders, Aged, TypeOK
<1>2. ASSUME ~Enters(b, "half-open") PROVE Holders' = Holders \cup {c}
  BY <1>2 DEF Holders, Aged, TypeOK
<1>3. c \notin Holders
  BY DEF Holders
<1> QED
  BY <1>1, <1>2, <1>3, HoldersFinite, FS_Singleton, FS_AddElement

(* Without a new holder and without a new period nothing changes. *)
LEMMA HoldersUnchanged ==
  ASSUME TypeOK, NEW b, ~Enters(b, "half-open"), ticket' = Aged(b, ticket)
  PROVE  ticket' = ticket /\ Holders' = Holders
<1>1. ticket' = ticket
  BY DEF Aged, TypeOK
<1> QED
  BY <1>1 DEF Holders

-----------------------------------------------------------------------------
(* What the check at the head of canProceed finds, the invariant given. *)
LEMMA CheckCases ==
  ASSUME IInv, NEW t \in ShouldTransitionToHalfOpen(cb)
  PROVE  LET u == UpdateState(cb, t)
         IN  /\ u \in Breaker
             /\ \/ cb.state = "closed" /\ u = cb
                \/ cb.state = "open" /\ u = cb
                \/ /\ cb.state = "open" /\ cb.age # "fresh"
                   /\ u = [cb EXCEPT !.state = "half-open", !.active = 0,
                                     !.allowed = HalfOpenBase, !.successes = 0]
                \/ /\ cb.state = "half-open" /\ cb.failures >= 1
                   /\ u = [cb EXCEPT !.state = "open"]
                \/ /\ cb.state = "half-open" /\ cb.failures = 0 /\ cb.allowed = 0
                   /\ u = [cb EXCEPT !.state = "closed"]
                \/ cb.state = "half-open" /\ cb.allowed # 0 /\ u = cb
<1>1. cb \in Breaker
  BY DEF IInv, TypeOK
<1>2. t \in BOOLEAN /\ (t = TRUE => cb.age # "fresh")
  BY <1>1 DEF ShouldTransitionToHalfOpen, Breaker, Ages
<1>3. UpdateState(cb, t) \in Breaker
  BY <1>1, <1>2, UpdateStateType
<1>4. cb.state = "closed" => ~(cb.failures >= FailureThreshold)
  BY <1>1, BreakerAssumption DEF IInv, Settled, Breaker
<1>5. cb.state = "half-open" /\ cb.allowed # 0 => ~(cb.successes >= cb.allowed)
  BY <1>1, BreakerAssumption DEF IInv, Settled, Breaker
<1> QED
  BY <1>1, <1>2, <1>3, <1>4, <1>5, UpdateStateCases

(* canProceed lets a request in. *)
LEMMA AdmitStep ==
  ASSUME IInv, NEW c \in Callers, Admit(c)
  PROVE  IInv'
<1> USE BreakerAssumption
<1>1. PICK t \in ShouldTransitionToHalfOpen(cb) :
        LET b == UpdateState(cb, t)
        IN  /\ Admits(b)
            /\ cb' = Claim(b)
            /\ ticket' = [Aged(b, ticket) EXCEPT ![c] = TicketFor(b)]
            /\ unclaimed' = IF Enters(b, "half-open") THEN 0 ELSE unclaimed
            /\ evidence' = IF Enters(b, "closed") THEN 0 ELSE evidence
            /\ wins' = IF Enters(b, "half-open") THEN 0 ELSE wins
  BY DEF Admit
<1> DEFINE u == UpdateState(cb, t)
<1>2. cb \in Breaker /\ u \in Breaker /\ TypeOK /\ ticket[c] = "idle"
  BY CheckCases DEF IInv, TypeOK, Admit
<1>3. u.state \in {"closed", "half-open"}
  BY <1>1 DEF Admits
<1>4. TicketFor(u) \in Tickets
  BY <1>3 DEF TicketFor, Tickets
<1>5. ticket' \in [Callers -> Tickets]
  BY <1>1, <1>2, <1>4, AgedType
<1>6. /\ unclaimed' \in Nat
      /\ evidence' \in 0..CounterCap
      /\ wins' \in 0..CounterCap
  BY <1>1, <1>2 DEF TypeOK
<1>7. CASE cb.state = "closed" /\ u = cb
  <2>1. cb' = cb /\ evidence' = evidence
    BY <1>1, <1>7 DEF Claim, Enters
  <2> QED
    BY <1>2, <1>5, <1>6, <1>7, <2>1
       DEF IInv, TypeOK, Settled, FailuresAreEvidence, LadderClimbed,
           SlotAccounting, SlotsBounded
<1>8. CASE /\ cb.state = "open" /\ cb.age # "fresh"
           /\ u = [cb EXCEPT !.state = "half-open", !.active = 0,
                             !.allowed = HalfOpenBase, !.successes = 0]
  <2>1. /\ u.state = "half-open" /\ u.active = 0 /\ u.allowed = HalfOpenBase
        /\ u.successes = 0 /\ u.age # "fresh"
    BY <1>2, <1>8 DEF Breaker
  <2>2. Enters(u, "half-open") /\ TicketFor(u) = "slot"
    BY <1>8, <2>1 DEF Enters, TicketFor
  <2>3. Cardinality(Holders') = 1 /\ unclaimed' = 0 /\ wins' = 0
    BY <1>1, <1>2, <2>2, HoldersAfterAdmit
  <2>4. cb' = [u EXCEPT !.active = 1]
    BY <1>1, <1>2, <2>1 DEF Claim, Breaker
  <2>5. 1 \in Int
    OBVIOUS
  <2> HIDE DEF u
  <2>6. cb' \in Breaker
    BY <1>2, <2>4, <2>5, FieldUpdates
  <2>7. /\ cb'.state = "half-open" /\ cb'.active = 1 /\ cb'.allowed = HalfOpenBase
        /\ cb'.successes = 0 /\ cb'.age # "fresh"
    BY <1>2, <2>1, <2>4 DEF Breaker
  <2> QED
    BY <1>5, <1>6, <2>3, <2>6, <2>7
       DEF IInv, TypeOK, Settled, FailuresAreEvidence, LadderClimbed,
           SlotAccounting, SlotsBounded
<1>9. CASE /\ cb.state = "half-open" /\ cb.failures = 0 /\ cb.allowed = 0
           /\ u = [cb EXCEPT !.state = "closed"]
  <2>1. u.state = "closed" /\ u.failures = 0
    BY <1>2, <1>9 DEF Breaker
  <2>2. cb' = u
    BY <1>1, <2>1 DEF Claim
  <2> HIDE DEF u
  <2>3. cb' \in Breaker /\ cb'.state = "closed" /\ cb'.failures = 0
    BY <1>2, <2>1, <2>2
  <2> QED
    BY <1>5, <1>6, <2>3
       DEF IInv, TypeOK, Settled, FailuresAreEvidence, LadderClimbed,
           SlotAccounting, SlotsBounded
<1>10. CASE cb.state = "half-open" /\ cb.allowed # 0 /\ u = cb
  <2>1. cb.active < cb.allowed
    BY <1>1, <1>10 DEF Admits, CanProceedHalfOpen
  <2>2. ~Enters(u, "half-open") /\ ~Enters(u, "closed") /\ TicketFor(u) = "slot"
    BY <1>10 DEF Enters, TicketFor
  <2>3. /\ Cardinality(Holders') = Cardinality(Holders) + 1
        /\ unclaimed' = unclaimed /\ wins' = wins /\ evidence' = evidence
    BY <1>1, <1>2, <2>2, HoldersAfterAdmit
  <2>4. cb' = [cb EXCEPT !.active = @ + 1]
    BY <1>1, <1>10 DEF Claim
  <2>5. /\ cb' \in Breaker
        /\ cb'.state = cb.state /\ cb'.active = cb.active + 1 /\ cb'.allowed = cb.allowed
        /\ cb'.successes = cb.successes /\ cb'.age = cb.age
    BY <1>2, <2>4 DEF Breaker
  <2>6. cb'.active <= cb'.allowed
    BY <1>2, <2>1, <2>5 DEF Breaker
  <2> QED
    BY <1>5, <1>6, <1>10, <2>3, <2>5, <2>6, HoldersFinite
       DEF IInv, TypeOK, Settled, FailuresAreEvidence, LadderClimbed,
           SlotAccounting, SlotsBounded, Breaker
<1>11. ~(cb.state = "open" /\ u = cb) /\ ~(u = [cb EXCEPT !.state = "open"])
  BY <1>2, <1>3 DEF Breaker
<1> QED
  BY <1>7, <1>8, <1>9, <1>10, <1>11, CheckCases

(* canProceed refuses a request. *)
LEMMA RejectStep ==
  ASSUME IInv, NEW c \in Callers, Reject(c)
  PROVE  IInv'
<1> USE BreakerAssumption
<1>1. PICK t \in ShouldTransitionToHalfOpen(cb) :
        LET b == UpdateState(cb, t)
        IN  /\ ~Admits(b)
            /\ cb' = b
            /\ ticket' = Aged(b, ticket)
            /\ unclaimed' = IF Enters(b, "half-open") THEN 0 ELSE unclaimed
            /\ wins' = IF Enters(b, "half-open") THEN 0 ELSE wins
            /\ UNCHANGED evidence
  BY DEF Reject
<1> DEFINE u == UpdateState(cb, t)
<1>2. cb \in Breaker /\ u \in Breaker /\ TypeOK /\ cb' = u
  BY <1>1, CheckCases DEF IInv, TypeOK
<1>3. u.state # "closed"
  BY <1>1 DEF Admits
<1>4. ~(/\ cb.state = "open" /\ cb.age # "fresh"
        /\ u = [cb EXCEPT !.state = "half-open", !.active = 0,
                          !.allowed = HalfOpenBase, !.successes = 0])
  <2> SUFFICES ASSUME u = [cb EXCEPT !.state = "half-open", !.active = 0,
                                     !.allowed = HalfOpenBase, !.successes = 0]
               PROVE  FALSE
    OBVIOUS
  <2>1. u.state = "half-open" /\ u.active = 0 /\ u.allowed = HalfOpenBase
    BY <1>2 DEF Breaker
  <2>2. ~Admits(u)
    BY <1>1
  <2> HIDE DEF u
  <2> QED
    BY <2>1, <2>2 DEF Admits, CanProceedHalfOpen
<1>5. ~Enters(u, "half-open")
  BY <1>2, <1>4, CheckCases DEF Enters, Breaker
<1>6. /\ ticket' = ticket /\ Holders' = Holders
      /\ unclaimed' = unclaimed /\ wins' = wins /\ evidence' = evidence
  BY <1>1, <1>2, <1>5, HoldersUnchanged
<1>7. u.state = "open" \/ u = cb
  BY <1>2, <1>3, <1>4, CheckCases DEF Breaker
<1> QED
  BY <1>2, <1>6, <1>7
     DEF IInv, TypeOK, Settled, FailuresAreEvidence, LadderClimbed,
         SlotAccounting, SlotsBounded

(* recordResult of a cluster failure: it never leaves the breaker half-open, *)
(* and one it leaves closed has one more piece of evidence against it.       *)
LEMMA FailureFields ==
  ASSUME IInv, NEW c \in Callers, RecordResult(c, TRUE)
  PROVE  /\ cb' \in Breaker
         /\ cb'.state \in {"closed", "open"}
         /\ cb'.state = "closed" => cb'.failures < FailureThreshold
         /\ cb'.state = "closed" => cb.state = "closed" /\ cb'.failures = Incr(cb.failures)
         /\ cb.state = "closed" /\ cb'.state = "open" => Incr(cb.failures) >= FailureThreshold
         /\ ticket' \in [Callers -> Tickets]
         /\ unclaimed' \in Nat
         /\ wins' \in 0..CounterCap
         /\ evidence' = IF cb.state = "closed" THEN Incr(evidence) ELSE evidence
<1> USE BreakerAssumption
<1> DEFINE r == Record(cb, TRUE)
<1>1. TypeOK /\ cb \in Breaker /\ unclaimed \in Nat /\ wins \in 0..CounterCap
  BY DEF IInv, TypeOK
<1>2. /\ r \in Breaker /\ r.state = cb.state /\ r.failures = Incr(cb.failures)
      /\ r.failures >= 1 /\ r.age = "fresh"
  BY <1>1, RecordFailure
<1>3. ShouldTransitionToHalfOpen(r) = {FALSE}
  BY <1>2 DEF ShouldTransitionToHalfOpen
<1> DEFINE u == UpdateState(r, FALSE)
<1>4. /\ cb' = u
      /\ ticket' = [Aged(u, ticket) EXCEPT ![c] = "idle"]
      /\ unclaimed' = CASE Enters(u, "half-open") -> 0
                        [] cb.state = "half-open" /\ ticket[c] # "slot" -> unclaimed + 1
                        [] OTHER -> unclaimed
      /\ evidence' = CASE Enters(u, "closed") -> 0
                       [] cb.state = "closed" -> Incr(evidence)
                       [] OTHER -> evidence
      /\ wins' = CASE Enters(u, "half-open") -> 0
                   [] cb.state = "half-open" /\ ~TRUE -> Incr(wins)
                   [] OTHER -> wins
  BY <1>3 DEF RecordResult
<1> HIDE DEF r
<1>5. u \in Breaker
  BY <1>2, UpdateStateType
<1>u. \/ cb.state = "closed" /\ r.failures < FailureThreshold /\ u = r
      \/ /\ cb.state = "closed" /\ r.failures >= FailureThreshold
         /\ u = [r EXCEPT !.state = "open"]
      \/ cb.state = "open" /\ u = r
      \/ cb.state = "half-open" /\ u = [r EXCEPT !.state = "open"]
  <2>1. CASE cb.state = "closed"
    BY <1>2, <2>1 DEF UpdateState, TransitionTo, Breaker
  <2>2. CASE cb.state = "open"
    BY <1>2, <2>2 DEF UpdateState
  <2>3. CASE cb.state = "half-open"
    BY <1>2, <2>3 DEF UpdateState, UpdateHalfOpenState, TransitionTo
  <2> QED
    BY <1>1, <2>1, <2>2, <2>3 DEF Breaker, States
<1> HIDE DEF u
<1>6. /\ u.state \in {"closed", "open"}
      /\ u.state = "closed" => /\ cb.state = "closed" /\ u.failures = Incr(cb.failures)
                               /\ u.failures < FailureThreshold
      /\ cb.state = "closed" /\ u.state = "open" => Incr(cb.failures) >= FailureThreshold
  BY <1>2, <1>u DEF Breaker
<1>7. ~Enters(u, "half-open") /\ ~Enters(u, "closed")
  BY <1>6 DEF Enters
<1>8. unclaimed' \in Nat
  BY <1>1, <1>4, <1>7
<1>9. wins' = wins
  BY <1>4, <1>7
<1>10. evidence' = IF cb.state = "closed" THEN Incr(evidence) ELSE evidence
  BY <1>4, <1>7
<1>11. ticket' \in [Callers -> Tickets]
  BY <1>1, <1>4, AgedType DEF Tickets
<1> QED
  BY <1>1, <1>4, <1>5, <1>6, <1>8, <1>9, <1>10, <1>11

(* A request that ends in a cluster failure keeps the invariant. *)
LEMMA FailureStep ==
  ASSUME IInv, NEW c \in Callers, RecordResult(c, TRUE)
  PROVE  IInv'
<1> USE BreakerAssumption
<1>1. TypeOK /\ evidence \in 0..CounterCap
  BY DEF IInv, TypeOK
<1>2. cb' \in Breaker /\ cb'.state # "half-open"
  BY FailureFields
<1>3. ticket' \in [Callers -> Tickets]
  BY FailureFields
<1>4. evidence' \in 0..CounterCap
  BY <1>1, FailureFields, IncrFacts
<1>5. cb'.state = "closed" => cb'.failures <= evidence'
  <2> SUFFICES ASSUME cb'.state = "closed" PROVE cb'.failures <= evidence'
    OBVIOUS
  <2>1. /\ cb.state = "closed" /\ cb'.failures = Incr(cb.failures)
        /\ evidence' = Incr(evidence)
    BY FailureFields
  <2>2. cb.failures <= evidence /\ cb.failures \in 0..CounterCap
    BY <1>1, <2>1 DEF IInv, FailuresAreEvidence, TypeOK, Breaker
  <2> QED
    BY <1>1, <2>1, <2>2 DEF Incr
<1> QED
  BY <1>2, <1>3, <1>4, <1>5, FailureFields
     DEF IInv, TypeOK, Settled, FailuresAreEvidence, LadderClimbed,
         SlotAccounting, SlotsBounded

(* A success recorded half-open counts for the ladder. *)
LEMMA SuccessClimbs ==
  ASSUME IInv, cb.state = "half-open", cb.allowed # 0
  PROVE  /\ Incr(wins) + HalfOpenBase >= cb.allowed + Incr(cb.successes)
         /\ Incr(cb.successes) <= cb.allowed
<1> USE BreakerAssumption
<1>1. /\ cb.allowed \in 0..MaxInt64 /\ cb.successes \in 0..CounterCap
      /\ wins \in 0..CounterCap
  BY DEF IInv, TypeOK, Breaker
<1>2. wins + HalfOpenBase >= cb.allowed + cb.successes /\ cb.successes < cb.allowed
  BY DEF IInv, LadderClimbed, Settled
<1> QED
  BY <1>1, <1>2 DEF Incr

(* updateStateLocked of a breaker without failures, field by field. *)
LEMMA UpdateAfterSuccess ==
  ASSUME NEW b \in Breaker, NEW t \in BOOLEAN, b.failures = 0,
         NEW u, u = UpdateState(b, t)
  PROVE  /\ u.failures = 0 /\ u.age = b.age
         /\ u.state = "half-open" /\ b.state # "half-open" =>
              /\ u.active = 0 /\ u.allowed = HalfOpenBase /\ u.successes = 0
              /\ t
         /\ u.state = "half-open" /\ b.state = "half-open" =>
              /\ u.active = b.active /\ b.allowed # 0
              /\ \/ /\ u.allowed = b.allowed /\ u.successes = b.successes
                    /\ b.successes < b.allowed
                 \/ /\ u.allowed = 2 * b.allowed /\ u.successes = 0
                    /\ b.successes >= b.allowed
                 \/ /\ u.allowed = 0 /\ u.successes = 0 /\ HalfOpenMax = 0
                    /\ b.successes >= b.allowed /\ 2 * b.allowed > MaxInt64
         /\ u.state = "closed" /\ b.state = "half-open" =>
              \/ b.allowed = 0
              \/ b.successes >= b.allowed /\ 2 * b.allowed > Ceiling
         /\ b.state = "closed" => u.state = "closed"
<1> USE BreakerAssumption DEF Breaker
<1>1. CASE b.state = "closed"
  BY <1>1 DEF UpdateState, TransitionTo
<1>2. CASE b.state = "open" /\ ~t
  BY <1>2 DEF UpdateState
<1>3. CASE b.state = "open" /\ t
  BY <1>3 DEF UpdateState, TransitionTo, ResetHalfOpen
<1>4. CASE b.state = "half-open"
  <2>1. u = UpdateHalfOpenState(b)
    BY <1>4 DEF UpdateState
  <2>2. CASE b.allowed = 0
    BY <1>4, <2>1, <2>2 DEF UpdateHalfOpenState, TransitionTo
  <2>3. CASE b.allowed # 0 /\ b.successes < b.allowed
    BY <1>4, <2>1, <2>3 DEF UpdateHalfOpenState
  <2>4. CASE b.allowed # 0 /\ b.successes >= b.allowed
    <3>1. u = ProgressToNextLevel(b)
      BY <2>1, <2>4 DEF UpdateHalfOpenState
    <3> QED
      BY <1>4, <2>4, <3>1 DEF ProgressToNextLevel, Doubled, TransitionTo, Ceiling
  <2>5. b.allowed = 0 \/ b.successes < b.allowed \/ b.successes >= b.allowed
    OBVIOUS
  <2> QED
    BY <2>2, <2>3, <2>4, <2>5
<1>5. b.state \in {"closed", "open", "half-open"}
  BY DEF States
<1> QED
  BY <1>1, <1>2, <1>3, <1>4, <1>5

(* recordResult of any other outcome, branch by branch. *)
LEMMA SuccessStep ==
  ASSUME IInv, NEW c \in Callers, RecordResult(c, FALSE)
  PROVE  IInv'
<1> USE BreakerAssumption
<1> DEFINE r == Record(cb, FALSE)
<1>1. /\ TypeOK /\ cb \in Breaker /\ unclaimed \in Nat
      /\ wins \in 0..CounterCap /\ evidence \in 0..CounterCap
  BY DEF IInv, TypeOK
<1>2. /\ r \in Breaker /\ r.state = cb.state /\ r.failures = 0 /\ r.age = cb.age
      /\ r.allowed = cb.allowed /\ r.successes = Incr(cb.successes)
      /\ cb.state = "half-open" => r.active = cb.active - 1
  BY <1>1, RecordSuccess
<1>3. PICK t \in ShouldTransitionToHalfOpen(r) :
        LET b == UpdateState(r, t)
        IN  /\ cb' = b
            /\ ticket' = [Aged(b, ticket) EXCEPT ![c] = "idle"]
            /\ unclaimed' =
                 CASE Enters(b, "half-open") -> 0
                   [] cb.state = "half-open" /\ ticket[c] # "slot" -> unclaimed + 1
                   [] OTHER -> unclaimed
            /\ evidence' =
                 CASE Enters(b, "closed") -> 0
                   [] cb.state = "closed" /\ FALSE -> Incr(evidence)
                   [] OTHER -> evidence
            /\ wins' =
                 CASE Enters(b, "half-open") -> 0
                   [] cb.state = "half-open" /\ ~FALSE -> Incr(wins)
                   [] OTHER -> wins
  BY DEF RecordResult
<1> HIDE DEF r
<1> DEFINE u == UpdateState(r, t)
<1>4. t \in BOOLEAN /\ (t => cb.age # "fresh")
  BY <1>2 DEF ShouldTransitionToHalfOpen, Breaker, Ages
<1>5. u \in Breaker
  BY <1>2, <1>4, UpdateStateType
<1>6. Incr(wins) \in 0..CounterCap
  BY <1>1, IncrFacts
<1>7. /\ cb' \in Breaker /\ ticket' \in [Callers -> Tickets]
      /\ unclaimed' \in Nat /\ evidence' \in 0..CounterCap /\ wins' \in 0..CounterCap
  <2>1. cb' \in Breaker
    BY <1>3, <1>5
  <2>2. ticket' \in [Callers -> Tickets]
    BY <1>1, <1>3, AgedType DEF Tickets
  <2>3. unclaimed' \in {0, unclaimed + 1, unclaimed}
    BY <1>3
  <2>4. evidence' \in {0, evidence}
    BY <1>3
  <2>5. wins' \in {0, Incr(wins), wins}
    BY <1>3
  <2>6. unclaimed' \in Nat
    BY <1>1, <2>3
  <2>7. evidence' \in 0..CounterCap
    BY <1>1, <2>4
  <2>8. wins' \in 0..CounterCap
    BY <1>1, <1>6, <2>5
  <2> QED
    BY <2>1, <2>2, <2>6, <2>7, <2>8
<1>8. CASE u.state = "open"
  BY <1>3, <1>7, <1>8
     DEF IInv, TypeOK, Settled, FailuresAreEvidence, LadderClimbed,
         SlotAccounting, SlotsBounded
<1>9. CASE u.state = "closed"
  <2>1. u.failures = 0
    BY <1>2, <1>4, UpdateAfterSuccess
  <2> HIDE DEF u
  <2>2. cb'.state = "closed" /\ cb'.failures = 0
    BY <1>3, <1>9, <2>1 DEF u
  <2> QED
    BY <1>7, <2>2
       DEF IInv, TypeOK, Settled, FailuresAreEvidence, LadderClimbed,
           SlotAccounting, SlotsBounded
<1>10. CASE u.state = "half-open" /\ cb.state # "half-open"
  <2>0. u.age = cb.age /\ r.state # "half-open"
    BY <1>2, <1>4, <1>10, UpdateAfterSuccess
  <2>1. /\ u.active = 0 /\ u.allowed = HalfOpenBase /\ u.successes = 0
        /\ u.age # "fresh"
    BY <1>2, <1>4, <1>10, <2>0, UpdateAfterSuccess
  <2>2. Enters(u, "half-open")
    BY <1>10 DEF Enters
  <2>3. Cardinality(Holders') = 0 /\ unclaimed' = 0 /\ wins' = 0
    <3>1. Cardinality(Holders') = 0
      BY <1>1, <1>3, <2>2, HoldersAfterResult
    <3>2. unclaimed' = 0 /\ wins' = 0
      BY <1>3, <1>10, <2>2
    <3> QED
      BY <3>1, <3>2
  <2>4. /\ cb'.state = "half-open" /\ cb'.active = 0 /\ cb'.allowed = HalfOpenBase
        /\ cb'.successes = 0 /\ cb'.age # "fresh"
    BY <1>3, <1>10, <2>1
  <2> QED
    BY <1>7, <2>3, <2>4
       DEF IInv, TypeOK, Settled, FailuresAreEvidence, LadderClimbed,
           SlotAccounting, SlotsBounded
<1>11. CASE u.state = "half-open" /\ cb.state = "half-open"
  <2>1. ~Enters(u, "half-open")
    BY <1>11 DEF Enters
  <2>2. /\ Cardinality(Holders') = IF ticket[c] = "slot" THEN Cardinality(Holders) - 1
                                   ELSE Cardinality(Holders)
        /\ unclaimed' = IF ticket[c] = "slot" THEN unclaimed ELSE unclaimed + 1
        /\ wins' = Incr(wins)
    BY <1>1, <1>3, <1>11, <2>1, HoldersAfterResult
  <2>3. /\ u.active = cb.active - 1 /\ u.age = cb.age /\ cb.allowed # 0
        /\ \/ u.allowed = cb.allowed /\ u.successes = Incr(cb.successes)
              /\ u.successes < u.allowed
           \/ /\ u.allowed = 2 * cb.allowed /\ u.successes = 0
              /\ Incr(cb.successes) >= cb.allowed
           \/ /\ u.allowed = 0 /\ u.successes = 0 /\ HalfOpenMax = 0
              /\ Incr(cb.successes) >= cb.allowed /\ 2 * cb.allowed > MaxInt64
    BY <1>2, <1>4, <1>11, UpdateAfterSuccess
  <2>4. cb.age # "fresh" /\ cb.active = Cardinality(Holders) - unclaimed
    BY <1>11 DEF IInv, Settled, SlotAccounting
  <2>5. /\ wins' + HalfOpenBase >= cb.allowed + Incr(cb.successes)
        /\ Incr(cb.successes) <= cb.allowed
    BY <1>11, <2>2, <2>3, SuccessClimbs
  <2>6. cb.active <= cb.allowed /\ cb.allowed \in 1..MaxInt64 /\ cb.active \in Int
    BY <1>1, <1>11, <2>3 DEF IInv, SlotsBounded, Breaker
  <2>7. Incr(cb.successes) \in 0..CounterCap
    BY <1>1, IncrFacts DEF Breaker
  <2> HIDE DEF u
  <2>8. cb' = u
    BY <1>3 DEF u
  <2>9. SlotAccounting'
    BY <1>1, <2>2, <2>3, <2>4, <2>6, <2>8, HoldersFinite DEF SlotAccounting
  <2>10. Settled'
    BY <1>11, <2>3, <2>4, <2>6, <2>8 DEF Settled
  <2>11. LadderClimbed'
    BY <1>7, <2>3, <2>5, <2>6, <2>7, <2>8 DEF LadderClimbed
  <2>12. SlotsBounded' /\ FailuresAreEvidence'
    BY <1>11, <2>3, <2>6, <2>8 DEF SlotsBounded, FailuresAreEvidence
  <2> QED
    BY <1>7, <2>9, <2>10, <2>11, <2>12 DEF IInv, TypeOK
<1> QED
  BY <1>5, <1>8, <1>9, <1>10, <1>11 DEF Breaker, States

(* An operator's reset, and the passing of time. *)
LEMMA ResetStep ==
  ASSUME IInv, Reset
  PROVE  IInv'
<1> USE BreakerAssumption
<1> DEFINE h == ResetHalfOpen(cb)
<1>1. cb \in Breaker
  BY DEF IInv, TypeOK
<1>2. h \in Breaker
  <2>1. 0 \in Int /\ HalfOpenBase \in 0..MaxInt64 /\ 0 \in 0..CounterCap
    OBVIOUS
  <2>2. [cb EXCEPT !.allowed = HalfOpenBase] \in Breaker
    BY <1>1, <2>1, FieldUpdates
  <2>3. [[cb EXCEPT !.allowed = HalfOpenBase] EXCEPT !.active = 0] \in Breaker
    BY <2>1, <2>2, FieldUpdates
  <2>4. [[[cb EXCEPT !.allowed = HalfOpenBase] EXCEPT !.active = 0]
            EXCEPT !.successes = 0] \in Breaker
    BY <2>1, <2>3, FieldUpdates
  <2> QED
    BY <2>4 DEF ResetHalfOpen
<1>3. cb' = [[[h EXCEPT !.state = "closed"] EXCEPT !.failures = 0] EXCEPT !.age = "expired"]
  BY DEF Reset
<1> HIDE DEF h
<1>4. cb' \in Breaker
  <2>1. 0 \in 0..CounterCap /\ "closed" \in States /\ "expired" \in Ages
    BY DEF States, Ages
  <2>2. [h EXCEPT !.state = "closed"] \in Breaker
    BY <1>2, <2>1, FieldUpdates
  <2>3. [[h EXCEPT !.state = "closed"] EXCEPT !.failures = 0] \in Breaker
    BY <2>1, <2>2, FieldUpdates
  <2> QED
    BY <1>3, <2>1, <2>3, FieldUpdates
<1>5. cb'.state = "closed" /\ cb'.failures = 0
  BY <1>2, <1>3 DEF Breaker
<1> QED
  BY <1>4, <1>5 DEF Reset, IInv, TypeOK, Settled, FailuresAreEvidence, LadderClimbed,
                    SlotAccounting, SlotsBounded

(* Time that passes keeps the invariant. *)
LEMMA TickStep ==
  ASSUME IInv, Tick
  PROVE  IInv'
<1>1. PICK a \in {"window", "expired"} : cb' = [cb EXCEPT !.age = a]
  BY DEF Tick
<1>2. cb \in Breaker
  BY DEF IInv, TypeOK
<1>3. cb' \in Breaker
  BY <1>1, <1>2, FieldUpdates DEF Ages
<1>4. /\ cb'.state = cb.state /\ cb'.failures = cb.failures /\ cb'.successes = cb.successes
      /\ cb'.allowed = cb.allowed /\ cb'.active = cb.active /\ cb'.age # "fresh"
  BY <1>1, <1>2 DEF Breaker
<1>5. /\ ticket' = ticket /\ Holders' = Holders
      /\ unclaimed' = unclaimed /\ evidence' = evidence /\ wins' = wins
  BY DEF Tick, Holders
<1> QED
  BY <1>3, <1>4, <1>5 DEF IInv, TypeOK, Settled, FailuresAreEvidence, LadderClimbed,
                          SlotAccounting, SlotsBounded

-----------------------------------------------------------------------------
(* A new breaker satisfies the invariant. *)
LEMMA InitIInv == Init => IInv
<1> SUFFICES ASSUME Init PROVE IInv
  OBVIOUS
<1> USE BreakerAssumption
<1>1. cb \in Breaker /\ cb.state = "closed" /\ cb.failures = 0
  BY DEF Init, Breaker, States, Ages
<1>2. ticket \in [Callers -> Tickets]
  BY DEF Init, Tickets
<1> QED
  BY <1>1, <1>2 DEF Init, IInv, TypeOK, Settled, FailuresAreEvidence, LadderClimbed,
                    SlotAccounting, SlotsBounded

(* Every critical section, and every pause between two, keeps the invariant. *)
LEMMA NextIInv == IInv /\ [Next]_vars => IInv'
<1> SUFFICES ASSUME IInv, [Next]_vars PROVE IInv'
  OBVIOUS
<1>1. CASE \E c \in Callers : Admit(c)
  BY <1>1, AdmitStep
<1>2. CASE \E c \in Callers : Reject(c)
  BY <1>2, RejectStep
<1>3. CASE \E c \in Callers : RecordResult(c, TRUE)
  BY <1>3, FailureStep
<1>4. CASE \E c \in Callers : RecordResult(c, FALSE)
  BY <1>4, SuccessStep
<1>5. CASE Reset
  BY <1>5, ResetStep
<1>6. CASE Tick
  BY <1>6, TickStep
<1>7. CASE UNCHANGED vars
  BY <1>7 DEF vars, IInv, TypeOK, Settled, FailuresAreEvidence, LadderClimbed,
              SlotAccounting, SlotsBounded, Holders
<1> QED
  BY <1>1, <1>2, <1>3, <1>4, <1>5, <1>6, <1>7 DEF Next

(* The inductive invariant holds in every reachable state. *)
THEOREM Invariance == Spec => []IInv
BY InitIInv, NextIInv, PTL DEF Spec

(* Type correctness of the breaker, for every configuration that             *)
(* validateOptions accepts.                                                  *)
THEOREM TypeCorrect == Spec => []TypeOK
<1>1. IInv => TypeOK
  BY DEF IInv
<1> QED
  BY <1>1, Invariance, PTL

(* The half-open counter is the holders of this period less the slots given  *)
(* back by requests that hold none, whatever the number of callers.          *)
THEOREM SlotsAccounted == Spec => []SlotAccounting
<1>1. IInv => SlotAccounting
  BY DEF IInv
<1> QED
  BY <1>1, Invariance, PTL

(* Admission control: the requests of one half-open period exceed the level  *)
(* at most by the slots that requests of other periods gave back.            *)
THEOREM AdmissionBounded == Spec => []AdmissionBound
<1>1. IInv => AdmissionBound
  <2> SUFFICES ASSUME IInv, cb.state = "half-open", cb.allowed # 0
               PROVE  Cardinality(Holders) <= cb.allowed + unclaimed
    BY DEF AdmissionBound
  <2>1. cb.active = Cardinality(Holders) - unclaimed /\ cb.active <= cb.allowed
    BY DEF IInv, SlotAccounting, SlotsBounded
  <2>2. cb.active \in Int /\ cb.allowed \in Nat /\ unclaimed \in Nat
    BY BreakerAssumption DEF IInv, TypeOK, Breaker
  <2> QED
    BY <2>1, <2>2, HoldersFinite
<1> QED
  BY <1>1, Invariance, PTL

-----------------------------------------------------------------------------
(* A success never opens a closed circuit, and closes a half-open one only   *)
(* at the end of the ladder.                                                 *)
LEMMA SuccessTransitions ==
  ASSUME IInv, NEW c \in Callers, RecordResult(c, FALSE)
  PROVE  /\ cb.state = "closed" => cb'.state = "closed"
         /\ cb.state = "half-open" /\ cb'.state = "closed" =>
              wins' + HalfOpenBase > Ceiling
<1> USE BreakerAssumption
<1> DEFINE r == Record(cb, FALSE)
<1>1. cb \in Breaker /\ wins \in 0..CounterCap
  BY DEF IInv, TypeOK
<1>2. /\ r \in Breaker /\ r.state = cb.state /\ r.failures = 0
      /\ r.allowed = cb.allowed /\ r.successes = Incr(cb.successes)
  BY <1>1, RecordSuccess
<1>3. PICK t \in ShouldTransitionToHalfOpen(r) :
        /\ cb' = UpdateState(r, t)
        /\ wins' = CASE Enters(UpdateState(r, t), "half-open") -> 0
                     [] cb.state = "half-open" /\ ~FALSE -> Incr(wins)
                     [] OTHER -> wins
  BY DEF RecordResult
<1> HIDE DEF r
<1>4. t \in BOOLEAN
  BY <1>2 DEF ShouldTransitionToHalfOpen, Breaker, Ages
<1> DEFINE u == UpdateState(r, t)
<1>5. /\ cb.state = "closed" => u.state = "closed"
      /\ u.state = "closed" /\ cb.state = "half-open" =>
           \/ cb.allowed = 0
           \/ Incr(cb.successes) >= cb.allowed /\ 2 * cb.allowed > Ceiling
  BY <1>2, <1>4, UpdateAfterSuccess
<1>6. ASSUME cb.state = "half-open", u.state = "closed"
      PROVE  wins' + HalfOpenBase > Ceiling
  <2>1. wins' = Incr(wins)
    BY <1>3, <1>6 DEF Enters
  <2>2. CASE cb.allowed = 0
    BY <1>1, <1>6, <2>1, <2>2 DEF IInv, LadderClimbed, Ceiling, Incr
  <2>3. CASE /\ cb.allowed # 0
             /\ Incr(cb.successes) >= cb.allowed /\ 2 * cb.allowed > Ceiling
    <3>1. Incr(wins) + HalfOpenBase >= cb.allowed + Incr(cb.successes)
      BY <1>6, <2>3, SuccessClimbs
    <3>2. cb.allowed \in 0..MaxInt64 /\ cb.successes \in 0..CounterCap
      BY <1>1 DEF Breaker
    <3>3. Incr(cb.successes) \in 0..CounterCap /\ Incr(wins) \in 0..CounterCap
      BY <1>1, <3>2, IncrFacts
    <3> QED
      BY <2>1, <2>3, <3>1, <3>2, <3>3 DEF Ceiling
  <2> QED
    BY <1>5, <1>6, <2>2, <2>3
<1> QED
  BY <1>3, <1>5, <1>6

(* Where a check at the head of canProceed can lead. *)
LEMMA CheckTransitions ==
  ASSUME IInv, NEW c \in Callers, Admit(c) \/ Reject(c)
  PROVE  /\ cb.state = "closed" => cb'.state = "closed"
         /\ cb.state = "half-open" /\ cb'.state = "closed" =>
              cb.allowed = 0 /\ wins' = wins
         /\ cb.state # "closed" /\ cb.age = "fresh" =>
              cb'.state = "open" /\ Reject(c)
<1> USE BreakerAssumption
<1>1. cb \in Breaker /\ (cb.state = "half-open" => cb.age # "fresh")
  BY DEF IInv, TypeOK, Settled
<1>2. CASE Admit(c)
  <2>1. PICK t \in ShouldTransitionToHalfOpen(cb) :
          /\ Admits(UpdateState(cb, t))
          /\ cb' = Claim(UpdateState(cb, t))
          /\ wins' = IF Enters(UpdateState(cb, t), "half-open") THEN 0 ELSE wins
    BY <1>2 DEF Admit
  <2> DEFINE u == UpdateState(cb, t)
  <2>2. /\ u \in Breaker
        /\ cb.state = "closed" => u.state = "closed"
        /\ cb.state = "open" => u.state = "open" \/ (u.state = "half-open" /\ cb.age # "fresh")
        /\ cb.state = "half-open" /\ u.state = "closed" => cb.allowed = 0
    BY <1>1, CheckCases DEF Breaker
  <2>3. u.state \in {"closed", "half-open"}
    BY <2>1 DEF Admits
  <2> HIDE DEF u
  <2>4. cb'.state = u.state
    BY <2>1, <2>2 DEF u, Claim, Breaker
  <2>5. u.state = "closed" => wins' = wins
    BY <2>1 DEF u, Enters
  <2> QED
    BY <1>1, <2>2, <2>3, <2>4, <2>5 DEF Breaker, States
<1>3. CASE Reject(c)
  <2>1. PICK t \in ShouldTransitionToHalfOpen(cb) :
          ~Admits(UpdateState(cb, t)) /\ cb' = UpdateState(cb, t)
    BY <1>3 DEF Reject
  <2> DEFINE u == UpdateState(cb, t)
  <2>2. /\ u \in Breaker
        /\ cb.state = "closed" => u.state = "closed"
        /\ cb.state = "open" => u.state = "open" \/ (u.state = "half-open" /\ cb.age # "fresh")
    BY <1>1, CheckCases DEF Breaker
  <2>3. u.state # "closed"
    BY <2>1 DEF Admits
  <2> HIDE DEF u
  <2> QED
    BY <1>1, <1>3, <2>1, <2>2, <2>3 DEF u, Breaker, States
<1> QED
  BY <1>2, <1>3

(* Every way a step of the breaker can go, for the action properties. *)
LEMMA StepTransitions ==
  ASSUME IInv, [Next]_vars
  PROVE  /\ cb.state = "closed" /\ cb'.state = "open" => evidence' >= FailureThreshold
         /\ cb.state = "half-open" /\ cb'.state = "closed" =>
              Reset \/ wins' + HalfOpenBase > Ceiling
         /\ cb.state # "closed" /\ cb.age = "fresh" =>
              \A c \in Callers : ticket[c] = "idle" => ticket'[c] = "idle"
<1> USE BreakerAssumption
<1>1. TypeOK /\ cb \in Breaker
  BY DEF IInv, TypeOK
<1>2. ASSUME NEW c \in Callers, Admit(c) \/ Reject(c)
      PROVE  /\ cb.state = "closed" => cb'.state = "closed"
             /\ cb.state = "half-open" /\ cb'.state = "closed" => wins' + HalfOpenBase > Ceiling
             /\ cb.state # "closed" /\ cb.age = "fresh" =>
                  \A d \in Callers : ticket[d] = "idle" => ticket'[d] = "idle"
  <2>1. ASSUME cb.state = "half-open", cb'.state = "closed"
        PROVE  wins' + HalfOpenBase > Ceiling
    <3>1. cb.allowed = 0 /\ wins' = wins
      BY <1>2, <2>1, CheckTransitions
    <3> QED
      BY <2>1, <3>1 DEF IInv, LadderClimbed, TypeOK, Ceiling
  <2>2. ASSUME cb.state # "closed", cb.age = "fresh", NEW d \in Callers, ticket[d] = "idle"
        PROVE  ticket'[d] = "idle"
    <3>1. Reject(c)
      BY <1>2, <2>2, CheckTransitions
    <3>2. PICK b : ticket' = Aged(b, ticket)
      BY <3>1 DEF Reject
    <3> QED
      BY <2>2, <3>2 DEF Aged
  <2> QED
    BY <1>2, <2>1, <2>2, CheckTransitions
<1>3. ASSUME NEW c \in Callers, RecordResult(c, TRUE)
      PROVE  /\ cb.state = "closed" /\ cb'.state = "open" => evidence' >= FailureThreshold
             /\ cb.state = "half-open" => cb'.state # "closed"
  <2>1. ASSUME cb.state = "closed", cb'.state = "open"
        PROVE  evidence' >= FailureThreshold
    <3>1. evidence' = Incr(evidence) /\ Incr(cb.failures) >= FailureThreshold
      BY <1>3, <2>1, FailureFields
    <3>2. /\ cb.failures <= evidence /\ cb.failures \in 0..CounterCap
          /\ evidence \in 0..CounterCap
      BY <1>1, <2>1 DEF IInv, FailuresAreEvidence, TypeOK, Breaker
    <3> QED
      BY <3>1, <3>2 DEF Incr
  <2> QED
    BY <1>3, <2>1, FailureFields
<1>4. ASSUME NEW c \in Callers, NEW x \in BOOLEAN, RecordResult(c, x),
             NEW d \in Callers, ticket[d] = "idle"
      PROVE  ticket'[d] = "idle"
  <2>1. PICK b : ticket' = [Aged(b, ticket) EXCEPT ![c] = "idle"]
    BY <1>4 DEF RecordResult
  <2> QED
    BY <1>1, <1>4, <2>1 DEF Aged, TypeOK
<1>5. CASE \E c \in Callers : Admit(c) \/ Reject(c)
  BY <1>2, <1>5
<1>6. CASE \E c \in Callers : RecordResult(c, TRUE)
  BY <1>3, <1>4, <1>6
<1>7. CASE \E c \in Callers : RecordResult(c, FALSE)
  BY <1>4, <1>7, SuccessTransitions
<1>8. CASE Reset
  <2>1. cb'.state = "closed" /\ ticket' = ticket
    <3>1. ResetHalfOpen(cb) = [cb EXCEPT !.allowed = HalfOpenBase, !.active = 0, !.successes = 0]
      BY DEF ResetHalfOpen
    <3> QED
      BY <1>1, <1>8, <3>1 DEF Reset, Breaker
  <2> QED
    BY <1>8, <2>1
<1>9. CASE Tick \/ UNCHANGED vars
  <2>1. cb'.state = cb.state /\ ticket' = ticket
    BY <1>1, <1>9 DEF Tick, vars, Breaker
  <2> QED
    BY <2>1
<1> QED
  BY <1>5, <1>6, <1>7, <1>8, <1>9 DEF Next

(* A closed circuit opens only on FailureThreshold cluster failures recorded *)
(* since it closed (updateStateLocked).                                      *)
THEOREM OpeningNeedsEvidence == Spec => OpensOnEvidence
<1>1. IInv /\ [Next]_vars =>
        [cb.state = "closed" /\ cb'.state = "open" => evidence' >= FailureThreshold]_vars
  BY StepTransitions
<1> QED
  BY <1>1, Invariance, PTL DEF Spec, OpensOnEvidence

(* A half-open circuit closes only when the ladder is climbed, or on Reset   *)
(* (progressToNextLevelLocked).                                              *)
THEOREM ClosingNeedsLadder == Spec => ClosesAfterLadder
<1>1. IInv /\ [Next]_vars =>
        [cb.state = "half-open" /\ cb'.state = "closed" /\ ~Reset
           => wins' + HalfOpenBase > Ceiling]_vars
  BY StepTransitions
<1> QED
  BY <1>1, Invariance, PTL DEF Spec, ClosesAfterLadder

(* Nobody is let through while the cool-down of the last cluster failure     *)
(* runs and the circuit is not closed (shouldTransitionToHalfOpenLocked).    *)
THEOREM CooldownAdmitsNobody == Spec => NoAdmissionInCooldown
<1>1. IInv /\ [Next]_vars =>
        [cb.state # "closed" /\ cb.age = "fresh"
           => \A c \in Callers : ticket[c] = "idle" => ticket'[c] = "idle"]_vars
  BY StepTransitions
<1> QED
  BY <1>1, Invariance, PTL DEF Spec, NoAdmissionInCooldown
=============================================================================
