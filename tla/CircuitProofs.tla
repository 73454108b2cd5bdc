---------------------------- MODULE CircuitProofs ----------------------------
(***************************************************************************)
(* Proofs about the circuit breaker under Executive.execute, for any       *)
(* threads, threshold and recovery time.                                   *)
(***************************************************************************)
EXTENDS Circuit, TLAPS

-----------------------------------------------------------------------------
(* The inductive invariant. *)

\* The window runs from the last failure recorded or probe handed back.
WindowIsCurrent == state # "closed" => openedAt = lastBad

\* A call whose first look found the circuit not open, and that finds it open now,
\* saw it trip.
TripWasSeen ==
  \A t \in Threads : pc[t] \in {"failed", "counted"} =>
    /\ tripsAt[t] <= trips
    /\ ~wasOpen[t] /\ state = "open" => tripsAt[t] < trips

IInv ==
  /\ TypeOK
  /\ HalfOpenHasItsProbe
  /\ OpenIsEarned
  /\ WindowIsCurrent
  /\ TripWasSeen

LEMMA InitIInv == Init => IInv
<1> SUFFICES ASSUME Init PROVE IInv
  OBVIOUS
<1>1. TypeOK
  BY DEF Init, TypeOK
<1>2. HalfOpenHasItsProbe /\ OpenIsEarned /\ WindowIsCurrent /\ TripWasSeen
  BY LimitsTyped
  DEF Init, HalfOpenHasItsProbe, OpenIsEarned, WindowIsCurrent, TripWasSeen
<1> QED BY <1>1, <1>2 DEF IInv

-----------------------------------------------------------------------------
(* Every step keeps it. *)

\* A step of one thread that leaves the breaker alone: the thread keeps what it owes,
\* or owed nothing.
LEMMA AloneKeeps ==
  ASSUME IInv, NEW t \in Threads,
         UNCHANGED <<now, circuit, isProbe, wasOpen, history, calls>>,
         lessons' \in [Threads -> Nat],
         NEW where \in {"idle", "calling", "refused"}, pc' = [pc EXCEPT ![t] = where],
         where = "idle" => ~(state = "half_open" /\ Unrecorded(t))
  PROVE  IInv'
<1> USE DEF IInv, circuit, history
<1>1. TypeOK'
  BY DEF TypeOK
<1>2. HalfOpenHasItsProbe'
  BY DEF HalfOpenHasItsProbe, Unrecorded, TypeOK
<1>3. OpenIsEarned' /\ WindowIsCurrent'
  BY DEF OpenIsEarned, WindowIsCurrent
<1>4. TripWasSeen'
  BY DEF TripWasSeen, TypeOK
<1> QED BY <1>1, <1>2, <1>3, <1>4

LEMMA AdmitKeeps ==
  ASSUME IInv, NEW t \in Threads, Admit(t)
  PROVE  IInv'
<1> USE DEF IInv, Admit, Goto, history
<1>1. TypeOK'
  <2>1. pc' \in [Threads -> {"idle", "admitted", "calling", "refused", "failed", "counted"}]
    BY DEF TypeOK
  <2>2. isProbe' \in [Threads -> BOOLEAN]
    BY DEF TypeOK
  <2>3. /\ \/ state' = state /\ probe' = probe
           \/ state' = "half_open" /\ probe' = TRUE
        /\ calls' = calls + 1
    OBVIOUS
  <2>4. state' \in {"closed", "open", "half_open"} /\ calls' \in Nat
    BY <2>3 DEF TypeOK
  <2>5. probe' \in BOOLEAN
    BY <2>3, Zenon DEF TypeOK
  <2>6. UNCHANGED <<now, failures, openedAt, wasOpen, lessons, trips, tripsAt, lastBad>>
    OBVIOUS
  <2> QED BY <2>1, <2>2, <2>4, <2>5, <2>6 DEF TypeOK
<1>2. HalfOpenHasItsProbe'
  BY DEF HalfOpenHasItsProbe, Unrecorded, TypeOK
<1>3. OpenIsEarned' /\ WindowIsCurrent'
  BY DEF OpenIsEarned, WindowIsCurrent, ProbeDue
<1>4. TripWasSeen'
  BY DEF TripWasSeen, TypeOK
<1> QED BY <1>1, <1>2, <1>3, <1>4

\* What a method of the breaker does, whoever calls it, to all but the threads.
LEMMA ReturnsProbeKeeps ==
  ASSUME IInv, NEW t \in Threads, Unattempted, Goto(t, "idle"),
         UNCHANGED <<now, isProbe, wasOpen, lessons, calls>>
  PROVE  IInv'
<1> USE DEF IInv, Unattempted, Goto
<1>1. TypeOK'
  <2>1. state' \in {"closed", "open", "half_open"} /\ openedAt' \in Nat /\ trips' \in Nat
        /\ lastBad' \in Nat
    BY DEF TypeOK
  <2>2. probe' \in BOOLEAN
        /\ UNCHANGED <<now, failures, isProbe, wasOpen, lessons, calls, tripsAt>>
    BY DEF TypeOK
  <2>3. pc' \in [Threads -> {"idle", "admitted", "calling", "refused", "failed", "counted"}]
    BY DEF TypeOK
  <2> QED BY <2>1, <2>2, <2>3 DEF TypeOK
<1>2. HalfOpenHasItsProbe'
  BY DEF HalfOpenHasItsProbe, TypeOK
<1>3. OpenIsEarned' /\ WindowIsCurrent'
  BY DEF OpenIsEarned, WindowIsCurrent, TypeOK
<1>4. TripWasSeen'
  BY DEF TripWasSeen, TypeOK
<1> QED BY <1>1, <1>2, <1>3, <1>4

LEMMA SucceedKeeps ==
  ASSUME IInv, NEW t \in Threads, Succeed(t)
  PROVE  IInv'
<1> USE DEF IInv, Succeed, Success, Goto, history
<1>1. TypeOK'
  BY DEF TypeOK
<1>2. HalfOpenHasItsProbe' /\ OpenIsEarned' /\ WindowIsCurrent'
  BY LimitsTyped DEF HalfOpenHasItsProbe, OpenIsEarned, WindowIsCurrent
<1>3. TripWasSeen'
  BY DEF TripWasSeen, TypeOK
<1> QED BY <1>1, <1>2, <1>3

LEMMA FailKeeps ==
  ASSUME IInv, NEW t \in Threads, Fail(t)
  PROVE  IInv'
<1> USE DEF IInv, Fail, Goto, circuit
<1>1. TypeOK'
  BY DEF TypeOK
<1>2. HalfOpenHasItsProbe'
  BY DEF HalfOpenHasItsProbe, Unrecorded, TypeOK
<1>3. OpenIsEarned' /\ WindowIsCurrent'
  BY DEF OpenIsEarned, WindowIsCurrent
<1>4. TripWasSeen'
  <2>1. /\ wasOpen'[t] <=> state = "open"
        /\ tripsAt'[t] = trips /\ trips' = trips /\ trips \in Nat /\ state' = state
        /\ \A u \in Threads \ {t} : /\ wasOpen'[u] <=> wasOpen[u]
                                    /\ tripsAt'[u] = tripsAt[u] /\ pc'[u] = pc[u]
    BY DEF TypeOK
  <2>2. ASSUME NEW u \in Threads, pc'[u] \in {"failed", "counted"}
        PROVE  /\ tripsAt'[u] <= trips'
               /\ ~wasOpen'[u] /\ state' = "open" => tripsAt'[u] < trips'
    <3>1. CASE u = t
      BY <2>1, <3>1
    <3>2. CASE u # t
      BY <2>1, <2>2, <3>2 DEF TripWasSeen
    <3> QED BY <3>1, <3>2
  <2> QED BY <2>2 DEF TripWasSeen
<1> QED BY <1>1, <1>2, <1>3, <1>4

LEMMA CountFailureKeeps ==
  ASSUME IInv, NEW t \in Threads, CountFailure(t)
  PROVE  IInv'
<1> USE DEF IInv, CountFailure, Failure, Goto
<1>1. TypeOK'
  <2>1. state' \in {"closed", "open", "half_open"} /\ openedAt' \in Nat /\ trips' \in Nat
    <3>1. CASE state = "half_open" \/ failures + 1 >= Threshold
      BY <3>1 DEF TypeOK
    <3>2. CASE ~(state = "half_open" \/ failures + 1 >= Threshold)
      BY <3>2 DEF TypeOK
    <3> QED BY <3>1, <3>2
  <2>2. /\ failures' = failures + 1 /\ probe' = FALSE /\ lastBad' = now
        /\ UNCHANGED <<now, isProbe, wasOpen, lessons, calls, tripsAt>>
    OBVIOUS
  <2>3. pc' \in [Threads -> {"idle", "admitted", "calling", "refused", "failed", "counted"}]
    BY DEF TypeOK
  <2>4. TypeOK
    OBVIOUS
  <2>5. failures' \in Nat /\ now' \in Nat /\ lastBad' \in Nat
    BY ONLY <2>2, <2>4 DEF TypeOK
  <2> QED BY ONLY <2>1, <2>2, <2>3, <2>4, <2>5 DEF TypeOK
<1>2. HalfOpenHasItsProbe'
  BY DEF HalfOpenHasItsProbe, TypeOK
<1>3. OpenIsEarned' /\ WindowIsCurrent'
  BY LimitsTyped DEF OpenIsEarned, WindowIsCurrent, TypeOK
<1>4. TripWasSeen'
  BY DEF TripWasSeen, TypeOK
<1> QED BY <1>1, <1>2, <1>3, <1>4

LEMMA NextIInv ==
  ASSUME IInv, [Next]_vars
  PROVE  IInv'
<1>1. ASSUME NEW t \in Threads, Admit(t) PROVE IInv'
  BY <1>1, AdmitKeeps
<1>2. ASSUME NEW t \in Threads, Unavailable(t) \/ HandBack(t) PROVE IInv'
  BY <1>2, ReturnsProbeKeeps DEF Unavailable, HandBack
<1>3. ASSUME NEW t \in Threads, Call(t) PROVE IInv'
  <2>1. lessons' \in [Threads -> Nat]
    BY <1>3 DEF Call, IInv, TypeOK
  <2> QED BY <1>3, <2>1, AloneKeeps DEF Call, Goto
<1>4. ASSUME NEW t \in Threads, Answer(t) PROVE IInv'
  <2>1. CASE Refuse(t)
    <3>1. lessons' \in [Threads -> Nat]
      BY <2>1 DEF Refuse, IInv, TypeOK
    <3>2. CASE state = "half_open"
      BY <2>1, <3>1, <3>2, AloneKeeps DEF Refuse, Goto
    <3>3. CASE state # "half_open"
      BY <2>1, <3>1, <3>3, AloneKeeps DEF Refuse, Goto
    <3> QED BY <3>2, <3>3
  <2> QED BY <1>4, <2>1, SucceedKeeps, FailKeeps DEF Answer
<1>5. ASSUME NEW t \in Threads, CountFailure(t) PROVE IInv'
  BY <1>5, CountFailureKeeps
<1>6. ASSUME NEW t \in Threads, Learn(t) PROVE IInv'
  <2>1. lessons' \in [Threads -> Nat]
    BY <1>6 DEF Learn, IInv, TypeOK
  <2> QED BY <1>6, <2>1, AloneKeeps DEF Learn, Goto, Unrecorded
<1>7. CASE Tick
  BY <1>7 DEF Tick, IInv, TypeOK, HalfOpenHasItsProbe, OpenIsEarned, WindowIsCurrent,
              TripWasSeen, Unrecorded, circuit, thread, history
<1>8. CASE UNCHANGED vars
  BY <1>8 DEF vars, IInv, TypeOK, HalfOpenHasItsProbe, OpenIsEarned, WindowIsCurrent,
              TripWasSeen, Unrecorded, circuit, thread, history
<1> QED BY <1>1, <1>2, <1>3, <1>4, <1>5, <1>6, <1>7, <1>8 DEF Next

-----------------------------------------------------------------------------
(* The theorems. *)

\* The inductive invariant holds of every state of the breaker and its callers.
THEOREM CircuitInvariance == Spec => []IInv
<1>1. Init => IInv
  BY InitIInv
<1>2. IInv /\ [Next]_vars => IInv'
  BY NextIInv
<1> QED BY <1>1, <1>2, PTL DEF Spec

\* A half-open circuit always has its probe out with a call that will return it.
THEOREM NeverWithoutAProbe == Spec => []HalfOpenHasItsProbe
<1>1. IInv => HalfOpenHasItsProbe
  BY DEF IInv
<1> QED BY <1>1, CircuitInvariance, PTL

\* An open circuit saw its failures, and a closed one has no probe slot taken.
THEOREM Earned == Spec => []OpenIsEarned
<1>1. IInv => OpenIsEarned
  BY DEF IInv
<1> QED BY <1>1, CircuitInvariance, PTL

\* Probes are a recovery window away from the last failure, however late it came.
THEOREM Spaced == Spec => ProbesAreSpaced
<1>1. ASSUME IInv, [Next]_vars
      PROVE  \A t \in Threads :
               pc[t] = "idle" /\ pc'[t] = "admitted" /\ state # "closed"
                 => now >= lastBad + Recovery
  <2>1. ASSUME NEW t \in Threads, pc[t] = "idle", pc'[t] = "admitted", state # "closed"
        PROVE  now >= lastBad + Recovery
    <3>1. ASSUME NEW u \in Threads, Admit(u)
          PROVE  now >= lastBad + Recovery
      BY <1>1, <2>1, <3>1
      DEF Admit, ProbeDue, IInv, WindowIsCurrent, HalfOpenHasItsProbe, OpenIsEarned
    <3>2. CASE \E u \in Threads : Admit(u)
      BY <3>1, <3>2
    <3>3. CASE ~\E u \in Threads : Admit(u)
      BY <1>1, <2>1, <3>3
      DEF Next, Unavailable, Call, Answer, Succeed, Refuse, Fail, HandBack, CountFailure, Learn,
          Tick, Goto, vars, thread, IInv, TypeOK
    <3> QED BY <3>2, <3>3
  <2> QED BY <2>1
<1>2. IInv /\ [Next]_vars
        => [\A t \in Threads :
              pc[t] = "idle" /\ pc'[t] = "admitted" /\ state # "closed"
                => now >= lastBad + Recovery]_vars
  BY <1>1
<1> QED BY <1>2, CircuitInvariance, PTL DEF Spec, ProbesAreSpaced

\* A lesson is of a trip that happened between the two looks of the failure that is counted.
THEOREM LessonsAreOfTheirTrip == Spec => LessonsAreNews
<1>1. ASSUME IInv, [Next]_vars, NEW t \in Threads, lessons'[t] # lessons[t]
      PROVE  tripsAt[t] < trips
  <2>1. lessons \in [Threads -> Nat]
    BY <1>1 DEF IInv, TypeOK
  <2>2. PICK u \in Threads : Learn(u)
    BY <1>1 DEF Next, Answer, Admit, Unavailable, Call, Succeed, Refuse, Fail, HandBack,
                CountFailure, Tick, vars
  <2>3. u = t /\ Tripped(t)
    BY <1>1, <2>1, <2>2 DEF Learn
  <2>4. pc[t] = "counted"
    BY <2>2, <2>3 DEF Learn
  <2> QED BY <1>1, <2>3, <2>4 DEF IInv, TripWasSeen, Tripped
<1>2. IInv /\ [Next]_vars =>
        [\A t \in Threads : lessons'[t] # lessons[t] => tripsAt[t] < trips]_vars
  BY <1>1
<1> QED BY <1>2, CircuitInvariance, PTL DEF Spec, LessonsAreNews
=============================================================================
