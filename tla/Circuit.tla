------------------------------ MODULE Circuit -------------------------------
(***************************************************************************)
(* One specialist's circuit breaker (src/pionir/reliability.py) as the     *)
(* threads of Executive.execute (src/pionir/runtime.py) use it.            *)
(*                                                                         *)
(* Each method of CircuitBreaker is one step, taken under its lock.  A     *)
(* call is several: before_call, then perhaps no lease, then the adapter's *)
(* answer, then what is recorded of it, which for a failure or a refusal   *)
(* begins with a look at the state (snapshot) that may be old when the     *)
(* recording happens.  Calls of many threads interleave in every way.      *)
(* Definitions introduced by "Mistake:" model no code (see Approvals).     *)
(***************************************************************************)
EXTENDS Naturals, FiniteSets

CONSTANTS
  Threads,   \* the worker threads that may call this specialist
  Threshold, \* failure_threshold
  Recovery,  \* recovery_seconds
  MaxTime,   \* bound: the clock stops here
  MaxCalls   \* bound: calls admitted

ASSUME LimitsTyped ==
  /\ Threshold \in Nat \ {0} /\ Recovery \in Nat
  /\ MaxTime \in Nat /\ MaxCalls \in Nat

VARIABLES
  now,
  state, failures, openedAt, probe, \* CircuitBreaker: _state .. _probe_in_flight
  pc,       \* where each thread's call stands
  isProbe,  \* whether before_call admitted it as the recovery probe
  wasOpen,  \* _count_failure's first look
  lessons,  \* history: how many trips each thread reported as a lesson
  trips,    \* history: how often the circuit opened
  tripsAt,  \* history: trips, at each thread's first look
  lastBad,  \* history: when the last failure was recorded or a probe handed back
  calls

circuit == <<state, failures, openedAt, probe>>
thread == <<pc, isProbe, wasOpen>>
history == <<trips, tripsAt, lastBad>>
vars == <<now, circuit, thread, lessons, history, calls>>

-----------------------------------------------------------------------------
(* The breaker's methods. *)

\* before_call: the two ways to be let through as a probe.
ProbeDue == \/ state = "open" /\ now >= openedAt + Recovery
            \/ state = "half_open" /\ ~probe

\* Mistake: a success closes the circuit and keeps the count.
SuccessKeepsCount ==
  /\ state' = "closed" /\ probe' = FALSE
  /\ UNCHANGED <<failures, openedAt, history>>

\* record_success.
Success ==
  /\ state' = "closed" /\ failures' = 0 /\ probe' = FALSE
  /\ UNCHANGED <<openedAt, history>>

\* Mistake: a probe handed back leaves the circuit half open.
UnattemptedStays ==
  /\ probe' = FALSE
  /\ lastBad' = IF state = "half_open" THEN now ELSE lastBad
  /\ UNCHANGED <<state, openedAt, failures, trips, tripsAt>>

\* Mistake: the probe is not handed back.
UnattemptedKeeps == UNCHANGED <<circuit, history>>

\* record_unattempted: a probe is handed back and the recovery window starts again.
Unattempted ==
  /\ probe' = FALSE
  /\ IF state = "half_open"
     THEN state' = "open" /\ openedAt' = now /\ lastBad' = now /\ trips' = trips + 1
     ELSE UNCHANGED <<state, openedAt, lastBad, trips>>
  /\ UNCHANGED <<failures, tripsAt>>

\* Mistake: a failure that arrives late does not restart the window.
FailureKeepsWindow ==
  /\ probe' = FALSE /\ failures' = failures + 1 /\ lastBad' = now
  /\ IF state # "open" /\ (state = "half_open" \/ failures + 1 >= Threshold)
     THEN /\ state' = "open" /\ openedAt' = now
          /\ trips' = trips + 1
     ELSE UNCHANGED <<state, openedAt, trips>>
  /\ UNCHANGED tripsAt

\* record_failure.
Failure ==
  /\ probe' = FALSE /\ failures' = failures + 1 /\ lastBad' = now
  /\ IF state = "half_open" \/ failures + 1 >= Threshold
     THEN /\ state' = "open" /\ openedAt' = now
          /\ trips' = IF state = "open" THEN trips ELSE trips + 1
     ELSE UNCHANGED <<state, openedAt, trips>>
  /\ UNCHANGED tripsAt

-----------------------------------------------------------------------------
(* Executive.execute, one thread at a time. *)

Init ==
  /\ now = 0
  /\ state = "closed" /\ failures = 0 /\ openedAt = 0 /\ probe = FALSE
  /\ pc = [t \in Threads |-> "idle"]
  /\ isProbe = [t \in Threads |-> FALSE]
  /\ wasOpen = [t \in Threads |-> FALSE]
  /\ lessons = [t \in Threads |-> 0] /\ trips = 0
  /\ tripsAt = [t \in Threads |-> 0]
  /\ lastBad = 0
  /\ calls = 0

Goto(t, where) == pc' = [pc EXCEPT ![t] = where]

\* before_call lets the call through; when it raises CircuitOpen nothing changes.
Admit(t) ==
  /\ pc[t] = "idle" /\ calls < MaxCalls
  /\ calls' = calls + 1
  /\ Goto(t, "admitted")
  /\ \/ /\ state = "closed"
        /\ isProbe' = [isProbe EXCEPT ![t] = FALSE]
        /\ UNCHANGED <<state, probe>>
     \/ /\ ProbeDue
        /\ isProbe' = [isProbe EXCEPT ![t] = TRUE]
        /\ state' = "half_open" /\ probe' = TRUE
  /\ UNCHANGED <<now, failures, openedAt, wasOpen, lessons, history>>

\* ResourceUnavailable: the body asked to defer, no lease was to be had, or the adapter
\* called its own job off (Daedalus's quiet build, when the voice is in use again).
Unavailable(t) ==
  /\ pc[t] \in {"admitted", "calling"}
  /\ Unattempted
  /\ Goto(t, "idle")
  /\ UNCHANGED <<now, isProbe, wasOpen, lessons, calls>>

\* The lease is held and the adapter is asked.
Call(t) ==
  /\ pc[t] = "admitted"
  /\ Goto(t, "calling")
  /\ UNCHANGED <<now, circuit, isProbe, wasOpen, lessons, history, calls>>

Succeed(t) ==
  /\ pc[t] = "calling"
  /\ Success
  /\ Goto(t, "idle")
  /\ UNCHANGED <<now, isProbe, wasOpen, lessons, calls>>

\* The doer refused: a look at the state decides whether a probe is handed back.
Refuse(t) ==
  /\ pc[t] = "calling"
  /\ Goto(t, IF state = "half_open" THEN "refused" ELSE "idle")
  /\ UNCHANGED <<now, circuit, isProbe, wasOpen, lessons, history, calls>>

HandBack(t) ==
  /\ pc[t] = "refused"
  /\ Unattempted
  /\ Goto(t, "idle")
  /\ UNCHANGED <<now, isProbe, wasOpen, lessons, calls>>

\* The adapter raised or reported a failure, or preparing the lease raised:
\* _count_failure looks, records and looks again.
Fail(t) ==
  /\ pc[t] \in {"admitted", "calling"}
  /\ wasOpen' = [wasOpen EXCEPT ![t] = (state = "open")]
  /\ tripsAt' = [tripsAt EXCEPT ![t] = trips]
  /\ Goto(t, "failed")
  /\ UNCHANGED <<now, circuit, isProbe, lessons, trips, lastBad, calls>>

CountFailure(t) ==
  /\ pc[t] = "failed"
  /\ Failure
  /\ Goto(t, "counted")
  /\ UNCHANGED <<now, isProbe, wasOpen, lessons, calls>>

\* Mistake: every failure that finds the circuit open is reported.
TrippedAlways(t) == state = "open"

Tripped(t) == ~wasOpen[t] /\ state = "open"

Learn(t) ==
  /\ pc[t] = "counted"
  /\ lessons' = IF Tripped(t) THEN [lessons EXCEPT ![t] = @ + 1] ELSE lessons
  /\ Goto(t, "idle")
  /\ UNCHANGED <<now, circuit, isProbe, wasOpen, history, calls>>

Tick ==
  /\ now < MaxTime
  /\ now' = now + 1
  /\ UNCHANGED <<circuit, thread, lessons, history, calls>>

Answer(t) == Succeed(t) \/ Refuse(t) \/ Fail(t)

Next ==
  \/ \E t \in Threads :
       \/ Admit(t) \/ Unavailable(t) \/ Call(t) \/ Answer(t)
       \/ HandBack(t) \/ CountFailure(t) \/ Learn(t)
  \/ Tick

Spec == Init /\ [][Next]_vars

\* A call that was let through ends: leases are waited for and adapters are asked
\* with time-outs, and what follows is local.  Nobody is promised a call.
Fairness ==
  \A t \in Threads :
    /\ WF_vars(Unavailable(t) \/ Call(t) \/ Fail(t))
    /\ WF_vars(Answer(t))
    /\ WF_vars(HandBack(t)) /\ WF_vars(CountFailure(t)) /\ WF_vars(Learn(t))

FairSpec == Spec /\ Fairness

-----------------------------------------------------------------------------
(* What must hold. *)

TypeOK ==
  /\ now \in Nat
  /\ state \in {"closed", "open", "half_open"}
  /\ failures \in Nat /\ openedAt \in Nat /\ probe \in BOOLEAN
  /\ pc \in [Threads -> {"idle", "admitted", "calling", "refused", "failed", "counted"}]
  /\ isProbe \in [Threads -> BOOLEAN]
  /\ wasOpen \in [Threads -> BOOLEAN]
  /\ lessons \in [Threads -> Nat] /\ trips \in Nat
  /\ tripsAt \in [Threads -> Nat]
  /\ lastBad \in Nat /\ calls \in Nat

\* The calls that will still record something that returns a probe.
Unrecorded(t) == pc[t] \in {"admitted", "calling", "refused", "failed"}

\* A half-open circuit always has its probe out, in the hands of a call that has yet
\* to return it: late answers of older calls, refusals and missing leases never leave
\* it half open with nobody to close it (record_unattempted's docstring).
HalfOpenHasItsProbe ==
  state = "half_open" => probe /\ \E t \in Threads : isProbe[t] /\ Unrecorded(t)

\* A closed circuit has no probe slot taken, and an open one was earned: it saw enough
\* failures since the last success, whatever refusals and missing leases came between.
OpenIsEarned ==
  /\ state # "half_open" => ~probe
  /\ state # "closed" => failures >= Threshold
  /\ state = "closed" => failures < Threshold

\* A probe goes out no sooner than a whole recovery window after the last failure or
\* handed-back probe, however late that one arrived ("retried on a backoff instead of
\* in a hot loop").
ProbesAreSpaced ==
  [][\A t \in Threads :
       pc[t] = "idle" /\ pc'[t] = "admitted" /\ state # "closed"
         => now >= lastBad + Recovery]_vars

\* A lesson is of a trip that happened while that very failure was counted, whoever's
\* failure brought it about: the late failures of an open circuit teach nothing, and a
\* thread, whose failures come one after another, reports no trip twice (_count_failure).
LessonsAreNews ==
  [][\A t \in Threads : lessons'[t] # lessons[t] => tripsAt[t] < trips]_vars

\* The circuit does not stay half open: the probe's answer settles it.
ProbesSettle == state = "half_open" ~> state # "half_open"

\* What the docstring of CircuitBreaker says: "allow one timed recovery probe".
OneProbe ==
  Cardinality({t \in Threads : isProbe[t] /\ pc[t] \in {"admitted", "calling"}}) <= 1
=============================================================================
