------------------------------ MODULE GpuLease ------------------------------
(***************************************************************************)
(* The graphics card: ModelLeaseScheduler.acquire and ModelLease.release   *)
(* (src/pionir/scheduler.py) over the lock all processes share             *)
(* (shared_gpu.py), and the Ollama gate (ollama_gate.py), whose arbiter is *)
(* one more tenant that keeps its lease over a burst of its callers' calls.*)
(*                                                                         *)
(* A tenant is one thread's use of a scheduler.  Its steps are apart where *)
(* the daemon, the driver or another process may act between them.  The    *)
(* voice never takes the lock: she looks at it before each turn, says      *)
(* whether she yields, and may load her model.  She and the daemon are     *)
(* external.  Any call to the daemon may fail.  Definitions introduced by  *)
(* "Mistake:" model no code.                                               *)
(***************************************************************************)
EXTENDS Naturals, FiniteSets, FiniteSetsExt

CONSTANTS
  Tenants,    \* threads that ask for a lease: the gate's often, another's once
  Gate,       \* the tenant that is the Ollama gate's arbiter
  Exclusive,  \* the tenants whose model needs the whole card (exclusive_card)
  Asking,     \* the tenants that come with a settle question
  Scheduler,  \* [Tenants -> name]: the scheduler object each one uses
  ModelOf,    \* [Tenants -> Models]
  Models,
  Voice,      \* the one protected model
  Size,       \* [Models -> Nat], in the unit of Room
  Room,       \* what the card holds beside the desktop
  Callers,    \* the gate's HTTP callers
  None

ASSUME TenantsTyped ==
  /\ IsFiniteSet(Tenants) /\ Gate \in Tenants /\ None \notin Tenants \cup Callers
  /\ Tenants \cap Callers = {}
  /\ Exclusive \subseteq Tenants /\ Asking \subseteq Tenants /\ Gate \in Asking
ASSUME ModelsTyped ==
  /\ IsFiniteSet(Models) /\ Voice \in Models
  /\ ModelOf \in [Tenants -> Models \ {Voice}]
  /\ Size \in [Models -> Nat] /\ Room \in Nat

VARIABLES
  holder,     \* the OS lock on the lease file: a tenant or None
  card,       \* the models the daemon lists as loaded
  active,     \* _active of every scheduler: the tenants whose lease is recorded
  pc,         \* where each tenant stands
  todo,       \* _make_room: the loaded models not looked at yet
  handback,   \* _Handback: unload the job's model, re-warm the voice's
  rewarming,  \* background threads about to re-warm the voice's model
  voice,      \* what she last saw, and whether a turn of hers is in flight
  serial,     \* OllamaGate._serial: the caller served, Gate while reaping, or None
  call,       \* where each caller's call stands
  lingered,   \* GpuArbiter: linger_seconds have passed since _last_used
  asks,       \* bound: the tenants beside the gate that have asked for a lease
  displaced,  \* history: a lease put the voice's model out and it is not back
  crossed,    \* history: her model was last loaded in the middle of a lease
  missed,     \* history: a failed plan or re-warming, and her model not loaded since
  late        \* history: tenants that found her idle before a turn of hers began

gate == <<serial, call, lingered>>
history == <<displaced, crossed, missed, late>>
vars == <<holder, card, active, pc, todo, handback, rewarming, voice, gate,
          asks, history>>

Nothing == [unload |-> FALSE, rewarm |-> FALSE]

Init ==
  /\ holder = None /\ card \in {{}, {Voice}} /\ active = {}
  /\ pc = [t \in Tenants |-> "idle"]
  /\ todo = [t \in Tenants |-> {}]
  /\ handback = [t \in Tenants |-> Nothing]
  /\ rewarming = 0
  /\ voice = [cleared |-> FALSE, yields |-> FALSE, inFlight |-> FALSE]
  /\ serial = None /\ call = [c \in Callers |-> "queued"] /\ lingered = FALSE
  /\ asks = {}
  /\ displaced = FALSE /\ crossed = FALSE /\ missed = FALSE /\ late = {}

-----------------------------------------------------------------------------
(* What a step of one tenant is made of. *)

Goto(t, where) == pc' = [pc EXCEPT ![t] = where]

\* The models there is room for at the same time.
Roomy == {S \in SUBSET Models : MapThenSumSet(LAMBDA m : Size[m], S) <= Room}

\* Nothing of what is loaded need go: the model is resident, or fits beside it.
Fits(t) == ModelOf[t] \in card \/ card \cup {ModelOf[t]} \in Roomy

\* The models the daemon will not unload by itself: one is answering.
Busy == {ModelOf[t] : t \in {u \in Tenants : pc[u] = "working"}}
          \cup (IF voice.inFlight THEN {Voice} ELSE {})

\* The daemon loads m, letting idle models go; the outcomes it may choose.  With
\* no room beside the busy ones m spills to the CPU, and the card stays as it is.
Loads(m) ==
  LET fitting == {S \in SUBSET card :
                    Busy \cap card \subseteq S \cup {m} /\ S \cup {m} \in Roomy}
  IN IF card \cup {m} \in Roomy THEN {card \cup {m}}
     ELSE IF fitting = {} THEN {card}
     ELSE {S \cup {m} : S \in fitting}

\* A lease's doing made the card now; the voice loads her model, making it now.
Displaces(now) == /\ displaced' = (Voice \notin now /\ (displaced \/ Voice \in card))
                  /\ UNCHANGED <<crossed, missed>>
VoiceLoads(now) == /\ card' = now /\ displaced' = (displaced /\ Voice \notin now)
                   /\ crossed' = (holder # None)
                   /\ missed' = (missed /\ Voice \notin now)

Rewarms(t) == rewarming' = rewarming + (IF handback[t].rewarm THEN 1 ELSE 0)

-----------------------------------------------------------------------------
(* acquire *)

\* A task arrives; the gate's own asks come with its calls (Serve).
Ask(t) ==
  /\ t # Gate /\ pc[t] = "idle" /\ t \notin asks
  /\ Size[ModelOf[t]] <= Room
  /\ asks' = asks \cup {t} /\ Goto(t, "asking")
  /\ UNCHANGED <<holder, card, active, todo, handback, rewarming, voice, gate,
                 history>>

Take(t) ==
  /\ pc[t] = "asking" /\ holder = None
  /\ holder' = t /\ Goto(t, "locked")
  /\ UNCHANGED <<card, active, todo, handback, rewarming, voice, gate, asks,
                 history>>

\* _wait_for_lock: the wait ran out.
GiveUp(t) ==
  /\ pc[t] = "asking" /\ holder # None
  /\ Goto(t, "idle")
  /\ UNCHANGED <<holder, card, active, todo, handback, rewarming, voice, gate,
                 asks, history>>

\* Mistake: a refused lease re-warms nothing.
RefusedCold(t) ==
  /\ Goto(t, "idle") /\ holder' = None
  /\ handback' = [handback EXCEPT ![t] = Nothing]
  /\ todo' = [todo EXCEPT ![t] = {}]
  /\ UNCHANGED <<card, active, rewarming, voice, gate, asks, history>>

\* The way out of a refusal: let the lock go, and put back what was put out.
Refused(t) ==
  /\ Goto(t, "idle") /\ holder' = None
  /\ Rewarms(t)
  /\ handback' = [handback EXCEPT ![t] = Nothing]
  /\ todo' = [todo EXCEPT ![t] = {}]
  /\ UNCHANGED <<card, active, voice, gate, asks, history>>

Idle == voice.yields /\ ~voice.inFlight     \* voice_probe answers True

\* The settle question, for who has one.
Settle(t) ==
  /\ pc[t] = "locked" /\ t \in Asking /\ Idle
  /\ Goto(t, "settled")
  /\ UNCHANGED <<holder, card, active, todo, handback, rewarming, voice, gate,
                 asks, history>>

\* The voice did not stand down in time.
NotSettled(t) == pc[t] = "locked" /\ t \in Asking /\ ~Idle /\ Refused(t)

\* _plan_handback: the snapshot of the card, or, when the daemon does not tell what
\* it has loaded, of an empty one.  Without a settle question, holding the lease is
\* taken for enough.
Plan(t) ==
  /\ pc[t] = IF t \in Asking THEN "settled" ELSE "locked"
  /\ \E seen \in {card, {}} :
       /\ handback' = [handback EXCEPT ![t] = [unload |-> ModelOf[t] \notin seen,
                                               rewarm |-> Voice \in seen]]
       /\ missed' = IF Voice \in card THEN Voice \notin seen ELSE missed
  /\ Goto(t, "planned")
  /\ UNCHANGED <<holder, card, active, todo, rewarming, voice, gate, asks, displaced,
                 crossed, late>>

\* It fits as the card is, or _make_room looks at what is loaded, if it can.
Measure(t) ==
  /\ pc[t] = "planned"
  /\ IF Fits(t) THEN Goto(t, "fits") /\ todo' = todo
     ELSE /\ Goto(t, "evicting")
          /\ \E loaded \in {card, {}} : todo' = [todo EXCEPT ![t] = loaded]
  /\ UNCHANGED <<holder, card, active, handback, rewarming, voice, gate, asks,
                 history>>

\* Mistake: the gate's scheduler is given the raw unload.
RawlyEvictable(t, m) == m # ModelOf[t] /\ (m = Voice => t \in Exclusive)

\* May t unload m without asking anybody?
Evictable(t, m) ==
  /\ m # ModelOf[t]
  /\ m = Voice => t \in Exclusive \ {Gate}

\* One loaded model: unloaded; or spared; or kept, because the unload fails, or the
\* gate finds the voice busy or cannot tell.
Evict(t) ==
  /\ pc[t] = "evicting" /\ ~Fits(t)
  /\ \E m \in todo[t] :
       /\ todo' = [todo EXCEPT ![t] = @ \ {m}]
       /\ \/ Evictable(t, m) /\ card' = card \ {m}
          \/ card' = card
       /\ Displaces(card')
  /\ UNCHANGED <<holder, active, pc, handback, rewarming, voice, gate, asks, late>>

\* The gate's evictor asks the voice once more before it puts her model out.
GuardedEvictor(t) ==
  /\ t = Gate /\ t \in Exclusive /\ Idle
  /\ pc[t] = "evicting" /\ ~Fits(t) /\ Voice \in todo[t]
  /\ Goto(t, "asked")
  /\ UNCHANGED <<holder, card, active, todo, handback, rewarming, voice, gate, asks,
                 history>>

\* ... and unloads it after that, whatever she has begun since.
PutOut(t) ==
  /\ pc[t] = "asked" /\ Goto(t, "evicting")
  /\ todo' = [todo EXCEPT ![t] = @ \ {Voice}] /\ late' = late \ {t}
  /\ card' \in {card \ {Voice}, card} /\ Displaces(card')
  /\ UNCHANGED <<holder, active, handback, rewarming, voice, gate, asks>>

\* The loop ended: there is room, or nothing more to try.
MadeRoom(t) ==
  /\ pc[t] = "evicting" /\ Fits(t)
  /\ Goto(t, "fits") /\ todo' = [todo EXCEPT ![t] = {}]
  /\ UNCHANGED <<holder, card, active, handback, rewarming, voice, gate, asks,
                 history>>

NoRoom(t) == pc[t] = "evicting" /\ ~Fits(t) /\ todo[t] = {} /\ Refused(t)

SameScheduler(t) == {u \in active : Scheduler[u] = Scheduler[t]}

Admit(t) ==
  /\ pc[t] = "fits" /\ SameScheduler(t) = {}
  /\ active' = active \cup {t} /\ Goto(t, "leased")
  /\ UNCHANGED <<holder, card, todo, handback, rewarming, voice, gate, asks,
                 history>>

\* "all GPU model leases are in use": the last one let the lock go and is still
\* recorded.
AllInUse(t) == pc[t] = "fits" /\ SameScheduler(t) # {} /\ Refused(t)

-----------------------------------------------------------------------------
(* The job, and release. *)

\* The first model call under the lease.
Work(t) ==
  /\ pc[t] = "leased" /\ (t = Gate => \E c \in Callers : call[c] = "gpu")
  /\ \E now \in Loads(ModelOf[t]) : card' = now /\ Displaces(now)
  /\ Goto(t, "working")
  /\ UNCHANGED <<holder, active, todo, handback, rewarming, voice, gate, asks, late>>

\* Handback, first: the job's own model goes while the lock is still held, or stays
\* because the unload fails (_unload_quietly).
Unload(t) ==
  /\ \/ handback[t].unload /\ card' = card \ {ModelOf[t]}
     \/ card' = card
  /\ Goto(t, "unloaded")
  /\ UNCHANGED <<holder, active, todo, handback, rewarming, voice, asks, history>>

Finish(t) ==
  /\ t # Gate /\ pc[t] \in {"leased", "working"}
  /\ Unload(t) /\ UNCHANGED gate

Unlock(t) ==
  /\ pc[t] = "unloaded" /\ holder' = None /\ Goto(t, "unlocked")
  /\ UNCHANGED <<card, active, todo, handback, rewarming, voice, gate, asks,
                 history>>

\* Mistake: the reaper keeps its turn.
ForgetButStay(t) ==
  /\ pc[t] = "unlocked"
  /\ active' = active \ {t} /\ Goto(t, "idle")
  /\ Rewarms(t)
  /\ handback' = [handback EXCEPT ![t] = Nothing]
  /\ UNCHANGED <<holder, card, todo, voice, gate, asks, history>>

\* Only then is the lease forgotten and the re-warming started.
Forget(t) ==
  /\ pc[t] = "unlocked"
  /\ active' = active \ {t} /\ Goto(t, "idle")
  /\ Rewarms(t)
  /\ handback' = [handback EXCEPT ![t] = Nothing]
  /\ serial' = IF t = Gate THEN None ELSE serial
  /\ UNCHANGED <<holder, card, todo, voice, call, lingered, asks, history>>

\* _rewarm_quietly: the background thread's load, whoever has the card by then.  It
\* is tried once, and a failure is only logged.
Rewarm ==
  /\ rewarming > 0 /\ rewarming' = rewarming - 1
  /\ \/ \E now \in Loads(Voice) : VoiceLoads(now)
     \/ missed' = TRUE /\ UNCHANGED <<card, displaced, crossed>>
  /\ UNCHANGED <<holder, active, pc, todo, handback, voice, gate, asks, late>>

-----------------------------------------------------------------------------
(* The voice (external).  A tick of hers looks at the lock; a turn it cleared *)
(* may still start after a later look made her yield.                        *)

Look ==
  /\ voice' = [voice EXCEPT !.yields = holder # None,
                            !.cleared = @ \/ (holder = None /\ ~voice.inFlight)]
  /\ UNCHANGED <<holder, card, active, pc, todo, handback, rewarming, gate, asks,
                 history>>

StartTurn ==
  /\ voice.cleared /\ ~voice.inFlight
  /\ voice' = [voice EXCEPT !.cleared = FALSE, !.inFlight = TRUE]
  /\ late' = late \cup {t \in Tenants : pc[t] = "asked"}
  /\ \E now \in Loads(Voice) : VoiceLoads(now)
  /\ UNCHANGED <<holder, active, pc, todo, handback, rewarming, gate, asks>>

EndTurn ==
  /\ voice.inFlight
  /\ voice' = [voice EXCEPT !.inFlight = FALSE]
  /\ UNCHANGED <<holder, card, active, pc, todo, handback, rewarming, gate, asks,
                 history>>

-----------------------------------------------------------------------------
(* The Ollama gate. *)

HasLease == pc[Gate] \in {"leased", "working"}

\* A call waits its turn; a caller that hangs up or runs out of time leaves, and one
\* that leaves at once is one that never came.
Leave(c) ==
  /\ call[c] = "queued"
  /\ call' = [call EXCEPT ![c] = "over"]
  /\ UNCHANGED <<holder, card, active, pc, todo, handback, rewarming, voice, serial,
                 lingered, asks, history>>

\* The turn, and place: the burst's lease is reused, or a new one is asked for.
Serve(c) ==
  /\ call[c] = "queued" /\ serial = None /\ serial' = c
  /\ IF HasLease
       THEN call' = [call EXCEPT ![c] = "gpu"] /\ lingered' = FALSE /\ pc' = pc
       ELSE call' = [call EXCEPT ![c] = "asking"] /\ lingered' = lingered
            /\ Goto(Gate, "asking")
  /\ UNCHANGED <<holder, card, active, todo, handback, rewarming, voice, asks, history>>

\* acquire came back: with a lease, or refused, which puts the call on the CPU.
Placed(c) ==
  /\ call[c] = "asking" /\ (HasLease \/ pc[Gate] = "idle")
  /\ call' = [call EXCEPT ![c] = IF HasLease THEN "gpu" ELSE "cpu"]
  /\ lingered' = FALSE
  /\ UNCHANGED <<holder, card, active, pc, todo, handback, rewarming, voice, serial,
                 asks, history>>

\* The answer is through, or the call was abandoned: done, and the next one's turn.
Answer(c) ==
  /\ call[c] \in {"gpu", "cpu"}
  /\ call' = [call EXCEPT ![c] = "over"] /\ serial' = None /\ lingered' = FALSE
  /\ UNCHANGED <<holder, card, active, pc, todo, handback, rewarming, voice, asks,
                 history>>

Linger ==
  /\ HasLease /\ ~lingered /\ lingered' = TRUE
  /\ UNCHANGED <<holder, card, active, pc, todo, handback, rewarming, voice, serial,
                 call, asks, history>>

\* Mistake: the reaper does not wait for the call that is being served.
ReapInTheMiddle ==
  /\ lingered /\ HasLease
  /\ lingered' = FALSE /\ Unload(Gate) /\ UNCHANGED <<serial, call>>

\* _reap_loop: between two calls only, and only after the burst.
Reap ==
  /\ serial = None /\ lingered /\ HasLease
  /\ serial' = Gate /\ lingered' = FALSE
  /\ Unload(Gate) /\ UNCHANGED call

-----------------------------------------------------------------------------
Acquire(t) ==
  \/ Take(t) \/ GiveUp(t) \/ Settle(t) \/ NotSettled(t) \/ Plan(t) \/ Measure(t)
  \/ Evict(t) \/ GuardedEvictor(t) \/ PutOut(t) \/ MadeRoom(t) \/ NoRoom(t)
  \/ Admit(t) \/ AllInUse(t)

Lease(t) == Acquire(t) \/ Finish(t) \/ Unlock(t) \/ Forget(t)

Serving(c) == Serve(c) \/ Placed(c) \/ Answer(c)

Next ==
  \/ \E t \in Tenants : Ask(t) \/ Lease(t) \/ Work(t)
  \/ Rewarm
  \/ Look \/ StartTurn \/ EndTurn
  \/ \E c \in Callers : Leave(c) \/ Serving(c)
  \/ Linger \/ Reap

\* Threads go on, jobs and answers end, and seconds pass.  Nothing makes a task
\* come, and nothing makes the voice speak.
Fairness ==
  /\ \A t \in Tenants : WF_vars(Lease(t))
  /\ \A c \in Callers : WF_vars(Serving(c))
  /\ WF_vars(Rewarm) /\ WF_vars(EndTurn) /\ WF_vars(Linger \/ Reap)

Spec == Init /\ [][Next]_vars /\ Fairness

-----------------------------------------------------------------------------
(* Properties *)

Stages == {"idle", "asking", "locked", "settled", "planned", "evicting", "asked", "fits",
           "leased", "working", "unloaded", "unlocked"}

\* Every variable has its type.
TypeOK ==
  /\ holder \in Tenants \cup {None}
  /\ card \subseteq Models /\ active \subseteq Tenants
  /\ pc \in [Tenants -> Stages]
  /\ todo \in [Tenants -> SUBSET Models]
  /\ handback \in [Tenants -> [unload : BOOLEAN, rewarm : BOOLEAN]]
  /\ rewarming \in Nat
  /\ voice \in [cleared : BOOLEAN, yields : BOOLEAN, inFlight : BOOLEAN]
  /\ serial \in Callers \cup {Gate, None}
  /\ call \in [Callers -> {"queued", "asking", "gpu", "cpu", "over"}]
  /\ lingered \in BOOLEAN /\ asks \subseteq Tenants
  /\ displaced \in BOOLEAN /\ crossed \in BOOLEAN /\ missed \in BOOLEAN
  /\ late \subseteq Tenants

\* A call the gate forwards to the card has the lease under it from its placement
\* to its answer, however long it takes and however late the linger timer fires
\* (_reap_loop takes _serial; place, done).
PlacedCallsHoldTheCard ==
  \A c \in Callers : call[c] = "gpu" => HasLease /\ holder = Gate /\ serial = c

\* Whoever makes room does it under the lock, leaves its own model alone, and
\* puts the voice's model out only for a job that needs the whole card; the gate
\* puts it out in a turn of hers only if that turn began after the evictor had
\* asked her and found her idle (_make_room, guarded_evictor).
RoomIsMadeFairly ==
  [][\A t \in Tenants : todo'[t] # todo[t] /\ card' # card =>
       /\ holder = t /\ ModelOf[t] \notin card \ card'
       /\ Voice \in card \ card' =>
            /\ t \in Exclusive
            /\ t = Gate /\ voice.inFlight => t \in late]_vars

\* The voice's model comes back after a lease, granted or refused, has put it out
\* (_Handback, the except branch of acquire), with two exceptions.  She or a
\* re-warming loaded it in the middle of a lease: that lease's snapshot, or the
\* re-warming, came too early.  Or the one try there is failed: the daemon did not
\* tell the snapshot what was loaded, or the re-warming's load.
WarmAgain == displaced ~> (~displaced \/ crossed \/ missed)

\* A caller of the gate that waits its turn gets it, or leaves by itself: neither
\* the call before it, the lease that call waits for, nor the reaper keeps the
\* turn for good (OllamaGate._serial, _wait_for_lock, the finally of _reap_loop).
TurnsCome == <>(\A c \in Callers : call[c] = "over")

=============================================================================
