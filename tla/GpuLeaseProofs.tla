--------------------------- MODULE GpuLeaseProofs ---------------------------
(***************************************************************************)
(* Proofs about the leases of the graphics card, for any tenants, models,  *)
(* callers and size of the card.                                           *)
(***************************************************************************)
EXTENDS GpuLease, TLAPS

-----------------------------------------------------------------------------
(* The inductive invariant. *)

Wanting == {"locked", "settled", "planned", "evicting", "asked", "fits"}
Holding == Wanting \cup {"leased", "working", "unloaded"}

\* Who is between taking the lock and letting it go holds it, and nobody else does.
LockIsHeld == \A t \in Tenants : pc[t] \in Holding <=> holder = t

\* A caller past its turn's beginning has the turn.
TurnIsHeld ==
  \A c \in Callers : call[c] \in {"asking", "gpu", "cpu"} => serial = c

\* The gate asks for a lease for the caller whose turn it is, and gives one back in a
\* turn of its own.
GateHasTurn ==
  /\ pc[Gate] \in Wanting \cup {"asking"} =>
       \E c \in Callers : serial = c /\ call[c] = "asking"
  /\ pc[Gate] \in {"unloaded", "unlocked"} => serial = Gate

\* A call placed on the card has the lease.
PlacedHasLease == \A c \in Callers : call[c] = "gpu" => HasLease

IInv ==
  /\ TypeOK
  /\ LockIsHeld
  /\ TurnIsHeld
  /\ GateHasTurn
  /\ PlacedHasLease

LEMMA InitIInv == Init => IInv
<1> SUFFICES ASSUME Init PROVE IInv
  OBVIOUS
<1>1. TypeOK
  BY TenantsTyped, ModelsTyped DEF Init, TypeOK, gate, history, Nothing, Stages
<1>2. LockIsHeld
  BY TenantsTyped DEF Init, LockIsHeld, Holding, Wanting
<1>3. TurnIsHeld /\ GateHasTurn /\ PlacedHasLease
  BY TenantsTyped DEF Init, TurnIsHeld, GateHasTurn, PlacedHasLease, Wanting, gate
<1> QED BY <1>1, <1>2, <1>3 DEF IInv

-----------------------------------------------------------------------------
(* The card. *)

\* Whatever the daemon lets go to load a model, the card holds models.
LEMMA LoadsModels ==
  ASSUME TypeOK, NEW m \in Models, NEW now \in Loads(m)
  PROVE  now \subseteq Models
<1>1. now \in {card \cup {m}, card} \/ \E S \in SUBSET card : now = S \cup {m}
  BY DEF Loads
<1> QED BY <1>1 DEF TypeOK

\* The number of re-warmings outstanding stays a number.
LEMMA RewarmsCounts ==
  ASSUME TypeOK, NEW t \in Tenants, Rewarms(t)
  PROVE  rewarming' \in Nat
<1>1. rewarming' \in {rewarming, rewarming + 1}
  <2>1. CASE handback[t].rewarm
    BY <2>1 DEF Rewarms
  <2>2. CASE ~ handback[t].rewarm
    BY <2>2 DEF Rewarms, TypeOK
  <2> QED BY <2>1, <2>2
<1> QED BY <1>1 DEF TypeOK

-----------------------------------------------------------------------------
(* Every step keeps it. *)

\* A step of one tenant that goes from one stage to another of the same standing: it
\* keeps the lock, or stays without it, and its turn with it.
LEMMA GoesOn ==
  ASSUME IInv, NEW t \in Tenants, NEW where \in Stages, pc' = [pc EXCEPT ![t] = where],
         \/ pc[t] \in Wanting /\ (where \in Wanting \/ where = "leased")
         \/ pc[t] = "leased" /\ where = "working",
         UNCHANGED <<holder, serial, call>>, TypeOK'
  PROVE  IInv'
<1> USE DEF IInv
<1>1. LockIsHeld'
  BY DEF LockIsHeld, TypeOK, Holding, Wanting
<1>2. TurnIsHeld'
  BY DEF TurnIsHeld
<1>3. GateHasTurn'
  BY DEF GateHasTurn, TypeOK, Wanting
<1>4. PlacedHasLease'
  BY TenantsTyped DEF PlacedHasLease, HasLease, TypeOK, Wanting
<1> QED BY <1>1, <1>2, <1>3, <1>4

\* A lease that is refused: the lock is let go.
LEMMA RefusedKeeps ==
  ASSUME IInv, NEW t \in Tenants, pc[t] \in Wanting, Refused(t)
  PROVE  IInv'
<1> USE DEF IInv
<1>0. /\ pc' = [pc EXCEPT ![t] = "idle"] /\ holder' = None
      /\ handback' = [handback EXCEPT ![t] = Nothing] /\ todo' = [todo EXCEPT ![t] = {}]
      /\ UNCHANGED <<card, active, voice, serial, call, lingered, asks, displaced, crossed,
                     missed, late>>
  BY DEF Refused, Goto, gate, history
<1>1. TypeOK'
  BY <1>0, RewarmsCounts DEF Refused, TypeOK, Nothing, Stages
<1>2. LockIsHeld'
  BY <1>0, TenantsTyped DEF LockIsHeld, TypeOK, Holding, Wanting
<1>3. TurnIsHeld'
  BY <1>0 DEF TurnIsHeld
<1>4. GateHasTurn'
  BY <1>0 DEF GateHasTurn, TypeOK, Wanting
<1>5. PlacedHasLease'
  BY <1>0, TenantsTyped DEF PlacedHasLease, HasLease, TypeOK, Wanting
<1> QED BY <1>1, <1>2, <1>3, <1>4, <1>5

\* Nothing of the lock, the turns or the stages moves.
LEMMA StillKeeps ==
  ASSUME IInv, UNCHANGED <<holder, pc, serial, call>>, TypeOK'
  PROVE  IInv'
<1> QED BY DEF IInv, LockIsHeld, TurnIsHeld, GateHasTurn, PlacedHasLease, HasLease

LEMMA AskKeeps ==
  ASSUME IInv, NEW t \in Tenants, Ask(t)
  PROVE  IInv'
<1> USE DEF IInv
<1>0. /\ t # Gate /\ pc[t] = "idle" /\ pc' = [pc EXCEPT ![t] = "asking"] /\ asks' = asks \cup {t}
      /\ UNCHANGED <<holder, card, active, todo, handback, rewarming, voice, serial,
                     call, lingered, displaced, crossed, missed, late>>
  BY DEF Ask, Goto, gate, history
<1>1. TypeOK'
  BY <1>0 DEF TypeOK, Stages
<1>2. LockIsHeld'
  BY <1>0 DEF LockIsHeld, TypeOK, Holding, Wanting
<1>3. TurnIsHeld' /\ GateHasTurn' /\ PlacedHasLease'
  BY <1>0 DEF TurnIsHeld, GateHasTurn, PlacedHasLease, HasLease, TypeOK, Wanting
<1> QED BY <1>1, <1>2, <1>3

LEMMA TakeKeeps ==
  ASSUME IInv, NEW t \in Tenants, Take(t)
  PROVE  IInv'
<1> USE DEF IInv
<1>0. /\ pc[t] = "asking" /\ pc' = [pc EXCEPT ![t] = "locked"]
      /\ holder = None /\ holder' = t
      /\ UNCHANGED <<card, active, todo, handback, rewarming, voice, serial,
                     call, lingered, asks, displaced, crossed, missed, late>>
  BY DEF Take, Goto, gate, history
<1>1. TypeOK'
  BY <1>0 DEF TypeOK, Stages
<1>2. LockIsHeld'
  BY <1>0, TenantsTyped DEF LockIsHeld, TypeOK, Holding, Wanting
<1>3. TurnIsHeld' /\ GateHasTurn' /\ PlacedHasLease'
  BY <1>0, TenantsTyped DEF TurnIsHeld, GateHasTurn, PlacedHasLease, HasLease, TypeOK, Wanting
<1> QED BY <1>1, <1>2, <1>3

LEMMA GiveUpKeeps ==
  ASSUME IInv, NEW t \in Tenants, GiveUp(t)
  PROVE  IInv'
<1> USE DEF IInv
<1>0. /\ pc[t] = "asking" /\ pc' = [pc EXCEPT ![t] = "idle"]
      /\ UNCHANGED <<holder, card, active, todo, handback, rewarming, voice, serial,
                     call, lingered, asks, displaced, crossed, missed, late>>
  BY DEF GiveUp, Goto, gate, history
<1>1. TypeOK'
  BY <1>0 DEF TypeOK, Stages
<1>2. LockIsHeld'
  BY <1>0 DEF LockIsHeld, TypeOK, Holding, Wanting
<1>3. TurnIsHeld' /\ GateHasTurn' /\ PlacedHasLease'
  BY <1>0, TenantsTyped DEF TurnIsHeld, GateHasTurn, PlacedHasLease, HasLease, TypeOK, Wanting
<1> QED BY <1>1, <1>2, <1>3

\* Settling, planning, measuring, having made room and being admitted.
LEMMA WantingKeeps ==
  ASSUME IInv, NEW t \in Tenants,
         Settle(t) \/ Plan(t) \/ Measure(t) \/ MadeRoom(t) \/ Admit(t)
  PROVE  IInv'
<1>1. CASE Settle(t)
  <2>1. TypeOK'
    BY <1>1 DEF IInv, TypeOK, Settle, Goto, Stages, gate, history
  <2>2. /\ pc[t] \in Wanting /\ pc' = [pc EXCEPT ![t] = "settled"]
        /\ UNCHANGED <<holder, serial, call>>
    BY <1>1 DEF Settle, Goto, Wanting, gate
  <2>3. ("settled" \in Wanting \/ "settled" = "leased") /\ "settled" \in Stages
    BY DEF Wanting, Stages
  <2> QED BY <2>1, <2>2, <2>3, GoesOn
<1>2. CASE Plan(t)
  <2>1. TypeOK'
    <3>1. PICK seen \in {card, {}} :
            /\ handback' = [handback EXCEPT ![t] = [unload |-> ModelOf[t] \notin seen,
                                                    rewarm |-> Voice \in seen]]
            /\ missed' = IF Voice \in card THEN Voice \notin seen ELSE missed
      BY <1>2 DEF Plan
    <3>2. handback' \in [Tenants -> [unload : BOOLEAN, rewarm : BOOLEAN]]
      BY <3>1 DEF IInv, TypeOK
    <3>3. missed' \in BOOLEAN
      BY <3>1 DEF IInv, TypeOK
    <3> QED BY <1>2, <3>2, <3>3 DEF IInv, TypeOK, Plan, Goto, Stages, gate
  <2>2. /\ pc[t] \in Wanting /\ pc' = [pc EXCEPT ![t] = "planned"]
        /\ UNCHANGED <<holder, serial, call>>
    BY <1>2 DEF Plan, Goto, Wanting, gate
  <2>3. ("planned" \in Wanting \/ "planned" = "leased") /\ "planned" \in Stages
    BY DEF Wanting, Stages
  <2> QED BY <2>1, <2>2, <2>3, GoesOn
<1>3. CASE Measure(t)
  <2>1. TypeOK'
    <3>1. todo' \in [Tenants -> SUBSET Models]
      BY <1>3 DEF IInv, TypeOK, Measure
    <3> QED BY <1>3, <3>1 DEF IInv, TypeOK, Measure, Goto, Stages, gate, history
  <2>2. /\ pc[t] \in Wanting /\ UNCHANGED <<holder, serial, call>>
        /\ \E where \in {"fits", "evicting"} : pc' = [pc EXCEPT ![t] = where]
    BY <1>3 DEF Measure, Goto, Wanting, gate
  <2>3. PICK where \in {"fits", "evicting"} : pc' = [pc EXCEPT ![t] = where]
    BY <2>2
  <2>4. (where \in Wanting \/ where = "leased") /\ where \in Stages
    BY DEF Wanting, Stages
  <2> QED BY <2>1, <2>2, <2>3, <2>4, GoesOn
<1>4. CASE MadeRoom(t)
  <2>1. TypeOK'
    BY <1>4 DEF IInv, TypeOK, MadeRoom, Goto, Stages, gate, history
  <2>2. /\ pc[t] \in Wanting /\ pc' = [pc EXCEPT ![t] = "fits"]
        /\ UNCHANGED <<holder, serial, call>>
    BY <1>4 DEF MadeRoom, Goto, Wanting, gate
  <2>3. ("fits" \in Wanting \/ "fits" = "leased") /\ "fits" \in Stages
    BY DEF Wanting, Stages
  <2> QED BY <2>1, <2>2, <2>3, GoesOn
<1>5. CASE Admit(t)
  <2>1. TypeOK'
    BY <1>5 DEF IInv, TypeOK, Admit, Goto, Stages, gate, history
  <2>2. /\ pc[t] \in Wanting /\ pc' = [pc EXCEPT ![t] = "leased"]
        /\ UNCHANGED <<holder, serial, call>>
    BY <1>5 DEF Admit, Goto, Wanting, gate
  <2>3. ("leased" \in Wanting \/ "leased" = "leased") /\ "leased" \in Stages
    BY DEF Wanting, Stages
  <2> QED BY <2>1, <2>2, <2>3, GoesOn
<1> QED BY <1>1, <1>2, <1>3, <1>4, <1>5

LEMMA RefusalKeeps ==
  ASSUME IInv, NEW t \in Tenants, NotSettled(t) \/ NoRoom(t) \/ AllInUse(t)
  PROVE  IInv'
<1> QED BY RefusedKeeps DEF NotSettled, NoRoom, AllInUse, Wanting

LEMMA EvictKeeps ==
  ASSUME IInv, NEW t \in Tenants, Evict(t)
  PROVE  IInv'
<1>1. PICK m \in todo[t] :
        /\ todo' = [todo EXCEPT ![t] = @ \ {m}]
        /\ card' \in {card, card \ {m}}
  BY DEF Evict
<1>2. /\ UNCHANGED <<holder, active, pc, handback, rewarming, voice, serial, call, lingered,
                     asks, crossed, missed, late>>
      /\ displaced' \in BOOLEAN
  BY DEF Evict, Displaces, gate
<1>3. TypeOK'
  BY <1>1, <1>2 DEF IInv, TypeOK
<1> QED BY <1>2, <1>3, StillKeeps

LEMMA PutOutKeeps ==
  ASSUME IInv, NEW t \in Tenants, GuardedEvictor(t) \/ PutOut(t)
  PROVE  IInv'
<1>1. CASE GuardedEvictor(t)
  <2>1. TypeOK'
    BY <1>1 DEF IInv, TypeOK, GuardedEvictor, Goto, Stages, gate, history
  <2>2. /\ pc[t] \in Wanting /\ pc' = [pc EXCEPT ![t] = "asked"]
        /\ UNCHANGED <<holder, serial, call>>
    BY <1>1 DEF GuardedEvictor, Goto, Wanting, gate
  <2>3. ("asked" \in Wanting \/ "asked" = "leased") /\ "asked" \in Stages
    BY DEF Wanting, Stages
  <2> QED BY <2>1, <2>2, <2>3, GoesOn
<1>2. CASE PutOut(t)
  <2>1. /\ pc[t] \in Wanting /\ pc' = [pc EXCEPT ![t] = "evicting"]
        /\ todo' = [todo EXCEPT ![t] = @ \ {Voice}] /\ late' = late \ {t}
        /\ card' \in {card, card \ {Voice}} /\ displaced' \in BOOLEAN
        /\ UNCHANGED <<holder, active, handback, rewarming, voice, serial, call, lingered,
                       asks, crossed, missed>>
    BY <1>2 DEF PutOut, Goto, Displaces, Wanting, gate
  <2>2. TypeOK'
    BY <2>1 DEF IInv, TypeOK, Stages
  <2>3. ("evicting" \in Wanting \/ "evicting" = "leased") /\ "evicting" \in Stages
    BY DEF Wanting, Stages
  <2> QED BY <2>1, <2>2, <2>3, GoesOn
<1> QED BY <1>1, <1>2

LEMMA WorkKeeps ==
  ASSUME IInv, NEW t \in Tenants, Work(t)
  PROVE  IInv'
<1>1. /\ pc[t] = "leased" /\ pc' = [pc EXCEPT ![t] = "working"]
      /\ card' \in Loads(ModelOf[t]) /\ displaced' \in BOOLEAN
      /\ UNCHANGED <<holder, active, todo, handback, rewarming, voice, serial, call, lingered,
                     asks, crossed, missed, late>>
  BY DEF Work, Goto, Displaces, gate
<1>2. card' \subseteq Models
  BY <1>1, LoadsModels, ModelsTyped DEF IInv
<1>3. TypeOK'
  BY <1>1, <1>2 DEF IInv, TypeOK, Stages
<1>4. "working" \in Stages
  BY DEF Stages
<1> QED BY <1>1, <1>3, <1>4, GoesOn

\* A job's end, and the reaper's: the model goes, the lock stays.
LEMMA FinishKeeps ==
  ASSUME IInv, NEW t \in Tenants, Finish(t)
  PROVE  IInv'
<1> USE DEF IInv
<1>0. /\ t # Gate /\ pc[t] \in {"leased", "working"}
      /\ pc' = [pc EXCEPT ![t] = "unloaded"] /\ card' \in {card, card \ {ModelOf[t]}}
      /\ UNCHANGED <<holder, active, todo, handback, rewarming, voice, serial,
                     call, lingered, asks, displaced, crossed, missed, late>>
  BY DEF Finish, Unload, Goto, gate, history
<1>1. TypeOK'
  BY <1>0 DEF TypeOK, Stages
<1>2. LockIsHeld'
  BY <1>0 DEF LockIsHeld, TypeOK, Holding, Wanting
<1>3. TurnIsHeld' /\ GateHasTurn' /\ PlacedHasLease'
  BY <1>0, TenantsTyped DEF TurnIsHeld, GateHasTurn, PlacedHasLease, HasLease, TypeOK, Wanting
<1> QED BY <1>1, <1>2, <1>3

LEMMA ReapKeeps ==
  ASSUME IInv, Reap
  PROVE  IInv'
<1> USE DEF IInv
<1>0. /\ serial = None /\ serial' = Gate /\ pc[Gate] \in {"leased", "working"}
      /\ pc' = [pc EXCEPT ![Gate] = "unloaded"] /\ card' \in {card, card \ {ModelOf[Gate]}}
      /\ lingered' = FALSE
      /\ UNCHANGED <<holder, active, todo, handback, rewarming, voice,
                     call, asks, displaced, crossed, missed, late>>
  BY DEF Reap, HasLease, Unload, Goto, history
<1>1. TypeOK'
  BY <1>0, TenantsTyped DEF TypeOK, Stages
<1>2. LockIsHeld'
  BY <1>0, TenantsTyped DEF LockIsHeld, TypeOK, Holding, Wanting
<1>3. \A c \in Callers : call[c] \notin {"asking", "gpu", "cpu"}
  BY <1>0, TenantsTyped DEF TurnIsHeld
<1>4. TurnIsHeld' /\ PlacedHasLease'
  BY <1>0, <1>3 DEF TurnIsHeld, PlacedHasLease
<1>5. GateHasTurn'
  BY <1>0, TenantsTyped DEF GateHasTurn, TypeOK, Wanting
<1> QED BY <1>1, <1>2, <1>4, <1>5

LEMMA UnlockKeeps ==
  ASSUME IInv, NEW t \in Tenants, Unlock(t)
  PROVE  IInv'
<1> USE DEF IInv
<1>0. /\ pc[t] = "unloaded" /\ pc' = [pc EXCEPT ![t] = "unlocked"] /\ holder' = None
      /\ UNCHANGED <<card, active, todo, handback, rewarming, voice, serial,
                     call, lingered, asks, displaced, crossed, missed, late>>
  BY DEF Unlock, Goto, gate, history
<1>1. TypeOK'
  BY <1>0 DEF TypeOK, Stages
<1>2. LockIsHeld'
  BY <1>0, TenantsTyped DEF LockIsHeld, TypeOK, Holding, Wanting
<1>3. TurnIsHeld' /\ GateHasTurn' /\ PlacedHasLease'
  BY <1>0, TenantsTyped DEF TurnIsHeld, GateHasTurn, PlacedHasLease, HasLease, TypeOK, Wanting
<1> QED BY <1>1, <1>2, <1>3

LEMMA ForgetKeeps ==
  ASSUME IInv, NEW t \in Tenants, Forget(t)
  PROVE  IInv'
<1> USE DEF IInv
<1>0. /\ pc[t] = "unlocked" /\ pc' = [pc EXCEPT ![t] = "idle"] /\ active' = active \ {t}
      /\ handback' = [handback EXCEPT ![t] = Nothing]
      /\ UNCHANGED <<holder, card, todo, voice, call, lingered, asks, displaced, crossed,
                     missed, late>>
      /\ IF t = Gate THEN serial' = None ELSE serial' = serial
  BY DEF Forget, Goto, history
<1>1. TypeOK'
  BY <1>0, RewarmsCounts DEF Forget, TypeOK, Nothing, Stages
<1>2. LockIsHeld'
  BY <1>0 DEF LockIsHeld, TypeOK, Holding, Wanting
<1>3. CASE t = Gate
  <2>1. \A c \in Callers : call[c] \notin {"asking", "gpu", "cpu"}
    BY <1>0, <1>3, TenantsTyped DEF TurnIsHeld, GateHasTurn
  <2>2. TurnIsHeld' /\ PlacedHasLease'
    BY <1>0, <2>1 DEF TurnIsHeld, PlacedHasLease
  <2>3. GateHasTurn'
    BY <1>0, <1>3 DEF GateHasTurn, TypeOK, Wanting
  <2> QED BY <1>1, <1>2, <2>2, <2>3
<1>4. CASE t # Gate
  <2>1. TurnIsHeld' /\ GateHasTurn' /\ PlacedHasLease'
    BY <1>0, <1>4, TenantsTyped
    DEF TurnIsHeld, GateHasTurn, PlacedHasLease, HasLease, TypeOK, Wanting
  <2> QED BY <1>1, <1>2, <2>1
<1> QED BY <1>3, <1>4

\* The voice and the re-warming touch neither the lock nor the turns.
LEMMA VoiceKeeps ==
  ASSUME IInv, Rewarm \/ Look \/ StartTurn \/ EndTurn
  PROVE  IInv'
<1>1. CASE Rewarm
  <2>1. /\ rewarming > 0 /\ rewarming' = rewarming - 1
        /\ UNCHANGED <<holder, active, pc, todo, handback, voice, serial, call, lingered,
                       asks, late>>
    BY <1>1 DEF Rewarm, gate
  <2>2. /\ card' \subseteq Models
        /\ crossed' \in BOOLEAN /\ displaced' \in BOOLEAN /\ missed' \in BOOLEAN
    <3>1. CASE \E now \in Loads(Voice) : VoiceLoads(now)
      <4>1. card' \in Loads(Voice)
        BY <3>1 DEF VoiceLoads
      <4>2. crossed' \in BOOLEAN /\ displaced' \in BOOLEAN /\ missed' \in BOOLEAN
        BY <3>1 DEF VoiceLoads
      <4> QED BY <4>1, <4>2, LoadsModels, ModelsTyped DEF IInv
    <3>2. CASE missed' = TRUE /\ UNCHANGED <<card, displaced, crossed>>
      BY <3>2 DEF IInv, TypeOK
    <3> QED BY <1>1, <3>1, <3>2 DEF Rewarm
  <2>3. TypeOK'
    BY <2>1, <2>2 DEF IInv, TypeOK
  <2> QED BY <2>1, <2>3, StillKeeps
<1>2. CASE Look
  <2>1. TypeOK'
    BY <1>2 DEF IInv, TypeOK, Look, gate, history
  <2>2. UNCHANGED <<holder, pc, serial, call>>
    BY <1>2 DEF Look, gate
  <2> QED BY <2>1, <2>2, StillKeeps
<1>3. CASE StartTurn
  <2>1. /\ voice' = [voice EXCEPT !.cleared = FALSE, !.inFlight = TRUE]
        /\ late' = late \cup {t \in Tenants : pc[t] = "asked"} /\ card' \in Loads(Voice)
        /\ crossed' \in BOOLEAN /\ displaced' \in BOOLEAN /\ missed' \in BOOLEAN
        /\ UNCHANGED <<holder, active, pc, todo, handback, rewarming, serial, call, lingered,
                       asks>>
    BY <1>3 DEF StartTurn, VoiceLoads, gate
  <2>2. card' \subseteq Models
    BY <2>1, LoadsModels, ModelsTyped DEF IInv
  <2>3. TypeOK'
    BY <2>1, <2>2 DEF IInv, TypeOK
  <2> QED BY <2>1, <2>3, StillKeeps
<1>4. CASE EndTurn
  <2>1. TypeOK'
    BY <1>4 DEF IInv, TypeOK, EndTurn, gate, history
  <2>2. UNCHANGED <<holder, pc, serial, call>>
    BY <1>4 DEF EndTurn, gate
  <2> QED BY <2>1, <2>2, StillKeeps
<1> QED BY <1>1, <1>2, <1>3, <1>4

\* A caller leaves without its turn.
LEMMA LeaveKeeps ==
  ASSUME IInv, NEW c \in Callers, Leave(c)
  PROVE  IInv'
<1> USE DEF IInv
<1>1. /\ call[c] = "queued" /\ call' = [call EXCEPT ![c] = "over"]
      /\ UNCHANGED <<holder, card, active, pc, todo, handback, rewarming, voice, serial,
                     lingered, asks, displaced, crossed, missed, late>>
  BY DEF Leave, history
<1>2. TypeOK'
  BY <1>1 DEF TypeOK
<1>3. LockIsHeld' /\ TurnIsHeld' /\ GateHasTurn' /\ PlacedHasLease'
  BY <1>1 DEF LockIsHeld, TurnIsHeld, GateHasTurn, PlacedHasLease, HasLease, TypeOK
<1> QED BY <1>2, <1>3

LEMMA ServeKeeps ==
  ASSUME IInv, NEW c \in Callers, Serve(c)
  PROVE  IInv'
<1> USE DEF IInv
<1>0. /\ call[c] = "queued" /\ serial = None /\ serial' = c
      /\ UNCHANGED <<holder, card, active, todo, handback, rewarming, voice, asks,
                     displaced, crossed, missed, late>>
  BY DEF Serve, history
<1>3. \A d \in Callers : call[d] \notin {"asking", "gpu", "cpu"}
  BY <1>0, TenantsTyped DEF TurnIsHeld
<1>1. CASE HasLease
  <2>1. call' = [call EXCEPT ![c] = "gpu"] /\ lingered' = FALSE /\ pc' = pc
    BY <1>1 DEF Serve
  <2>2. TypeOK'
    BY <1>0, <2>1 DEF TypeOK
  <2>3. LockIsHeld' /\ TurnIsHeld'
    BY <1>0, <1>3, <2>1 DEF LockIsHeld, TurnIsHeld, TypeOK
  <2>4. GateHasTurn' /\ PlacedHasLease'
    BY <1>0, <1>1, <2>1 DEF GateHasTurn, PlacedHasLease, HasLease, TypeOK, Wanting
  <2> QED BY <2>2, <2>3, <2>4
<1>2. CASE ~ HasLease
  <2>1. /\ call' = [call EXCEPT ![c] = "asking"] /\ lingered' = lingered
        /\ pc' = [pc EXCEPT ![Gate] = "asking"]
    BY <1>2 DEF Serve, Goto
  <2>2. pc[Gate] = "idle"
    BY <1>0, <1>2, TenantsTyped DEF GateHasTurn, HasLease, TypeOK, Stages, Wanting
  <2>3. TypeOK'
    BY <1>0, <2>1 DEF TypeOK, Stages
  <2>4. LockIsHeld'
    BY <1>0, <2>1, <2>2 DEF LockIsHeld, TypeOK, Holding, Wanting
  <2>5. TurnIsHeld' /\ GateHasTurn'
    BY <1>0, <1>3, <2>1, TenantsTyped DEF TurnIsHeld, GateHasTurn, TypeOK
  <2>6. PlacedHasLease'
    BY <1>0, <1>3, <2>1 DEF PlacedHasLease, TypeOK
  <2> QED BY <2>3, <2>4, <2>5, <2>6
<1> QED BY <1>1, <1>2

LEMMA PlacedKeeps ==
  ASSUME IInv, NEW c \in Callers, Placed(c)
  PROVE  IInv'
<1> USE DEF IInv
<1>1. PICK to \in {"gpu", "cpu"} :
        /\ call[c] = "asking" /\ call' = [call EXCEPT ![c] = to]
        /\ to = "gpu" => HasLease
        /\ HasLease \/ pc[Gate] = "idle"
        /\ lingered' = FALSE
        /\ UNCHANGED <<holder, card, active, pc, todo, handback, rewarming, voice, serial,
                       asks, displaced, crossed, missed, late>>
  BY DEF Placed, history
<1>2. TypeOK'
  BY <1>1 DEF TypeOK
<1>3. LockIsHeld' /\ TurnIsHeld'
  BY <1>1 DEF LockIsHeld, TurnIsHeld, TypeOK
<1>4. GateHasTurn' /\ PlacedHasLease'
  BY <1>1 DEF GateHasTurn, PlacedHasLease, HasLease, TypeOK, Wanting
<1> QED BY <1>2, <1>3, <1>4

LEMMA AnswerKeeps ==
  ASSUME IInv, NEW c \in Callers, Answer(c)
  PROVE  IInv'
<1> USE DEF IInv
<1>0. /\ call[c] \in {"gpu", "cpu"} /\ serial = c
      /\ call' = [call EXCEPT ![c] = "over"] /\ serial' = None /\ lingered' = FALSE
      /\ UNCHANGED <<holder, card, active, pc, todo, handback, rewarming, voice, asks,
                     displaced, crossed, missed, late>>
  BY DEF Answer, TurnIsHeld, history
<1>1. TypeOK'
  BY <1>0 DEF TypeOK
<1>2. LockIsHeld' /\ PlacedHasLease'
  BY <1>0 DEF LockIsHeld, PlacedHasLease, HasLease, TypeOK
<1>3. TurnIsHeld'
  BY <1>0 DEF TurnIsHeld, TypeOK
<1>4. GateHasTurn'
  BY <1>0, TenantsTyped DEF GateHasTurn, TypeOK, Wanting
<1> QED BY <1>1, <1>2, <1>3, <1>4

LEMMA LingerKeeps ==
  ASSUME IInv, Linger
  PROVE  IInv'
<1>1. UNCHANGED <<holder, pc, serial, call>>
  BY DEF Linger
<1>2. TypeOK'
  BY DEF IInv, TypeOK, Linger, history
<1> QED BY <1>1, <1>2, StillKeeps

LEMMA NextKeeps == IInv /\ [Next]_vars => IInv'
<1> SUFFICES ASSUME IInv, [Next]_vars PROVE IInv'
  OBVIOUS
<1>1. ASSUME NEW t \in Tenants, Ask(t) \/ Lease(t) \/ Work(t) PROVE IInv'
  <2>1. CASE Ask(t) \/ Take(t) \/ GiveUp(t)
    BY <2>1, AskKeeps, TakeKeeps, GiveUpKeeps
  <2>2. CASE \/ Settle(t) \/ Plan(t) \/ Measure(t) \/ MadeRoom(t) \/ Admit(t)
             \/ NotSettled(t) \/ NoRoom(t) \/ AllInUse(t)
    BY <2>2, WantingKeeps, RefusalKeeps
  <2>3. CASE Evict(t) \/ GuardedEvictor(t) \/ PutOut(t) \/ Work(t)
    BY <2>3, EvictKeeps, PutOutKeeps, WorkKeeps
  <2>4. CASE Finish(t) \/ Unlock(t) \/ Forget(t)
    BY <2>4, FinishKeeps, UnlockKeeps, ForgetKeeps
  <2> QED BY <1>1, <2>1, <2>2, <2>3, <2>4 DEF Lease, Acquire
<1>2. CASE Rewarm \/ Look \/ StartTurn \/ EndTurn
  BY <1>2, VoiceKeeps
<1>3. ASSUME NEW c \in Callers, Leave(c) \/ Serving(c) PROVE IInv'
  BY <1>3, LeaveKeeps, ServeKeeps, PlacedKeeps, AnswerKeeps DEF Serving
<1>4. CASE Linger \/ Reap
  BY <1>4, LingerKeeps, ReapKeeps
<1>5. CASE UNCHANGED vars
  <2>1. UNCHANGED <<holder, pc, serial, call>>
    BY <1>5 DEF vars, gate
  <2>2. TypeOK'
    BY <1>5 DEF IInv, TypeOK, vars, gate, history
  <2> QED BY <2>1, <2>2, StillKeeps
<1> QED BY <1>1, <1>2, <1>3, <1>4, <1>5 DEF Next

-----------------------------------------------------------------------------
(* The theorems. *)

\* The invariant holds always.
THEOREM LeaseInvariance == Spec => []IInv
  BY InitIInv, NextKeeps, PTL DEF Spec

\* The card, the leases and the gate keep their types, whatever the card's size and
\* however the daemon chooses (_make_room, place).
THEOREM TypeCorrect == Spec => []TypeOK
<1>1. IInv => TypeOK
  BY DEF IInv
<1> QED BY <1>1, LeaseInvariance, PTL

\* A call forwarded to the card has the gate's lease and the turn under it until its
\* answer, for any number of callers and tenants (place, done, _reap_loop).
THEOREM PlacedCallsAreSafe == Spec => []PlacedCallsHoldTheCard
<1>1. IInv => PlacedCallsHoldTheCard
  BY TenantsTyped
  DEF IInv, PlacedCallsHoldTheCard, PlacedHasLease, TurnIsHeld, LockIsHeld, HasLease,
      Holding, Wanting
<1> QED BY <1>1, LeaseInvariance, PTL

-----------------------------------------------------------------------------
(* Between the gate's question to the voice and the unload. *)

\* Who has found her idle and is about to put her model out needs the whole card, and
\* if she has begun since, it is late.
AskedInTime ==
  \A t \in Tenants : pc[t] = "asked" =>
    t \in Exclusive /\ (voice.inFlight => t \in late)

LEMMA AskedKeeps ==
  ASSUME IInv, AskedInTime, [Next]_vars
  PROVE  AskedInTime'
<1> USE DEF IInv, AskedInTime
<1>1. ASSUME NEW t \in Tenants, GuardedEvictor(t) PROVE AskedInTime'
  BY <1>1 DEF GuardedEvictor, Goto, Idle, TypeOK, history
<1>2. CASE StartTurn
  <2>1. /\ late' = late \cup {t \in Tenants : pc[t] = "asked"} /\ pc' = pc
    BY <1>2 DEF StartTurn
  <2> QED BY <2>1
<1>3. CASE Look \/ EndTurn
  BY <1>3 DEF Look, EndTurn, TypeOK, history
<1>4. ASSUME NEW t \in Tenants, PutOut(t) PROVE AskedInTime'
  <2>1. /\ late' = late \ {t} /\ pc' = [pc EXCEPT ![t] = "evicting"] /\ voice' = voice
    BY <1>4 DEF PutOut, Goto
  <2> QED BY <2>1 DEF TypeOK
<1>5. ASSUME NEW t \in Tenants, NEW where \in Stages \ {"asked"}, Goto(t, where),
             UNCHANGED <<voice, late>>
      PROVE  AskedInTime'
  BY <1>5 DEF Goto, TypeOK
<1>6. ASSUME UNCHANGED <<pc, voice, late>> PROVE AskedInTime'
  BY <1>6
<1>7. ASSUME NEW t \in Tenants, Ask(t) \/ Lease(t) \/ Work(t),
             ~ GuardedEvictor(t), ~ PutOut(t)
      PROVE  AskedInTime'
  <2>1. CASE \E where \in Stages \ {"asked"} : Goto(t, where) /\ UNCHANGED <<voice, late>>
    BY <2>1, <1>5
  <2>2. CASE Evict(t)
    <3>1. UNCHANGED <<pc, voice, late>>
      BY <2>2 DEF Evict
    <3> QED BY <3>1, <1>6
  <2>3. ASSUME ~ Evict(t)
        PROVE  \E where \in Stages \ {"asked"} : Goto(t, where) /\ UNCHANGED <<voice, late>>
    BY <1>7, <2>3
    DEF Ask, Lease, Acquire, Work, Take, GiveUp, Settle, NotSettled, Plan, Measure,
        MadeRoom, NoRoom, Admit, AllInUse, Refused, Finish, Unload, Unlock, Forget, Stages,
        history
  <2> QED BY <2>1, <2>2, <2>3
<1>8. ASSUME NEW c \in Callers, Leave(c) \/ Serving(c) PROVE AskedInTime'
  <2>1. CASE Serve(c) /\ ~ HasLease
    <3>1. Goto(Gate, "asking") /\ UNCHANGED <<voice, late>>
      BY <2>1 DEF Serve, history
    <3>2. "asking" \in Stages \ {"asked"}
      BY DEF Stages
    <3> QED BY <3>1, <3>2, <1>5, TenantsTyped
  <2>2. CASE ~ (Serve(c) /\ ~ HasLease)
    <3>1. UNCHANGED <<pc, voice, late>>
      BY <1>8, <2>2 DEF Leave, Serving, Serve, Placed, Answer, history
    <3> QED BY <3>1, <1>6
  <2> QED BY <2>1, <2>2
<1>9. CASE Reap
  <2>1. Goto(Gate, "unloaded") /\ UNCHANGED <<voice, late>>
    BY <1>9 DEF Reap, Unload, history
  <2>2. "unloaded" \in Stages \ {"asked"}
    BY DEF Stages
  <2> QED BY <2>1, <2>2, <1>5, TenantsTyped
<1>10. CASE Rewarm \/ Linger \/ UNCHANGED vars
  <2>1. UNCHANGED <<pc, voice, late>>
    BY <1>10 DEF Rewarm, Linger, vars, history
  <2> QED BY <2>1, <1>6
<1> QED BY <1>1, <1>2, <1>3, <1>4, <1>7, <1>8, <1>9, <1>10 DEF Next

\* The gate asks the voice before each unload of her model, and what begins after the
\* answer is known to be late (guarded_evictor).
THEOREM AskedInTimeAlways == Spec => []AskedInTime
<1>1. Init => AskedInTime
  BY DEF Init, AskedInTime
<1>2. IInv /\ AskedInTime /\ [Next]_vars => AskedInTime'
  BY AskedKeeps
<1> QED BY <1>1, <1>2, LeaseInvariance, PTL DEF Spec

\* Room is made under the lock, never at the cost of the job's own model, and at the
\* cost of the voice's only as she may be put out, for any models and any card
\* (_make_room, guarded_evictor).
THEOREM RoomStaysFair == Spec => RoomIsMadeFairly
<1> DEFINE Fair ==
      \A t \in Tenants : todo'[t] # todo[t] /\ card' # card =>
        /\ holder = t /\ ModelOf[t] \notin card \ card'
        /\ Voice \in card \ card' =>
             /\ t \in Exclusive
             /\ t = Gate /\ voice.inFlight => t \in late
<1>1. ASSUME IInv /\ AskedInTime, [Next]_vars PROVE Fair
  <2>1. CASE card' = card \/ todo' = todo
    BY <2>1
  <2>2. ASSUME NEW t \in Tenants, Evict(t) PROVE Fair
    <3>1. PICK m \in todo[t] :
            /\ todo' = [todo EXCEPT ![t] = @ \ {m}]
            /\ card' = card \/ (Evictable(t, m) /\ card' = card \ {m})
      BY <2>2 DEF Evict
    <3>2. \A u \in Tenants \ {t} : todo'[u] = todo[u]
      BY <1>1, <3>1 DEF IInv, TypeOK
    <3>3. holder = t
      BY <1>1, <2>2 DEF Evict, IInv, LockIsHeld, Holding, Wanting
    <3> QED BY <3>1, <3>2, <3>3 DEF Evictable
  <2>3. ASSUME NEW t \in Tenants, PutOut(t) PROVE Fair
    <3>1. /\ todo' = [todo EXCEPT ![t] = @ \ {Voice}]
          /\ card' \in {card, card \ {Voice}} /\ pc[t] = "asked"
      BY <2>3 DEF PutOut
    <3>2. \A u \in Tenants \ {t} : todo'[u] = todo[u]
      BY <1>1, <3>1 DEF IInv, TypeOK
    <3>3. holder = t
      BY <1>1, <3>1 DEF IInv, LockIsHeld, Holding, Wanting
    <3>4. ModelOf[t] # Voice
      BY ModelsTyped
    <3>5. t \in Exclusive /\ (voice.inFlight => t \in late)
      BY <1>1, <3>1 DEF AskedInTime
    <3> QED BY <3>1, <3>2, <3>3, <3>4, <3>5
  <2>4. ASSUME NEW t \in Tenants, Ask(t) \/ Lease(t) \/ Work(t), ~ Evict(t), ~ PutOut(t)
        PROVE  card' = card \/ todo' = todo
    BY <2>4
    DEF Ask, Lease, Acquire, Work, Take, GiveUp, Settle, NotSettled, Plan, Measure,
        GuardedEvictor, MadeRoom, NoRoom, Admit, AllInUse, Refused, Finish, Unload, Unlock,
        Forget
  <2>5. ASSUME NEW c \in Callers, Leave(c) \/ Serving(c) PROVE todo' = todo
    BY <2>5 DEF Leave, Serving, Serve, Placed, Answer
  <2>6. ASSUME Rewarm \/ Look \/ StartTurn \/ EndTurn \/ Linger \/ Reap \/ UNCHANGED vars
        PROVE  todo' = todo
    BY <2>6 DEF Rewarm, Look, StartTurn, EndTurn, Linger, Reap, Unload, vars
  <2> QED BY <1>1, <2>1, <2>2, <2>3, <2>4, <2>5, <2>6 DEF Next
<1> QED BY <1>1, LeaseInvariance, AskedInTimeAlways, PTL DEF Spec, RoomIsMadeFairly

=============================================================================
