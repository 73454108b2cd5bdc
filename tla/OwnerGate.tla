----------------------------- MODULE OwnerGate -----------------------------
(***************************************************************************)
(* What Pionir promises about an action that needs the owner, with none of *)
(* the machinery: the action waits, is answered once, and if the answer is *)
(* yes it is attempted at most once before it is closed for good.  The     *)
(* module Approvals (the queue file, the server's handlers, the worker     *)
(* threads, crashes and expiry) is shown to implement it.                  *)
(***************************************************************************)
CONSTANT Actions

VARIABLES stage,    \* where each action stands
          attempts  \* the actions whose effect has begun in the outside world

gateVars == <<stage, attempts>>

Stages == {"unasked", "waiting", "allowed", "closed"}

\* Asked; answered yes; answered no or run out of time; the attempt is over.
Moves == {<<"unasked", "waiting">>, <<"waiting", "allowed">>,
          <<"waiting", "closed">>, <<"allowed", "closed">>}

GateInit ==
  /\ stage = [a \in Actions |-> "unasked"]
  /\ attempts = {}

\* One look at the queue may settle several questions at once.
Answer ==
  /\ stage' \in [Actions -> Stages]
  /\ \A a \in Actions : stage'[a] = stage[a] \/ <<stage[a], stage'[a]>> \in Moves
  /\ UNCHANGED attempts

Attempt(a) ==
  /\ stage[a] = "allowed"
  /\ a \notin attempts
  /\ attempts' = attempts \cup {a}
  /\ UNCHANGED stage

GateNext == Answer \/ \E a \in Actions : Attempt(a)

GateSpec == GateInit /\ [][GateNext]_gateVars
=============================================================================
