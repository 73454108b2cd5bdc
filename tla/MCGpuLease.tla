----------------------------- MODULE MCGpuLease -----------------------------
(***************************************************************************)
(* Three tenants on one card: the gate, a build of the executive that      *)
(* needs the whole card, and a small job of the executive that must fit    *)
(* beside the voice's model.                                               *)
(***************************************************************************)
EXTENDS GpuLease, TLC

CONSTANTS gate1, build, small, voiceModel, gateModel, coder, mini

MCTenants == {gate1, build, small}
MCExclusive == {gate1, build}
MCAsking == {gate1}
MCScheduler == (gate1 :> "gate") @@ (build :> "executive") @@ (small :> "executive")
MCModels == {voiceModel, gateModel, coder, mini}
MCModelOf == (gate1 :> gateModel) @@ (build :> coder) @@ (small :> mini)
MCSize == (voiceModel :> 2) @@ (gateModel :> 2) @@ (coder :> 3) @@ (mini :> 1)

=============================================================================
