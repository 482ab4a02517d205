----------------------------- MODULE EffectOnce -----------------------------
(***************************************************************************)
(* What the runtime promises about one idempotency key, whatever runs,     *)
(* crashes and retries happen: an effect is made only under a reservation  *)
(* and only while none stands, and a key becomes open for another attempt  *)
(* only when no effect of it stands.                                       *)
(***************************************************************************)
EXTENDS Naturals

CONSTANT Keys

VARIABLES
    phase,     \* "open", "attempt", "settled" or "unknown"
    standing   \* number of effects that stand at the provider

specVars == <<phase, standing>>

SpecInit ==
    /\ phase = [k \in Keys |-> "open"]
    /\ standing = [k \in Keys |-> 0]

Enter(k, p) == phase' = [phase EXCEPT ![k] = p] /\ UNCHANGED standing

(* A reservation is taken; nothing of this key stands. *)
Reserve(k) == phase[k] = "open" /\ standing[k] = 0 /\ Enter(k, "attempt")

(* The only way an effect is made. *)
Apply(k) ==
    /\ phase[k] = "attempt"
    /\ standing[k] = 0
    /\ standing' = [standing EXCEPT ![k] = 1]
    /\ UNCHANGED phase

(* The attempt ends: confirmed with its effect in place, or in doubt. *)
Confirm(k) == phase[k] = "attempt" /\ standing[k] = 1 /\ Enter(k, "settled")
Doubt(k) == phase[k] = "attempt" /\ Enter(k, "unknown")

(* Doubt is removed by an independent reading of the provider. *)
Reconcile(k) == phase[k] = "unknown" /\ Enter(k, "settled")

(* The effect is undone; the key is not open yet. *)
Undo(k) ==
    /\ phase[k] # "open"
    /\ standing[k] = 1
    /\ standing' = [standing EXCEPT ![k] = 0]
    /\ UNCHANGED phase

(* The key is given back: a certified failure or a completed rollback. *)
Reopen(k) == phase[k] # "open" /\ standing[k] = 0 /\ Enter(k, "open")

SpecNext == \E k \in Keys :
    \/ Reserve(k) \/ Apply(k) \/ Confirm(k) \/ Doubt(k)
    \/ Reconcile(k) \/ Undo(k) \/ Reopen(k)

EffectOnceSpec == SpecInit /\ [][SpecNext]_specVars
=============================================================================
