------------------------- MODULE DurableAuthority -------------------------
(***************************************************************************)
(* What a store directory promises its callers, whatever files hold it: a  *)
(* durable log of admissions that only grows, a registry snapshot that     *)
(* only advances, and acknowledgements that never run ahead of them.       *)
(* Stopping and reopening the process are not steps here: they change      *)
(* nothing a caller was promised.                                          *)
(***************************************************************************)
EXTENDS Integers, Sequences

CONSTANTS None, Payloads, RegistryValues, EmptyRegistry

VARIABLES
    log,       \* the admissions the committed root covers, in append order
    registry,  \* the committed registry snapshot with its generation, or None
    acked      \* the newest commit reported to a caller, log and registry

vars == <<log, registry, acked>>

Init ==
    /\ log = <<>>
    /\ registry = None
    /\ acked = [seq |-> 0, registry |-> None]

\* The first manifest of a store.
Genesis ==
    /\ registry = None
    /\ registry' = [gen |-> 1, value |-> EmptyRegistry]
    /\ UNCHANGED <<log, acked>>

\* A durability commit adds a nonempty batch behind everything committed.
CommitBatch ==
    /\ log' \in Seq(Payloads)
    /\ Len(log') > Len(log)
    /\ SubSeq(log', 1, Len(log)) = log
    /\ UNCHANGED <<registry, acked>>

\* A registry commit is the next snapshot generation with another value.
CommitRegistry ==
    /\ registry # None
    /\ \E v \in RegistryValues \ {registry.value} :
          registry' = [gen |-> registry.gen + 1, value |-> v]
    /\ UNCHANGED <<log, acked>>

\* Only committed state is reported.
Acknowledge ==
    /\ acked' \in {[acked EXCEPT !.seq = Len(log)], [acked EXCEPT !.registry = registry]}
    /\ UNCHANGED <<log, registry>>

Next == Genesis \/ CommitBatch \/ CommitRegistry \/ Acknowledge

Spec == Init /\ [][Next]_vars
=============================================================================
