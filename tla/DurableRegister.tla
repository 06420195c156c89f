-------------------------- MODULE DurableRegister --------------------------
(***************************************************************************)
(* What the Lite pair promises to its callers: one durable register whose  *)
(* value is the sequence of the transactions applied so far.               *)
(*                                                                         *)
(* At most one transaction is undecided at a time.  It may be dropped (a   *)
(* crash before it reached the medium) or give way to another one, until   *)
(* it is settled; what is settled is only ever appended to.  A commit is   *)
(* acknowledged, and a value served, only out of what is settled.          *)
(***************************************************************************)
EXTENDS Naturals, Sequences

CONSTANT Tx   \* transaction ids

VARIABLES
    settled,    \* the transactions that can no longer be lost
    tip,        \* what a load would return now
    acked,      \* transactions whose commit returned
    published   \* transactions a load returned to a caller

vars == <<settled, tip, acked, published>>

Applied == {settled[i] : i \in DOMAIN settled}

Init == settled = <<>> /\ tip = <<>> /\ acked = {} /\ published = {}

\* A transaction (the visible one, or one that takes its place) is what loads
\* return from now on, and may be settled.
Decide ==
    /\ \E t \in Tx \ Applied : tip' = Append(settled, t)
    /\ settled' \in {settled, tip'}
    /\ UNCHANGED <<acked, published>>

Drop == tip' = settled /\ UNCHANGED <<settled, acked, published>>

\* Commits return and loads are served, out of what is settled.
Answer ==
    /\ acked \subseteq acked' /\ acked' \subseteq Applied
    /\ published \subseteq published' /\ published' \subseteq Applied
    /\ UNCHANGED <<settled, tip>>

Next == Decide \/ Drop \/ Answer

Spec == Init /\ [][Next]_vars
=============================================================================
