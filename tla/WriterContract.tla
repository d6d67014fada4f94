--------------------------- MODULE WriterContract ---------------------------
(***************************************************************************)
(* What the C interface asks of both of its sides (shadowvpn_core.h, the   *)
(* SvpnWritePacket typedef; engine.rs, WritePacketFn and WriteCtx): the    *)
(* host lends the core a writer context, the core calls back into contexts *)
(* it was lent and into no other, and the host takes one back only when no *)
(* call into it is in progress, and none begins afterwards.                *)
(***************************************************************************)
CONSTANTS Contexts, Callers

VARIABLES
    lent,   \* the contexts the host keeps alive for the core
    calls   \* the <<caller, context>> pairs with a callback in progress

cvars == <<lent, calls>>

Init == lent = {} /\ calls = {}

Lend(c) ==
    /\ c \notin lent
    /\ lent' = lent \cup {c}
    /\ UNCHANGED calls

TakeBack(c) ==
    /\ c \in lent
    /\ \A k \in Callers : <<k, c>> \notin calls
    /\ lent' = lent \ {c}
    /\ UNCHANGED calls

Call(k, c) ==
    /\ c \in lent
    /\ <<k, c>> \notin calls
    /\ calls' = calls \cup {<<k, c>>}
    /\ UNCHANGED lent

Return(k, c) ==
    /\ <<k, c>> \in calls
    /\ calls' = calls \ {<<k, c>>}
    /\ UNCHANGED lent

Next == \E c \in Contexts : \/ Lend(c) \/ TakeBack(c)
                            \/ \E k \in Callers : Call(k, c) \/ Return(k, c)

Spec == Init /\ [][Next]_cvars
=============================================================================
