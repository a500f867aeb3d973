-------------------------------- MODULE Relay --------------------------------
(***************************************************************************)
(* What a stage of the pipeline promises about the messages it reads from  *)
(* a stream: each is passed on at least once, and is settled, that is      *)
(* acknowledged, only after it was passed on.                              *)
(***************************************************************************)
CONSTANT Messages

VARIABLES
    offered,   \* messages the stage has been given to read
    emitted,   \* messages it has passed on
    settled    \* messages it will not be given again

vars == <<offered, emitted, settled>>

Init == offered = {} /\ emitted = {} /\ settled = {}

Offer(m)  == offered' = offered \cup {m} /\ UNCHANGED <<emitted, settled>>
Emit(m)   == /\ m \in offered
             /\ emitted' = emitted \cup {m}
             /\ UNCHANGED <<offered, settled>>
Settle(m) == /\ m \in emitted
             /\ settled' = settled \cup {m}
             /\ UNCHANGED <<offered, emitted>>

Next == \E m \in Messages : Offer(m) \/ Emit(m) \/ Settle(m)

\* Whatever is offered is settled in the end.
Liveness == \A m \in Messages : WF_vars(Emit(m)) /\ WF_vars(Settle(m))

Spec == Init /\ [][Next]_vars /\ Liveness
=============================================================================
