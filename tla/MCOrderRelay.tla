---------------------------- MODULE MCOrderRelay ----------------------------
(* Small instances of OrderRelay. *)
EXTENDS OrderRelay, TLC

CONSTANTS i1, i2, o1, o2

\* One reply releasing two orders.
OneReply == i1 :> <<o1, o2>>

\* Two replies releasing an order each.
TwoReplies == i1 :> <<o1>> @@ i2 :> <<o2>>
=============================================================================
