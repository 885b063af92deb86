-------------------------- MODULE OrderRelayProofs --------------------------
(***************************************************************************)
(* Proofs about OrderRelay, for any inputs, released orders, sessions and  *)
(* any number of deaths, lost replies and failed sends: the types, and how *)
(* often an order can reach IBKR; and the record kept of every released    *)
(* order: none is forgotten, and what the engine is told was retired was   *)
(* never sent, was not found at IBKR and is settled as never sent.         *)
(***************************************************************************)
EXTENDS OrderRelay, SequenceTheorems, TLAPS

\* Where the relay is at the first order of todo, and where it is at none.
AtOrder == {"checking", "found", "queueing", "deciding", "marking", "forgetting",
            "writing-ahead", "sending", "noting", "sent"}
AtNone  == {"down", "idle", "asking", "clear-input", "clear-marks", "clear-refused",
            "clear-unhanded"}

\* One more hand-over of the order stays within what is permitted.
MaySend(o) == placed[o] <= permits[o] /\ (OwnerChecks => placed[o] = 0)

Released(i, orders) == \A n \in 1..Len(orders) : OrderOf(i, orders[n])

\* What each place of the process may rely on: the orders to act on are the
\* ones the committed input's reply released, and an order is checked, and so
\* handed over, only from no mark or from a permission to send it again.
WalkFacts ==
    /\ pc \in AtOrder => todo # <<>>
    /\ pc \in AtNone => todo = <<>>
    /\ todo # <<>> => pending \in Inputs /\ pending \in committed /\ Released(pending, todo)
    /\ pc \in {"checking", "forgetting", "writing-ahead"} => marks[Head(todo)] \in {"none", "resend"}
    /\ pc = "sending" => marks[Head(todo)] = "handing-over" /\ MaySend(Head(todo))
    /\ pc = "asking" => pending # None
    /\ pc = "clear-marks" => pending = None

\* An order is sent at most once more than the owner permitted (once, if the
\* owner looks first), and what lets it be sent says it may be: a permission,
\* the absence of a mark while its input awaits its reply, or an input that
\* was never committed.
PermissionOf(o) ==
    /\ placed[o] <= 1 + permits[o] /\ (OwnerChecks => placed[o] <= 1)
    /\ marks[o] = "resend" => MaySend(o)
    /\ marks[o] = "none" /\ Awaited(o) => placed[o] = 0
    /\ \A i \in Inputs \ committed : OrderOf(i, o) => placed[o] = 0

PermissionFacts == \A o \in Orders : PermissionOf(o)

RelayInv == TypeOK /\ WalkFacts /\ PermissionFacts

-----------------------------------------------------------------------------
(***************************************************************************)
(* Facts about the operators.                                              *)
(***************************************************************************)
\* The order acted on and the rest of the reply, of orders an input released.
LEMMA ReleasedFacts ==
    ASSUME NEW i \in Inputs, NEW orders \in Seq(Orders), orders # <<>>
    PROVE  /\ Head(orders) \in Orders /\ Tail(orders) \in Seq(Orders)
           /\ Released(i, orders) => OrderOf(i, Head(orders)) /\ Released(i, Tail(orders))
<1>1. /\ Head(orders) \in Orders /\ Tail(orders) \in Seq(Orders)
      /\ Len(orders) \in Nat \ {0} /\ Head(orders) = orders[1]
      /\ Len(Tail(orders)) = Len(orders) - 1
      /\ \A n \in 1..Len(Tail(orders)) : Tail(orders)[n] = orders[n + 1]
  BY HeadTailProperties, EmptySeq
<1>2. ASSUME Released(i, orders) PROVE OrderOf(i, Head(orders)) /\ Released(i, Tail(orders))
  <2>1. OrderOf(i, Head(orders))
    BY <1>1, <1>2 DEF Released
  <2>2. ASSUME NEW n \in 1..Len(Tail(orders)) PROVE OrderOf(i, Tail(orders)[n])
    BY <1>1, <1>2 DEF Released
  <2> QED BY <2>1, <2>2 DEF Released
<1> QED BY <1>1, <1>2

\* A reply releases the orders of its input, all of them orders.
LEMMA ReplyFacts ==
    ASSUME NEW i \in Inputs
    PROVE  OrdersOf[i] \in Seq(Orders) /\ Released(i, OrdersOf[i])
BY RelayAssumption DEF Released, OrderOf

\* Each order is released by the reply to one input.
LEMMA OneInputPerOrder ==
    ASSUME NEW i \in Inputs, NEW j \in Inputs, NEW o \in Orders, OrderOf(i, o), OrderOf(j, o)
    PROVE  i = j
BY RelayAssumption DEF OrderOf

\* At an order, the reply's first is one of the input awaiting its reply.
LEMMA AtOrderFacts ==
    ASSUME TypeOK, WalkFacts, todo # <<>>
    PROVE  /\ Head(todo) \in Orders /\ Tail(todo) \in Seq(Orders)
           /\ pending \in Inputs /\ pending \in committed
           /\ OrderOf(pending, Head(todo)) /\ Awaited(Head(todo)) /\ Released(pending, Tail(todo))
<1>1. pending \in Inputs /\ pending \in committed /\ Released(pending, todo) /\ todo \in Seq(Orders)
  BY DEF TypeOK, WalkFacts
<1> QED BY <1>1, ReleasedFacts DEF Awaited

\* The types of what the adapter process holds.
ProcessTypes ==
    /\ pc \in Places /\ todo \in Seq(Orders)
    /\ tags \in (SUBSET Orders) \cup {None} /\ handed \subseteq Orders

\* Where the adapter stops, it is at no order.
LEMMA StopsAtFacts ==
    ASSUME TypeOK, NEW place \in {"idle", "down"}, StopsAt(place)
    PROVE  ProcessTypes'
<1>1. pc' \in Places /\ todo' \in Seq(Orders) /\ tags' \in (SUBSET Orders) \cup {None}
  BY DEF StopsAt, Places
<1>2. handed' \subseteq Orders
  BY DEF StopsAt, TypeOK
<1> QED BY <1>1, <1>2 DEF ProcessTypes

\* A fault is counted.
LEMMA FaultFacts == TypeOK /\ Fault => faults' \in Nat
BY DEF TypeOK, Fault

\* A settlement of the owner's writes a decision, and a mark if it is whole.
LEMMA ResolveFacts ==
    ASSUME TypeOK, NEW o \in Orders, NEW decision \in Decisions, NEW mark \in Marks,
           NEW onDay \in Nat, NEW whole \in BOOLEAN, Resolve(o, decision, mark, onDay, whole),
           permits' \in [Orders -> Nat]
    PROVE  TypeOK'
<1>1. last' \in [Orders -> Decisions]
  BY DEF Resolve, TypeOK
<1>2. marks' \in [Orders -> Marks] /\ allowed' \in [Orders -> Nat]
  BY DEF Resolve, TypeOK
<1> QED
  BY <1>1, <1>2 DEF Resolve, TypeOK, OwnerWrites, relayVars, brokerVars, calendarVars

\* A step that hands nothing over and gives no permission keeps the facts, if
\* the marks it writes allow no sending and no other input comes to wait.
LEMMA NothingPermitted ==
    ASSUME TypeOK, PermissionFacts, UNCHANGED <<placed, permits>>, committed \subseteq committed',
           pending' = pending \/ pending' = None,
           \A o \in Orders : marks'[o] \in {"none", "resend"} => marks'[o] = marks[o]
    PROVE  PermissionFacts'
<1>1. \A o \in Orders : Awaited(o)' => Awaited(o)
  BY RelayAssumption DEF Awaited, OrderOf
<1> SUFFICES ASSUME NEW o \in Orders PROVE PermissionOf(o)'
  BY DEF PermissionFacts
<1>2. PermissionOf(o)
  BY DEF PermissionFacts
<1>3. /\ placed'[o] = placed[o] /\ permits'[o] = permits[o]
      /\ marks'[o] \in {"none", "resend"} => marks'[o] = marks[o]
  OBVIOUS
<1>4. MaySend(o) => MaySend(o)'
  BY <1>3 DEF MaySend
<1>5. \A i \in Inputs \ committed' : OrderOf(i, o)' => placed'[o] = 0
  BY <1>2, <1>3 DEF PermissionOf, OrderOf
<1> QED BY <1>1, <1>2, <1>3, <1>4, <1>5 DEF PermissionOf

-----------------------------------------------------------------------------
(***************************************************************************)
(* Each action keeps the types.                                            *)
(***************************************************************************)
\* A step keeps every variable's type.
LEMMA TypeStep == TypeOK /\ WalkFacts /\ [Next]_vars => TypeOK'
<1> SUFFICES ASSUME TypeOK, WalkFacts, [Next]_vars PROVE TypeOK'
  OBVIOUS
<1>h. todo # <<>> => Head(todo) \in Orders /\ Tail(todo) \in Seq(Orders)
  BY AtOrderFacts
<1>p. pc \in AtOrder => todo # <<>>
  BY DEF WalkFacts
<1> USE DEF TypeOK, Entries, Marks, Decisions, AtIBKR, Places,
             recordVars, relayVars, brokerVars, calendarVars, ownerVars, OwnerWrites, vars,
             PassOver
<1>1. ASSUME NEW i \in Inputs, RecordInput(i) PROVE TypeOK'
  <2>1. session' \in [Inputs -> Nat] /\ outbox' \subseteq Entries
    BY <1>1 DEF RecordInput
  <2> QED BY <1>1, <2>1 DEF RecordInput
<1>2. ASSUME NEW o \in Orders, Show(o) PROVE TypeOK'
  BY <1>2 DEF Show
<1>3. CASE NextDay
  BY <1>3 DEF NextDay
<1>4. CASE Start
  BY <1>4 DEF Start
<1>5. CASE Crash
  <2>1. faults' \in Nat
    BY <1>5, FaultFacts DEF Crash
  <2>2. ProcessTypes'
    BY <1>5 DEF Crash, ProcessTypes
  <2> QED BY <1>5, <2>1, <2>2 DEF Crash, ProcessTypes
<1>6. ASSUME NEW e \in Entries, TakeEntry(e) PROVE TypeOK'
  BY <1>6 DEF TakeEntry
<1>7. CASE Ask
  <2>1. pending \in Entries
    BY <1>7 DEF Ask, WalkFacts
  <2>2. ProcessTypes' /\ faults' \in Nat
    <3>1. CASE StopsAt("down") /\ Fault
      BY <3>1, StopsAtFacts, FaultFacts
    <3>2. CASE /\ pc' = "acting" /\ UNCHANGED <<tags, handed, faults>>
               /\ todo' = IF pending \in Inputs THEN OrdersOf[pending] ELSE <<>>
      <4>1. todo' \in Seq(Orders)
        BY <3>2, ReplyFacts
      <4> QED BY <3>2, <4>1 DEF ProcessTypes
    <3> QED BY <1>7, <3>1, <3>2 DEF Ask
  <2> QED BY <1>7, <2>1, <2>2 DEF Ask, ProcessTypes
<1>8. CASE Settled
  BY <1>8 DEF Settled
<1>9. CASE ClearInput
  BY <1>9 DEF ClearInput
<1>10. CASE ClearMarks
  BY <1>10 DEF ClearMarks
<1>11. CASE ClearRefused
  BY <1>11 DEF ClearRefused
<1>12. CASE ClearUnhanded
  BY <1>12, StopsAtFacts DEF ClearUnhanded, ProcessTypes
<1>13. ASSUME NEW o \in Orders, AlreadySent(o) PROVE TypeOK'
  BY <1>13, <1>h DEF AlreadySent, Acting
<1>14. ASSUME NEW o \in Orders, ReadBroker(o) PROVE TypeOK'
  <2>1. ProcessTypes' /\ faults' \in Nat
    <3>1. CASE tags' = {p \in Orders : broker[p] = "shown"} /\ UNCHANGED <<pc, todo, handed, faults>>
      BY <3>1 DEF ProcessTypes
    <3>2. CASE Fault /\ \E place \in {"idle", "down"} : StopsAt(place)
      BY <3>2, StopsAtFacts, FaultFacts
    <3> QED BY <1>14, <3>1, <3>2 DEF ReadBroker
  <2> QED BY <1>14, <2>1 DEF ReadBroker, ProcessTypes
<1>15. ASSUME NEW o \in Orders, FindAtBroker(o) PROVE TypeOK'
  BY <1>15 DEF FindAtBroker, Judging, Acting
<1>16. ASSUME NEW o \in Orders, FinishRetirement(o) PROVE TypeOK'
  BY <1>16 DEF FinishRetirement, Judging, Acting
<1>17. ASSUME NEW o \in Orders, PassNeverSent(o) PROVE TypeOK'
  BY <1>17, <1>h DEF PassNeverSent, Judging, Acting
<1>18. ASSUME NEW o \in Orders, BrokerHasIt(o) PROVE TypeOK'
  BY <1>18, <1>h DEF BrokerHasIt, Sendable, Judging, Acting
<1>19. ASSUME NEW o \in Orders, HandoverUnconfirmed(o) PROVE TypeOK'
  BY <1>19, StopsAtFacts DEF HandoverUnconfirmed, ProcessTypes
<1>20. ASSUME NEW o \in Orders, ResendExpired(o) PROVE TypeOK'
  BY <1>20, StopsAtFacts DEF ResendExpired, Sendable, Judging, Acting, ProcessTypes
<1>21. ASSUME NEW o \in Orders, Judge(o) PROVE TypeOK'
  BY <1>21 DEF Judge, Sendable, Judging, Acting
<1>22. ASSUME NEW o \in Orders, CheckPasses(o) PROVE TypeOK'
  BY <1>22 DEF CheckPasses, Checking
<1>23. ASSUME NEW o \in Orders, CheckSessionOver(o) PROVE TypeOK'
  BY <1>23 DEF CheckSessionOver, Checking
<1>24. ASSUME NEW o \in Orders, CheckUnsendable(o) PROVE TypeOK'
  BY <1>24, StopsAtFacts DEF CheckUnsendable, Checking, ProcessTypes
<1>25. ASSUME NEW o \in Orders, CheckRefused(o) PROVE TypeOK'
  <2>1. ProcessTypes' /\ faults' \in Nat
    BY <1>25, StopsAtFacts, FaultFacts DEF CheckRefused
  <2> QED BY <1>25, <2>1 DEF CheckRefused, ProcessTypes
<1>26. CASE RecordAtBroker
  BY <1>26, <1>h, <1>p, StopsAtFacts DEF RecordAtBroker, AtOrder, ProcessTypes
<1>27. CASE RetireQueue
  BY <1>27, <1>h, <1>p DEF RetireQueue, AtOrder
<1>28. CASE RetireDecide
  BY <1>28, <1>h, <1>p DEF RetireDecide, AtOrder
<1>29. CASE RetireMark
  BY <1>29, <1>h, <1>p DEF RetireMark, AtOrder
<1>30. CASE ForgetUnhanded
  BY <1>30 DEF ForgetUnhanded
<1>31. CASE MarkHandingOver
  BY <1>31, <1>h, <1>p DEF MarkHandingOver, AtOrder
<1>32. CASE Send
  <2>1. Head(todo) \in Orders
    BY <1>32, <1>h, <1>p DEF Send, AtOrder
  <2>2. ProcessTypes' /\ faults' \in Nat
    <3>1. CASE StopsAt("down") /\ Fault
      BY <3>1, StopsAtFacts, FaultFacts
    <3>2. CASE pc' = "sent" /\ UNCHANGED <<todo, tags, handed>> /\ (faults' = faults \/ Fault)
      BY <3>2, FaultFacts DEF ProcessTypes
    <3> QED BY <1>32, <3>1, <3>2 DEF Send
  <2>3. broker' \in [Orders -> AtIBKR] /\ placed' \in [Orders -> Nat]
    <3>1. CASE UNCHANGED <<broker, placed>>
      BY <3>1
    <3>2. CASE Reaches(Head(todo))
      <4>1. broker' \in [Orders -> AtIBKR]
        BY <2>1, <3>2 DEF Reaches
      <4>2. placed' \in [Orders -> Nat]
        BY <2>1, <3>2 DEF Reaches
      <4> QED BY <4>1, <4>2
    <3> QED BY <1>32, <3>1, <3>2 DEF Send
  <2> QED BY <1>32, <2>1, <2>2, <2>3 DEF Send, ProcessTypes
<1>33. CASE SendNotHandedOver
  <2>1. faults' \in Nat /\ Head(todo) \in Orders
    BY <1>33, FaultFacts, <1>h, <1>p DEF SendNotHandedOver, AtOrder
  <2> QED BY <1>33, <2>1 DEF SendNotHandedOver
<1>34. CASE NoteNotHandedOver
  BY <1>34, <1>h, <1>p, StopsAtFacts DEF NoteNotHandedOver, AtOrder, ProcessTypes
<1>35. CASE MarkSent
  BY <1>35, <1>h, <1>p DEF MarkSent, AtOrder
<1>36. ASSUME NEW o \in Orders, NEW whole \in BOOLEAN, ResolveNotHandedOver(o, whole) PROVE TypeOK'
  <2>1. Resolve(o, "not-handed-over", "never-sent", 0, whole) /\ permits' = permits
    BY <1>36 DEF ResolveNotHandedOver
  <2>2. "not-handed-over" \in Decisions /\ "never-sent" \in Marks /\ permits' \in [Orders -> Nat]
    BY <2>1
  <2> HIDE DEF TypeOK, Decisions, Marks
  <2> QED BY <2>1, <2>2, ResolveFacts
<1>37. ASSUME NEW o \in Orders, NEW whole \in BOOLEAN, ResolveNeverSent(o, whole) PROVE TypeOK'
  <2>1. Resolve(o, "never-sent", "never-sent", 0, whole) /\ permits' = permits
    BY <1>37 DEF ResolveNeverSent
  <2>2. "never-sent" \in Decisions /\ "never-sent" \in Marks /\ permits' \in [Orders -> Nat]
    BY <2>1
  <2> HIDE DEF TypeOK, Decisions, Marks
  <2> QED BY <2>1, <2>2, ResolveFacts
<1>38. ASSUME NEW o \in Orders, NEW whole \in BOOLEAN, ResolveSent(o, whole) PROVE TypeOK'
  <2>1. Resolve(o, "sent", "sent", 0, whole) /\ permits' = permits
    BY <1>38 DEF ResolveSent
  <2>2. "sent" \in Decisions /\ "sent" \in Marks /\ permits' \in [Orders -> Nat]
    BY <2>1
  <2> HIDE DEF TypeOK, Decisions, Marks
  <2> QED BY <2>1, <2>2, ResolveFacts
<1>39. ASSUME NEW o \in Orders, NEW whole \in BOOLEAN, ResolveResend(o, whole) PROVE TypeOK'
  <2>1. Resolve(o, "resend", "resend", day, whole)
    BY <1>39 DEF ResolveResend
  <2>2. permits' \in [Orders -> Nat]
    <3>1. permits' \in {permits, [permits EXCEPT ![o] = permits[o] + 1]}
      BY <1>39 DEF ResolveResend
    <3>2. permits[o] + 1 \in Nat /\ permits \in [Orders -> Nat]
      OBVIOUS
    <3>3. CASE permits' = [permits EXCEPT ![o] = permits[o] + 1]
      BY <3>2, <3>3
    <3> QED BY <3>1, <3>2, <3>3
  <2>3. "resend" \in Decisions /\ "resend" \in Marks /\ day \in Nat
    OBVIOUS
  <2> HIDE DEF TypeOK, Decisions, Marks
  <2> QED BY <2>1, <2>2, <2>3, ResolveFacts
<1>40. ASSUME NEW o \in Orders, NEW writes \in 1..4, ResolveFoundSent(o, writes) PROVE TypeOK'
  <2>1. last' \in [Orders -> Decisions]
    BY <1>40 DEF ResolveFoundSent
  <2>2. marks' \in [Orders -> Marks] /\ outbox' \subseteq Entries
    BY <1>40 DEF ResolveFoundSent
  <2> QED BY <1>40, <2>1, <2>2 DEF ResolveFoundSent
<1>41. ASSUME NEW o \in Orders, NEW writes \in 1..3, Retire(o, writes) PROVE TypeOK'
  <2>1. last' \in [Orders -> Decisions] /\ retired' \subseteq Orders
    BY <1>41, ZenonT(60) DEF Retire
  <2>2. marks' \in [Orders -> Marks] /\ outbox' \subseteq Entries
    BY <1>41 DEF Retire
  <2> QED BY <1>41, <2>1, <2>2 DEF Retire
<1>42. CASE UNCHANGED vars
  BY <1>42
<1> HIDE DEF TypeOK
<1> QED BY <1>1, <1>2, <1>3, <1>4, <1>5, <1>6, <1>7, <1>8, <1>9, <1>10, <1>11, <1>12,
         <1>13, <1>14, <1>15, <1>16, <1>17, <1>18, <1>19, <1>20, <1>21, <1>22, <1>23,
         <1>24, <1>25, <1>26, <1>27, <1>28, <1>29, <1>30, <1>31, <1>32, <1>33, <1>34,
         <1>35, <1>36, <1>37, <1>38, <1>39, <1>40, <1>41, <1>42
      DEF Next, RelayStep, OwnerStep
-----------------------------------------------------------------------------
(***************************************************************************)
(* Each action leaves the relay at a place whose facts hold.               *)
(***************************************************************************)
\* A step keeps what the places rely on.
LEMMA WalkStep == RelayInv /\ [Next]_vars => WalkFacts'
<1> SUFFICES ASSUME TypeOK, WalkFacts, PermissionFacts, [Next]_vars PROVE WalkFacts'
  BY DEF RelayInv
<1> USE DEF TypeOK, WalkFacts, AtOrder, AtNone, Entries, Marks, Places, MaySend,
             recordVars, relayVars, brokerVars, calendarVars, ownerVars, OwnerWrites, vars,
             StopsAt, PassOver, Fault
<1>1. ASSUME NEW i \in Inputs, RecordInput(i) PROVE WalkFacts'
  BY <1>1 DEF RecordInput
<1>2. ASSUME NEW o \in Orders, Show(o) PROVE WalkFacts'
  BY <1>2 DEF Show
<1>3. CASE NextDay
  BY <1>3 DEF NextDay
<1>4. CASE Start
  BY <1>4 DEF Start
<1>5. CASE Crash
  BY <1>5 DEF Crash
<1>6. ASSUME NEW e \in Entries, TakeEntry(e) PROVE WalkFacts'
  BY <1>6, RelayAssumption DEF TakeEntry
<1>7. CASE Ask
  BY <1>7, ReplyFacts DEF Ask
<1>8. CASE Settled
  BY <1>8 DEF Settled
<1>9. CASE ClearInput
  BY <1>9 DEF ClearInput
<1>10. CASE ClearMarks
  BY <1>10 DEF ClearMarks
<1>11. CASE ClearRefused
  BY <1>11 DEF ClearRefused
<1>12. CASE ClearUnhanded
  BY <1>12 DEF ClearUnhanded
<1>13. ASSUME NEW o \in Orders, AlreadySent(o) PROVE WalkFacts'
  BY <1>13, AtOrderFacts DEF AlreadySent, Acting
<1>14. ASSUME NEW o \in Orders, ReadBroker(o) PROVE WalkFacts'
  BY <1>14 DEF ReadBroker, Acting
<1>15. ASSUME NEW o \in Orders, FindAtBroker(o) PROVE WalkFacts'
  BY <1>15, AtOrderFacts DEF FindAtBroker, Judging, Acting
<1>16. ASSUME NEW o \in Orders, FinishRetirement(o) PROVE WalkFacts'
  BY <1>16, AtOrderFacts DEF FinishRetirement, Judging, Acting
<1>17. ASSUME NEW o \in Orders, PassNeverSent(o) PROVE WalkFacts'
  BY <1>17, AtOrderFacts DEF PassNeverSent, Judging, Acting
<1>18. ASSUME NEW o \in Orders, BrokerHasIt(o) PROVE WalkFacts'
  BY <1>18, AtOrderFacts DEF BrokerHasIt, Sendable, Judging, Acting
<1>19. ASSUME NEW o \in Orders, HandoverUnconfirmed(o) PROVE WalkFacts'
  BY <1>19 DEF HandoverUnconfirmed, Sendable, Judging, Acting
<1>20. ASSUME NEW o \in Orders, ResendExpired(o) PROVE WalkFacts'
  BY <1>20, AtOrderFacts DEF ResendExpired, Sendable, Judging, Acting
<1>21. ASSUME NEW o \in Orders, Judge(o) PROVE WalkFacts'
  BY <1>21, AtOrderFacts DEF Judge, Sendable, Judging, Acting
<1>22. ASSUME NEW o \in Orders, CheckPasses(o) PROVE WalkFacts'
  BY <1>22, AtOrderFacts DEF CheckPasses, Checking
<1>23. ASSUME NEW o \in Orders, CheckSessionOver(o) PROVE WalkFacts'
  BY <1>23, AtOrderFacts DEF CheckSessionOver, Checking
<1>24. ASSUME NEW o \in Orders, CheckUnsendable(o) PROVE WalkFacts'
  BY <1>24, AtOrderFacts DEF CheckUnsendable, Checking
<1>25. ASSUME NEW o \in Orders, CheckRefused(o) PROVE WalkFacts'
  BY <1>25, AtOrderFacts DEF CheckRefused, Checking
<1>26. CASE RecordAtBroker
  BY <1>26, AtOrderFacts DEF RecordAtBroker
<1>27. CASE RetireQueue
  BY <1>27, AtOrderFacts DEF RetireQueue
<1>28. CASE RetireDecide
  BY <1>28, AtOrderFacts DEF RetireDecide
<1>29. CASE RetireMark
  BY <1>29, AtOrderFacts DEF RetireMark
<1>30. CASE ForgetUnhanded
  BY <1>30, AtOrderFacts DEF ForgetUnhanded
<1>31. CASE MarkHandingOver
  <2>1. /\ Head(todo) \in Orders /\ Awaited(Head(todo)) /\ todo # <<>>
        /\ marks[Head(todo)] \in {"none", "resend"}
    BY <1>31, AtOrderFacts DEF MarkHandingOver
  <2>2. MaySend(Head(todo))
    BY <2>1 DEF PermissionFacts, PermissionOf
  <2> QED BY <1>31, <2>1, <2>2 DEF MarkHandingOver
<1>32. CASE Send
  BY <1>32, AtOrderFacts DEF Send, Reaches
<1>33. CASE SendNotHandedOver
  BY <1>33, AtOrderFacts DEF SendNotHandedOver
<1>34. CASE NoteNotHandedOver
  BY <1>34, AtOrderFacts DEF NoteNotHandedOver
<1>35. CASE MarkSent
  BY <1>35, AtOrderFacts DEF MarkSent
<1>36. ASSUME NEW o \in Orders, NEW whole \in BOOLEAN, ResolveNotHandedOver(o, whole) PROVE WalkFacts'
  BY <1>36 DEF ResolveNotHandedOver, Resolve
<1>37. ASSUME NEW o \in Orders, NEW whole \in BOOLEAN, ResolveNeverSent(o, whole) PROVE WalkFacts'
  BY <1>37 DEF ResolveNeverSent, Resolve
<1>38. ASSUME NEW o \in Orders, NEW whole \in BOOLEAN, ResolveSent(o, whole) PROVE WalkFacts'
  BY <1>38 DEF ResolveSent, Resolve
<1>39. ASSUME NEW o \in Orders, NEW whole \in BOOLEAN, ResolveResend(o, whole) PROVE WalkFacts'
  BY <1>39 DEF ResolveResend, Resolve
<1>40. ASSUME NEW o \in Orders, NEW writes \in 1..4, ResolveFoundSent(o, writes) PROVE WalkFacts'
  BY <1>40 DEF ResolveFoundSent
<1>41. ASSUME NEW o \in Orders, NEW writes \in 1..3, Retire(o, writes) PROVE WalkFacts'
  BY <1>41 DEF Retire
<1>42. CASE UNCHANGED vars
  BY <1>42
<1> QED BY <1>1, <1>2, <1>3, <1>4, <1>5, <1>6, <1>7, <1>8, <1>9, <1>10, <1>11, <1>12,
         <1>13, <1>14, <1>15, <1>16, <1>17, <1>18, <1>19, <1>20, <1>21, <1>22, <1>23,
         <1>24, <1>25, <1>26, <1>27, <1>28, <1>29, <1>30, <1>31, <1>32, <1>33, <1>34,
         <1>35, <1>36, <1>37, <1>38, <1>39, <1>40, <1>41, <1>42
      DEF Next, RelayStep, OwnerStep
-----------------------------------------------------------------------------
(***************************************************************************)
(* Each action keeps the hand-overs within what is permitted.              *)
(***************************************************************************)
\* A step keeps how often an order was and may be handed over.
LEMMA PermissionStep == RelayInv /\ [Next]_vars => PermissionFacts'
<1> SUFFICES ASSUME TypeOK, WalkFacts, PermissionFacts, [Next]_vars PROVE PermissionFacts'
  BY DEF RelayInv
<1> USE DEF TypeOK, Marks, Entries,
             recordVars, relayVars, brokerVars, calendarVars, ownerVars, OwnerWrites, vars,
             StopsAt, PassOver, Fault
<1>1. ASSUME NEW i \in Inputs, RecordInput(i) PROVE PermissionFacts'
  BY <1>1, NothingPermitted DEF RecordInput
<1>2. ASSUME NEW o \in Orders, Show(o) PROVE PermissionFacts'
  BY <1>2, NothingPermitted DEF Show
<1>3. CASE NextDay
  BY <1>3, NothingPermitted DEF NextDay
<1>4. CASE Start
  BY <1>4, NothingPermitted DEF Start
<1>5. CASE Crash
  BY <1>5, NothingPermitted DEF Crash
<1>6. ASSUME NEW e \in Entries, TakeEntry(e) PROVE PermissionFacts'
  <2>1. CASE pending' = pending
    BY <1>6, <2>1, NothingPermitted DEF TakeEntry
  <2>2. CASE e \notin committed
    <3> SUFFICES ASSUME NEW o \in Orders, Awaited(o)' PROVE placed[o] = 0
      BY <1>6 DEF TakeEntry, PermissionFacts, PermissionOf, MaySend, OrderOf
    <3>1. e \in Inputs \ committed /\ OrderOf(e, o)
      BY <1>6, <2>2, RelayAssumption DEF TakeEntry, Awaited, OrderOf
    <3> QED BY <3>1 DEF PermissionFacts, PermissionOf
  <2> QED BY <1>6, <2>1, <2>2 DEF TakeEntry
<1>7. CASE Ask
  BY <1>7, NothingPermitted DEF Ask
<1>8. CASE Settled
  BY <1>8, NothingPermitted DEF Settled
<1>9. CASE ClearInput
  BY <1>9, NothingPermitted DEF ClearInput
<1>10. CASE ClearMarks
  <2>1. pending' = None /\ None \notin Inputs
    BY <1>10, RelayAssumption DEF ClearMarks, WalkFacts
  <2> QED BY <1>10, <2>1 DEF ClearMarks, PermissionFacts, PermissionOf, MaySend, Awaited, OrderOf
<1>11. CASE ClearRefused
  BY <1>11, NothingPermitted DEF ClearRefused
<1>12. CASE ClearUnhanded
  BY <1>12, NothingPermitted DEF ClearUnhanded
<1>13. ASSUME NEW o \in Orders, AlreadySent(o) PROVE PermissionFacts'
  BY <1>13, NothingPermitted, AtOrderFacts DEF AlreadySent, Acting
<1>14. ASSUME NEW o \in Orders, ReadBroker(o) PROVE PermissionFacts'
  BY <1>14, NothingPermitted DEF ReadBroker, Acting
<1>15. ASSUME NEW o \in Orders, FindAtBroker(o) PROVE PermissionFacts'
  BY <1>15, NothingPermitted, AtOrderFacts DEF FindAtBroker, Judging, Acting
<1>16. ASSUME NEW o \in Orders, FinishRetirement(o) PROVE PermissionFacts'
  BY <1>16, NothingPermitted, AtOrderFacts DEF FinishRetirement, Judging, Acting
<1>17. ASSUME NEW o \in Orders, PassNeverSent(o) PROVE PermissionFacts'
  BY <1>17, NothingPermitted, AtOrderFacts DEF PassNeverSent, Judging, Acting
<1>18. ASSUME NEW o \in Orders, BrokerHasIt(o) PROVE PermissionFacts'
  BY <1>18, NothingPermitted, AtOrderFacts DEF BrokerHasIt, Sendable, Judging, Acting
<1>19. ASSUME NEW o \in Orders, HandoverUnconfirmed(o) PROVE PermissionFacts'
  BY <1>19, NothingPermitted DEF HandoverUnconfirmed, Sendable, Judging, Acting
<1>20. ASSUME NEW o \in Orders, ResendExpired(o) PROVE PermissionFacts'
  BY <1>20, NothingPermitted, AtOrderFacts DEF ResendExpired, Sendable, Judging, Acting
<1>21. ASSUME NEW o \in Orders, Judge(o) PROVE PermissionFacts'
  BY <1>21, NothingPermitted, AtOrderFacts DEF Judge, Sendable, Judging, Acting
<1>22. ASSUME NEW o \in Orders, CheckPasses(o) PROVE PermissionFacts'
  BY <1>22, NothingPermitted, AtOrderFacts DEF CheckPasses, Checking
<1>23. ASSUME NEW o \in Orders, CheckSessionOver(o) PROVE PermissionFacts'
  BY <1>23, NothingPermitted, AtOrderFacts DEF CheckSessionOver, Checking
<1>24. ASSUME NEW o \in Orders, CheckUnsendable(o) PROVE PermissionFacts'
  BY <1>24, NothingPermitted, AtOrderFacts DEF CheckUnsendable, Checking
<1>25. ASSUME NEW o \in Orders, CheckRefused(o) PROVE PermissionFacts'
  BY <1>25, NothingPermitted, AtOrderFacts DEF CheckRefused, Checking
<1>26. CASE RecordAtBroker
  BY <1>26, NothingPermitted, AtOrderFacts DEF RecordAtBroker
<1>27. CASE RetireQueue
  BY <1>27, NothingPermitted, AtOrderFacts DEF RetireQueue
<1>28. CASE RetireDecide
  BY <1>28, NothingPermitted, AtOrderFacts DEF RetireDecide
<1>29. CASE RetireMark
  BY <1>29, NothingPermitted, AtOrderFacts DEF RetireMark
<1>30. CASE ForgetUnhanded
  BY <1>30, NothingPermitted, AtOrderFacts DEF ForgetUnhanded
<1>31. CASE MarkHandingOver
  BY <1>31, NothingPermitted, AtOrderFacts DEF MarkHandingOver
<1>32. CASE Send
  <2>1. CASE UNCHANGED placed
    BY <1>32, <2>1, NothingPermitted DEF Send
  <2>2. CASE Reaches(Head(todo))
    <3>1. PICK h \in Orders :
              /\ h = Head(todo) /\ pending \in Inputs /\ pending \in committed /\ OrderOf(pending, h)
              /\ marks[h] = "handing-over" /\ MaySend(h)
      BY <1>32, AtOrderFacts DEF Send, WalkFacts, AtOrder
    <3>2. /\ \A o \in Orders : placed'[o] = IF o = h THEN placed[o] + 1 ELSE placed[o]
          /\ UNCHANGED <<permits, marks, pending, committed>>
      BY <1>32, <2>2, <3>1 DEF Send, Reaches
    <3>3. \A i \in Inputs \ committed : ~OrderOf(i, h)
      BY <3>1, OneInputPerOrder
    <3>4. ASSUME NEW o \in Orders, o # h PROVE PermissionOf(o)'
      BY <3>2, <3>4 DEF PermissionFacts, PermissionOf, MaySend, Awaited, OrderOf
    <3>5. PermissionOf(h)'
      <4>1. placed'[h] = placed[h] + 1 /\ permits'[h] = permits[h] /\ marks'[h] = "handing-over"
        BY <3>1, <3>2
      <4>2. placed'[h] <= 1 + permits'[h] /\ (OwnerChecks => placed'[h] <= 1)
        BY <3>1, <4>1 DEF MaySend
      <4>3. \A i \in Inputs \ committed' : ~OrderOf(i, h)'
        BY <3>2, <3>3 DEF OrderOf
      <4> QED BY <4>1, <4>2, <4>3 DEF PermissionOf
    <3> QED BY <3>4, <3>5 DEF PermissionFacts
  <2> QED BY <1>32, <2>1, <2>2 DEF Send
<1>33. CASE SendNotHandedOver
  BY <1>33, NothingPermitted, AtOrderFacts DEF SendNotHandedOver
<1>34. CASE NoteNotHandedOver
  BY <1>34, NothingPermitted, AtOrderFacts DEF NoteNotHandedOver
<1>35. CASE MarkSent
  BY <1>35, NothingPermitted, AtOrderFacts DEF MarkSent
<1>36. ASSUME NEW o \in Orders, NEW whole \in BOOLEAN, ResolveNotHandedOver(o, whole) PROVE PermissionFacts'
  BY <1>36, NothingPermitted DEF ResolveNotHandedOver, Resolve
<1>37. ASSUME NEW o \in Orders, NEW whole \in BOOLEAN, ResolveNeverSent(o, whole) PROVE PermissionFacts'
  BY <1>37, NothingPermitted DEF ResolveNeverSent, Resolve
<1>38. ASSUME NEW o \in Orders, NEW whole \in BOOLEAN, ResolveSent(o, whole) PROVE PermissionFacts'
  BY <1>38, NothingPermitted DEF ResolveSent, Resolve
<1>39. ASSUME NEW o \in Orders, NEW whole \in BOOLEAN, ResolveResend(o, whole) PROVE PermissionFacts'
  <2>1. CASE ~whole
    BY <1>39, <2>1, NothingPermitted DEF ResolveResend, Resolve
  <2>2. CASE whole
    <3>1. /\ \A p \in Orders : p # o => marks'[p] = marks[p] /\ permits'[p] = permits[p]
          /\ marks'[o] = "resend" /\ permits'[o] = permits[o] + 1
          /\ UNCHANGED <<placed, pending, committed>>
      BY <1>39, <2>2 DEF ResolveResend, Resolve
    <3>2. OwnerChecks => placed[o] = 0
      BY <1>39 DEF ResolveResend, NotAtIBKR
    <3>3. ASSUME NEW p \in Orders, p # o PROVE PermissionOf(p)'
      BY <3>1, <3>3 DEF PermissionFacts, PermissionOf, MaySend, Awaited, OrderOf
    <3>4. PermissionOf(o)'
      <4>1. PermissionOf(o)
        BY DEF PermissionFacts
      <4>2. placed'[o] <= 1 + permits'[o] /\ (OwnerChecks => placed'[o] <= 1) /\ MaySend(o)'
        BY <3>1, <3>2, <4>1 DEF PermissionOf, MaySend
      <4> QED BY <3>1, <4>1, <4>2 DEF PermissionOf, OrderOf
    <3> QED BY <3>3, <3>4 DEF PermissionFacts
  <2> QED BY <2>1, <2>2
<1>40. ASSUME NEW o \in Orders, NEW writes \in 1..4, ResolveFoundSent(o, writes) PROVE PermissionFacts'
  BY <1>40, NothingPermitted DEF ResolveFoundSent
<1>41. ASSUME NEW o \in Orders, NEW writes \in 1..3, Retire(o, writes) PROVE PermissionFacts'
  BY <1>41, NothingPermitted DEF Retire
<1>42. CASE UNCHANGED vars
  BY <1>42, NothingPermitted
<1> QED BY <1>1, <1>2, <1>3, <1>4, <1>5, <1>6, <1>7, <1>8, <1>9, <1>10, <1>11, <1>12,
         <1>13, <1>14, <1>15, <1>16, <1>17, <1>18, <1>19, <1>20, <1>21, <1>22, <1>23,
         <1>24, <1>25, <1>26, <1>27, <1>28, <1>29, <1>30, <1>31, <1>32, <1>33, <1>34,
         <1>35, <1>36, <1>37, <1>38, <1>39, <1>40, <1>41, <1>42
      DEF Next, RelayStep, OwnerStep
-----------------------------------------------------------------------------
(***************************************************************************)
(* The theorems.                                                           *)
(***************************************************************************)
\* The relay's invariant holds from the start and every step keeps it.
LEMMA RelayInvariant == Spec => []RelayInv
<1>1. Init => RelayInv
  BY RelayAssumption DEF Init, RelayInv, TypeOK, WalkFacts, PermissionFacts, PermissionOf,
     MaySend, Awaited, AtOrder, AtNone, Entries, Marks, Decisions, AtIBKR, Places
<1>2. RelayInv /\ [Next]_vars => RelayInv'
  BY TypeStep, WalkStep, PermissionStep DEF RelayInv
<1> QED BY <1>1, <1>2, PTL DEF Spec

\* Every variable of the relay, its records and IBKR keeps its type.
THEOREM RelayTypeCorrect == Spec => []TypeOK
<1>1. RelayInv => TypeOK
  BY DEF RelayInv
<1> QED BY <1>1, RelayInvariant, PTL

\* Relay._settle marks an order before it is sent: whatever dies or is lost,
\* it reaches IBKR once, and once more only for each permission of the owner.
THEOREM SentByPermission == Spec => []PlacedByPermission
<1>1. RelayInv => PlacedByPermission
  BY DEF RelayInv, PermissionFacts, PermissionOf, PlacedByPermission
<1> QED BY <1>1, RelayInvariant, PTL

\* With an owner who looks at IBKR before allowing a resend, the relay never
\* sends an order twice.
THEOREM SentOnce == ASSUME OwnerChecks PROVE Spec => []PlacedOnce
<1>1. RelayInv => PlacedOnce
  BY DEF RelayInv, PermissionFacts, PermissionOf, PlacedOnce
<1> QED BY <1>1, RelayInvariant, PTL

----------------------------------------------------------------------------
(* The record kept of every released order *)

\* The order was handed over, is at IBKR, or a decision on it is recorded.
Dealt(o) == o \in tried \/ broker[o] # "none" \/ last[o] # "none"

LeftIn(orders, o) == \E n \in 1..Len(orders) : orders[n] = o

\* The input is still to be acted on, and its order with it.
Waits(i, o) ==
    /\ pending = i /\ pc # "clear-input"
    /\ pc \notin AtNone => LeftIn(todo, o)

\* What lets the relay pass an order over shows it was dealt with.
PassedFacts ==
    /\ \A o \in Orders : marks[o] \in {"resend", "sent", "never-sent", "at-broker"} => Dealt(o)
    /\ \A o \in Orders : o \in retired \/ o \in handed => Dealt(o)
    /\ tags # None => \A o \in tags : broker[o] # "none"
    /\ pc = "sent" => Head(todo) \in tried
    /\ pc = "marking" => Head(todo) \in retired

\* Every order of a committed input was dealt with, or waits with its input.
ReleasedDealt ==
    \A i \in Inputs, o \in Orders : i \in committed /\ OrderOf(i, o) => Dealt(o) \/ Waits(i, o)

DealtFacts == PassedFacts /\ ReleasedDealt

\* The engine was told the order is retired, or is being told; its retirement
\* was begun or told.
Told(o)  == pending = o \/ o \in committed
Begun(o) == o \in outbox \/ o \in retired \/ Told(o)

NeverSentWords == {"retired", "never-sent", "not-handed-over"}

\* The record settles the order as never sent, or the owner may differ with it.
Worded(o) == last[o] \in NeverSentWords \/ permits[o] > 0 \/ broker[o] # "none"

\* An input is dated before it is taken, and sessions are counted from one.
DatedFacts ==
    /\ day > 0
    /\ \A i \in Inputs : i \in outbox \/ pending = i => session[i] > 0

\* Only an order of a committed input has a record, and one the engine is
\* told of belongs to no input that still awaits its reply.
OwnInputOf(o) ==
    /\ marks[o] # "none" \/ refused = o \/ Begun(o) \/ o \in found =>
           \A i \in Inputs : OrderOf(i, o) => i \in committed
    /\ Told(o) => ~Awaited(o)

\* A permission to send again is dated no later than its input; an order whose
\* retirement was begun and that is still marked for sending was once
\* permitted, and its session is over, so it is not permitted again.
ResendOf(o) ==
    /\ marks[o] = "resend" => permits[o] > 0 /\ (Awaited(o) => allowed[o] <= session[pending])
    /\ Begun(o) /\ marks[o] \in {"handing-over", "resend"} =>
           permits[o] > 0 /\ (Awaited(o) => session[pending] < day)
    /\ Begun(o) => placed[o] = 0

\* What IBKR is recorded or known to have, it has.
AtBrokerOf(o) ==
    placed[o] > 0 \/ marks[o] = "at-broker" \/ last[o] = "at-broker" \/ o \in found => broker[o] # "none"

\* The last decision agrees with the mark of an order never sent.
DecisionOf(o) ==
    /\ Begun(o) /\ marks[o] = "sent" => permits[o] > 0 \/ broker[o] # "none"
    /\ marks[o] = "never-sent" => last[o] \in NeverSentWords \cup {"at-broker"}

\* An order found at IBKR is never passed over with a retirement to deliver.
FoundOf(o) == o \in found =>
    /\ ~Told(o)
    /\ Awaited(o) => KnownAtBroker(o) \/ (marks[o] = "sent" /\ o \notin outbox)

\* A retirement the outbox may deliver: not found, and settled as never sent.
Deliverable(o) == o \in outbox => o \notin found /\ Worded(o)

\* An order the process knows IBKR has is not one settled as never sent.
HandedOf(o) == o \in handed => o \notin found /\ (o \in outbox => broker[o] # "none")

\* Whatever the relay went past, or was told, is settled as never sent.
WordOf(o) ==
    /\ ~(Awaited(o) /\ (pc \notin AtNone => LeftIn(todo, o))) \/ pc = "clear-input" => Deliverable(o)
    /\ Told(o) => Worded(o)

\* What each place of the process relies on of the order it is at.
PlaceFacts ==
    /\ pc = "down" => handed = {}
    /\ pc \in AtOrder => Head(todo) \notin handed
    /\ pc \in AtOrder \ {"found"} => Head(todo) \notin found
    /\ pc \in {"checking", "forgetting", "writing-ahead", "sending", "noting", "sent"} => ~Begun(Head(todo))
    /\ pc = "queueing" => /\ session[pending] < day /\ placed[Head(todo)] = 0
                          /\ marks[Head(todo)] \in {"none", "resend"}
    /\ pc = "deciding" => Begun(Head(todo))
    /\ pc = "marking" => Head(todo) \in retired /\ last[Head(todo)] \in NeverSentWords
    /\ pc = "found" => /\ broker[Head(todo)] # "none"
                       /\ marks[Head(todo)] \in {"none", "never-sent", "at-broker"}

\* A retirement that a stop cut short after its decision is settled by it.
CutShortOf(o) ==
    Awaited(o) /\ o \in retired /\ marks[o] = "none" => last[o] \in NeverSentWords \cup {"at-broker"}

RecordInv ==
    /\ DatedFacts /\ PlaceFacts
    /\ \A o \in Orders : /\ OwnInputOf(o) /\ ResendOf(o) /\ AtBrokerOf(o) /\ DecisionOf(o)
                         /\ CutShortOf(o) /\ FoundOf(o) /\ HandedOf(o) /\ WordOf(o)

-----------------------------------------------------------------------------
(***************************************************************************)
(* Facts about the operators.                                              *)
(***************************************************************************)
\* Passing over the first order leaves the others.
LEMMA LeftAfterHead ==
    ASSUME NEW orders \in Seq(Orders), orders # <<>>, NEW o, LeftIn(orders, o), o # Head(orders)
    PROVE  LeftIn(Tail(orders), o)
<1>1. /\ Len(orders) \in Nat \ {0} /\ Head(orders) = orders[1]
      /\ Len(Tail(orders)) = Len(orders) - 1
      /\ \A n \in 1..Len(Tail(orders)) : Tail(orders)[n] = orders[n + 1]
  BY HeadTailProperties, EmptySeq
<1> DEFINE size == Len(orders)
<1>2. PICK n \in 1..size : orders[n] = o
  BY DEF LeftIn
<1>3. n - 1 \in 1..(size - 1)
  BY <1>1, <1>2
<1>4. Tail(orders)[n - 1] = o
  BY <1>1, <1>2, <1>3
<1> QED BY <1>1, <1>3, <1>4 DEF LeftIn

\* The first order is left to act on.
LEMMA HeadLeft ==
    ASSUME NEW orders \in Seq(Orders), orders # <<>>
    PROVE  LeftIn(orders, Head(orders))
<1> DEFINE size == Len(orders)
<1>1. size \in Nat \ {0} /\ Head(orders) = orders[1]
  BY HeadTailProperties, EmptySeq
<1>2. 1 \in 1..size
  BY <1>1
<1> QED BY <1>1, <1>2 DEF LeftIn

\* A whole reply is left to act on once it arrives.
LEMMA ReplyLeft ==
    ASSUME NEW i \in Inputs, NEW o, OrderOf(i, o)
    PROVE  LeftIn(OrdersOf[i], o)
<1>1. OrdersOf[i] \in Seq(Orders)
  BY ReplyFacts
<1>2. DOMAIN OrdersOf[i] = 1..Len(OrdersOf[i])
  BY <1>1
<1> QED BY <1>2 DEF OrderOf, LeftIn

\* An order once dealt with stays so: IBKR forgets none, no decision is removed.
LEMMA DealtGrows ==
    ASSUME TypeOK, WalkFacts, [Next]_vars
    PROVE  \A o \in Orders : Dealt(o) => Dealt(o)'
<1> SUFFICES ASSUME NEW p \in Orders PROVE Dealt(p) => Dealt(p)'
  OBVIOUS
<1>h. pc \in AtOrder => Head(todo) \in Orders
  BY AtOrderFacts DEF WalkFacts
<1> USE DEF TypeOK, Dealt, recordVars, relayVars, brokerVars, calendarVars, ownerVars, OwnerWrites, vars
<1>1. CASE UNCHANGED <<tried, broker, last>>
  BY <1>1
<1>2. ASSUME NEW o \in Orders, Show(o) PROVE Dealt(p) => Dealt(p)'
  BY <1>2 DEF Show
<1>3. CASE NextDay
  BY <1>3 DEF NextDay
<1>4. CASE RecordAtBroker
  BY <1>4 DEF RecordAtBroker, AtOrder
<1>5. CASE RetireDecide
  BY <1>5 DEF RetireDecide, AtOrder
<1>6. CASE Send
  BY <1>6 DEF Send, Reaches, AtOrder
<1>7. CASE SendNotHandedOver
  BY <1>7 DEF SendNotHandedOver
<1>8. ASSUME NEW o \in Orders, OwnerStep(o) PROVE Dealt(p) => Dealt(p)'
  BY <1>8 DEF OwnerStep, ResolveNotHandedOver, ResolveNeverSent, ResolveSent, ResolveResend,
     ResolveFoundSent, Retire, Resolve
<1>9. ASSUME RelayStep, ~RecordAtBroker, ~RetireDecide, ~Send, ~SendNotHandedOver
      PROVE  UNCHANGED <<tried, broker, last>>
  BY <1>9 DEF RelayStep, TakeEntry, Ask, Settled, ClearInput, ClearMarks, ClearRefused,
     ClearUnhanded, AlreadySent, ReadBroker, FindAtBroker, FinishRetirement, PassNeverSent,
     BrokerHasIt, HandoverUnconfirmed, ResendExpired, Judge, CheckPasses, CheckSessionOver,
     CheckUnsendable, CheckRefused, RetireQueue, RetireMark, ForgetUnhanded, MarkHandingOver,
     NoteNotHandedOver, MarkSent
<1>10. (\E i \in Inputs : RecordInput(i)) \/ Start \/ Crash => UNCHANGED <<tried, broker, last>>
  BY DEF RecordInput, Start, Crash
<1> QED BY <1>1, <1>2, <1>3, <1>4, <1>5, <1>6, <1>7, <1>8, <1>9, <1>10 DEF Next
-----------------------------------------------------------------------------
(***************************************************************************)
(* No order is forgotten.                                                  *)
(***************************************************************************)
\* A step keeps what passing an order over rests on.
LEMMA PassedStep ==
    ASSUME TypeOK, WalkFacts, PassedFacts, [Next]_vars
    PROVE  PassedFacts'
<1>g. \A o \in Orders : Dealt(o) => Dealt(o)'
  BY DealtGrows
<1>h. todo # <<>> => Head(todo) \in Orders
  BY AtOrderFacts
<1> USE DEF TypeOK, PassedFacts, WalkFacts, AtOrder, AtNone, Entries, Marks, recordVars, relayVars,
            brokerVars, calendarVars, ownerVars, OwnerWrites, vars, StopsAt, PassOver, Fault
<1>1. ASSUME NEW i \in Inputs, RecordInput(i) PROVE PassedFacts'
  BY <1>1, <1>g DEF RecordInput
<1>2. ASSUME NEW o \in Orders, Show(o) PROVE PassedFacts'
  BY <1>2, <1>g DEF Show
<1>3. CASE NextDay
  BY <1>3, <1>g, RelayAssumption DEF NextDay
<1>4. CASE Start
  BY <1>4, <1>g DEF Start
<1>5. CASE Crash
  BY <1>5, <1>g DEF Crash
<1>6. ASSUME NEW e \in Entries, TakeEntry(e) PROVE PassedFacts'
  BY <1>6, <1>g DEF TakeEntry
<1>7. CASE Ask
  BY <1>7, <1>g DEF Ask
<1>8. CASE Settled
  BY <1>8, <1>g DEF Settled
<1>9. CASE ClearInput
  BY <1>9, <1>g DEF ClearInput
<1>10. CASE ClearMarks
  BY <1>10, <1>g DEF ClearMarks
<1>11. CASE ClearRefused
  BY <1>11, <1>g DEF ClearRefused
<1>12. CASE ClearUnhanded
  BY <1>12, <1>g DEF ClearUnhanded
<1>13. ASSUME NEW o \in Orders, AlreadySent(o) PROVE PassedFacts'
  BY <1>13, <1>g DEF AlreadySent
<1>14. ASSUME NEW o \in Orders, ReadBroker(o) PROVE PassedFacts'
  BY <1>14, <1>g DEF ReadBroker, Acting
<1>15. ASSUME NEW o \in Orders, FindAtBroker(o) PROVE PassedFacts'
  BY <1>15, <1>g DEF FindAtBroker
<1>16. ASSUME NEW o \in Orders, FinishRetirement(o) PROVE PassedFacts'
  BY <1>16, <1>g DEF FinishRetirement, Judging, Acting
<1>17. ASSUME NEW o \in Orders, PassNeverSent(o) PROVE PassedFacts'
  BY <1>17, <1>g DEF PassNeverSent
<1>18. ASSUME NEW o \in Orders, BrokerHasIt(o) PROVE PassedFacts'
  <2>1. Dealt(o)'
    BY <1>18, <1>g DEF BrokerHasIt, Sendable, Judging, Dealt
  <2> QED BY <1>18, <1>g, <2>1 DEF BrokerHasIt
<1>19. ASSUME NEW o \in Orders, HandoverUnconfirmed(o) PROVE PassedFacts'
  BY <1>19, <1>g DEF HandoverUnconfirmed
<1>20. ASSUME NEW o \in Orders, ResendExpired(o) PROVE PassedFacts'
  BY <1>20, <1>g DEF ResendExpired
<1>21. ASSUME NEW o \in Orders, Judge(o) PROVE PassedFacts'
  BY <1>21, <1>g DEF Judge
<1>22. ASSUME NEW o \in Orders, CheckPasses(o) PROVE PassedFacts'
  BY <1>22, <1>g DEF CheckPasses
<1>23. ASSUME NEW o \in Orders, CheckSessionOver(o) PROVE PassedFacts'
  BY <1>23, <1>g DEF CheckSessionOver
<1>24. ASSUME NEW o \in Orders, CheckUnsendable(o) PROVE PassedFacts'
  BY <1>24, <1>g DEF CheckUnsendable
<1>25. ASSUME NEW o \in Orders, CheckRefused(o) PROVE PassedFacts'
  BY <1>25, <1>g DEF CheckRefused
<1>26. CASE RecordAtBroker
  <2>1. \A o \in Orders : o = Head(todo) /\ marks'[o] # marks[o] => Dealt(o)'
    BY <1>26 DEF RecordAtBroker, FindingMissing, Dealt
  <2>2. \A o \in Orders : o # Head(todo) => marks'[o] = marks[o]
    BY <1>26, <1>h DEF RecordAtBroker
  <2> QED BY <1>26, <1>g, <2>1, <2>2 DEF RecordAtBroker
<1>27. CASE RetireQueue
  BY <1>27, <1>g DEF RetireQueue
<1>28. CASE RetireDecide
  <2>1. Dealt(Head(todo))'
    BY <1>28, <1>h DEF RetireDecide, Dealt
  <2> QED BY <1>28, <1>g, <2>1 DEF RetireDecide
<1>29. CASE RetireMark
  BY <1>29, <1>g DEF RetireMark
<1>30. CASE ForgetUnhanded
  BY <1>30, <1>g DEF ForgetUnhanded
<1>31. CASE MarkHandingOver
  BY <1>31, <1>g DEF MarkHandingOver
<1>32. CASE Send
  BY <1>32, <1>g DEF Send, Reaches
<1>33. CASE SendNotHandedOver
  BY <1>33, <1>g DEF SendNotHandedOver
<1>34. CASE NoteNotHandedOver
  BY <1>34, <1>g DEF NoteNotHandedOver
<1>35. CASE MarkSent
  <2>1. PICK h \in Orders : h = Head(todo) /\ h \in tried
    BY <1>35, <1>h DEF MarkSent
  <2>2. Dealt(h)'
    BY <1>35, <2>1 DEF MarkSent, Dealt
  <2> QED BY <1>35, <1>g, <2>1, <2>2 DEF MarkSent
<1>36. ASSUME NEW o \in Orders, NEW whole \in BOOLEAN, ResolveNotHandedOver(o, whole) PROVE PassedFacts'
  BY <1>36 DEF ResolveNotHandedOver, Resolve, Dealt
<1>37. ASSUME NEW o \in Orders, NEW whole \in BOOLEAN, ResolveNeverSent(o, whole) PROVE PassedFacts'
  BY <1>37 DEF ResolveNeverSent, Resolve, Dealt
<1>38. ASSUME NEW o \in Orders, NEW whole \in BOOLEAN, ResolveSent(o, whole) PROVE PassedFacts'
  BY <1>38 DEF ResolveSent, Resolve, Dealt
<1>39. ASSUME NEW o \in Orders, NEW whole \in BOOLEAN, ResolveResend(o, whole) PROVE PassedFacts'
  BY <1>39 DEF ResolveResend, Resolve, Dealt
<1>40. ASSUME NEW o \in Orders, NEW writes \in 1..4, ResolveFoundSent(o, writes) PROVE PassedFacts'
  BY <1>40, <1>g DEF ResolveFoundSent
<1>41. ASSUME NEW o \in Orders, NEW writes \in 1..3, Retire(o, writes) PROVE PassedFacts'
  BY <1>41 DEF Retire, Dealt
<1>42. CASE UNCHANGED vars
  BY <1>42, <1>g
<1> QED BY <1>1, <1>2, <1>3, <1>4, <1>5, <1>6, <1>7, <1>8, <1>9, <1>10, <1>11, <1>12,
         <1>13, <1>14, <1>15, <1>16, <1>17, <1>18, <1>19, <1>20, <1>21, <1>22, <1>23,
         <1>24, <1>25, <1>26, <1>27, <1>28, <1>29, <1>30, <1>31, <1>32, <1>33, <1>34,
         <1>35, <1>36, <1>37, <1>38, <1>39, <1>40, <1>41, <1>42
      DEF Next, RelayStep, OwnerStep

\* Orders wait as they did when the process stays at the same input with the
\* same orders left, or ends at none of them.
LEMMA WaitsStill ==
    ASSUME ReleasedDealt, \A o \in Orders : Dealt(o) => Dealt(o)', UNCHANGED <<committed, pending>>,
           \/ pc' \in AtNone \ {"clear-input"}
           \/ todo' = todo /\ (pc' = pc \/ (pc \notin AtNone /\ pc' \notin AtNone))
    PROVE  ReleasedDealt'
BY DEF ReleasedDealt, Waits, OrderOf, LeftIn, AtNone

\* An order passed over was dealt with; the others of its input wait.
LEMMA WaitsAfterPass ==
    ASSUME TypeOK, ReleasedDealt, \A o \in Orders : Dealt(o) => Dealt(o)',
           UNCHANGED <<committed, pending>>, todo # <<>>, pc \notin AtNone, PassOver,
           \A o \in Orders : o = Head(todo) => Dealt(o)
    PROVE  ReleasedDealt'
<1> SUFFICES ASSUME NEW i \in Inputs, NEW o \in Orders, i \in committed, OrderOf(i, o), ~Dealt(o)
             PROVE  Waits(i, o)'
  BY DEF ReleasedDealt, OrderOf
<1>1. pending = i /\ LeftIn(todo, o) /\ o # Head(todo)
  BY DEF ReleasedDealt, Waits
<1>2. LeftIn(Tail(todo), o)
  BY <1>1, LeftAfterHead DEF TypeOK
<1> QED BY <1>1, <1>2 DEF Waits, PassOver, AtNone, LeftIn

\* A step leaves no order of a committed input behind.
LEMMA ReleasedStep ==
    ASSUME TypeOK, WalkFacts, DealtFacts, [Next]_vars
    PROVE  ReleasedDealt'
<1>g. \A o \in Orders : Dealt(o) => Dealt(o)'
  BY DealtGrows
<1>h. ReleasedDealt /\ PassedFacts
  BY DEF DealtFacts
<1> USE DEF recordVars, relayVars, brokerVars, calendarVars, ownerVars, OwnerWrites, vars,
            AtNone, AtOrder
<1>1. ASSUME UNCHANGED <<committed, pending, pc, todo>> PROVE ReleasedDealt'
  BY <1>1, <1>g, <1>h, WaitsStill
<1>2. CASE (\E i \in Inputs : RecordInput(i)) \/ (\E o \in Orders : Show(o)) \/ NextDay
  BY <1>1, <1>2 DEF RecordInput, Show, NextDay
<1>3. CASE Start \/ Crash
  BY <1>3, <1>g, <1>h, WaitsStill DEF Start, Crash
<1>4. ASSUME NEW e \in Entries, TakeEntry(e) PROVE ReleasedDealt'
  BY <1>4, <1>g, <1>h, RelayAssumption DEF TakeEntry, ReleasedDealt, Waits, OrderOf
<1>5. CASE Ask
  <2>1. CASE StopsAt("down")
    BY <1>5, <2>1, <1>g, <1>h DEF Ask, StopsAt, ReleasedDealt, Waits, OrderOf
  <2>2. CASE pc' = "acting" /\ todo' = IF pending \in Inputs THEN OrdersOf[pending] ELSE <<>>
    <3> SUFFICES ASSUME NEW i \in Inputs, NEW o \in Orders, i \in committed', OrderOf(i, o), ~Dealt(o)
                 PROVE  Waits(i, o)'
      BY <1>g DEF ReleasedDealt, OrderOf
    <3>1. pending = i
      BY <1>5, <1>h DEF Ask, ReleasedDealt, Waits
    <3>2. LeftIn(OrdersOf[i], o) /\ todo' = OrdersOf[i]
      BY <2>2, <3>1, ReplyLeft
    <3> QED BY <1>5, <2>2, <3>1, <3>2 DEF Ask, Waits, LeftIn
  <2> QED BY <1>5, <2>1, <2>2 DEF Ask
<1>6. CASE Settled
  <2>1. \A o \in Orders : ~LeftIn(todo, o)
    BY <1>6 DEF Settled, LeftIn
  <2> QED BY <1>6, <2>1, <1>g, <1>h DEF Settled, ReleasedDealt, Waits, OrderOf
<1>7. CASE ClearInput
  BY <1>7, <1>g, <1>h DEF ClearInput, ReleasedDealt, Waits, OrderOf
<1>8. CASE ClearMarks \/ ClearRefused \/ ClearUnhanded
  BY <1>8, <1>g, <1>h, WaitsStill DEF ClearMarks, ClearRefused, ClearUnhanded, StopsAt
<1>9. ASSUME NEW o \in Orders, AlreadySent(o) PROVE ReleasedDealt'
  <2>1. Dealt(o)
    BY <1>9, <1>h DEF AlreadySent, NeedsBroker, PassedFacts
  <2> QED BY <1>9, <1>g, <1>h, <2>1, WaitsAfterPass DEF AlreadySent, Acting
<1>10. ASSUME NEW o \in Orders, ReadBroker(o) PROVE ReleasedDealt'
  BY <1>10, <1>g, <1>h, WaitsStill DEF ReadBroker, Acting, StopsAt
<1>11. ASSUME NEW o \in Orders, FindAtBroker(o) \/ FinishRetirement(o) \/ Judge(o) PROVE ReleasedDealt'
  BY <1>11, <1>g, <1>h, WaitsStill DEF FindAtBroker, FinishRetirement, Judge, Sendable, Judging, Acting
<1>12. ASSUME NEW o \in Orders, PassNeverSent(o) PROVE ReleasedDealt'
  <2>1. Dealt(o)
    BY <1>12, <1>h DEF PassNeverSent, PassedFacts
  <2> QED BY <1>12, <1>g, <1>h, <2>1, WaitsAfterPass DEF PassNeverSent, Judging, Acting
<1>13. ASSUME NEW o \in Orders, BrokerHasIt(o) PROVE ReleasedDealt'
  <2>1. Dealt(o)
    BY <1>13, <1>h DEF BrokerHasIt, Sendable, Judging, PassedFacts, Dealt
  <2> QED BY <1>13, <1>g, <1>h, <2>1, WaitsAfterPass DEF BrokerHasIt, Sendable, Judging, Acting
<1>14. ASSUME NEW o \in Orders, HandoverUnconfirmed(o) \/ ResendExpired(o) PROVE ReleasedDealt'
  BY <1>14, <1>g, <1>h, WaitsStill DEF HandoverUnconfirmed, ResendExpired, StopsAt
<1>15. ASSUME NEW o \in Orders, CheckPasses(o) \/ CheckSessionOver(o) PROVE ReleasedDealt'
  BY <1>15, <1>g, <1>h, WaitsStill DEF CheckPasses, CheckSessionOver, Checking
<1>16. ASSUME NEW o \in Orders, CheckUnsendable(o) \/ CheckRefused(o) PROVE ReleasedDealt'
  BY <1>16, <1>g, <1>h, WaitsStill DEF CheckUnsendable, CheckRefused, StopsAt
<1>17. CASE RecordAtBroker
  BY <1>17, <1>g, <1>h, WaitsStill DEF RecordAtBroker, StopsAt
<1>18. CASE RetireQueue \/ RetireDecide \/ ForgetUnhanded \/ MarkHandingOver \/ SendNotHandedOver
  BY <1>18, <1>g, <1>h, WaitsStill DEF RetireQueue, RetireDecide, ForgetUnhanded, MarkHandingOver,
     SendNotHandedOver
<1>19. CASE RetireMark
  <2>1. todo # <<>> /\ \A o \in Orders : o = Head(todo) => Dealt(o)
    BY <1>19, <1>h DEF RetireMark, PassedFacts, WalkFacts
  <2> QED BY <1>19, <1>g, <1>h, <2>1, WaitsAfterPass DEF RetireMark
<1>20. CASE Send \/ NoteNotHandedOver
  BY <1>20, <1>g, <1>h, WaitsStill DEF Send, NoteNotHandedOver, StopsAt
<1>21. CASE MarkSent
  <2>1. todo # <<>> /\ \A o \in Orders : o = Head(todo) => Dealt(o)
    BY <1>21, <1>h DEF MarkSent, PassedFacts, WalkFacts, Dealt
  <2> QED BY <1>21, <1>g, <1>h, <2>1, WaitsAfterPass DEF MarkSent
<1>22. ASSUME NEW o \in Orders, OwnerStep(o) PROVE ReleasedDealt'
  <2>1. UNCHANGED <<committed, pending, pc, todo>>
    BY <1>22 DEF OwnerStep, ResolveNotHandedOver, ResolveNeverSent, ResolveSent, ResolveResend,
       ResolveFoundSent, Retire, Resolve
  <2> QED BY <2>1, <1>1
<1>23. CASE UNCHANGED vars
  BY <1>1, <1>23
<1> QED BY <1>2, <1>3, <1>4, <1>5, <1>6, <1>7, <1>8, <1>9, <1>10, <1>11, <1>12, <1>13, <1>14,
         <1>15, <1>16, <1>17, <1>18, <1>19, <1>20, <1>21, <1>22, <1>23 DEF Next, RelayStep

\* Every order released is dealt with or waits, from the start and ever after.
LEMMA DealtInvariant == Spec => []DealtFacts
<1>1. Init => DealtFacts
  BY DEF Init, DealtFacts, PassedFacts, ReleasedDealt
<1>2. RelayInv /\ DealtFacts /\ [Next]_vars => DealtFacts'
  BY PassedStep, ReleasedStep DEF RelayInv, DealtFacts
<1> QED BY <1>1, <1>2, RelayInvariant, PTL DEF Spec

\* Relay._settle passes no order over that it did not deal with, and the input
\* is cleared last: one the engine committed leaves none of its orders behind.
THEOREM NoneForgotten == Spec => []NoOrderForgotten
<1>1. DealtFacts => NoOrderForgotten
  <2> SUFFICES ASSUME DealtFacts, NEW i \in Inputs \cap committed, pending # i,
                      NEW n \in DOMAIN OrdersOf[i]
               PROVE  Dealt(OrdersOf[i][n])
    BY DEF NoOrderForgotten, Dealt
  <2>1. OrdersOf[i][n] \in Orders /\ OrderOf(i, OrdersOf[i][n])
    BY RelayAssumption DEF OrderOf
  <2> QED BY <2>1 DEF DealtFacts, ReleasedDealt, Waits
<1> QED BY <1>1, DealtInvariant, PTL
-----------------------------------------------------------------------------
(***************************************************************************)
(* What the engine is told was retired, with an owner who looks at IBKR.   *)
(***************************************************************************)
\* A step that writes no record of an order, sends none and dates no input.
QuietStep ==
    /\ UNCHANGED <<outbox, pending, committed, marks, allowed, last, retired, refused, found,
                   permits, placed, session>>
    /\ day' \in Nat /\ day' >= day
    /\ \A o \in Orders : broker'[o] = "none" => broker[o] = "none"

\* The steps that do write a record, or send.
LEMMA NamedOrQuiet ==
    ASSUME RelayInv, [Next]_vars
    PROVE  \/ QuietStep
           \/ \E i \in Inputs : RecordInput(i)
           \/ \E e \in Entries : TakeEntry(e)
           \/ Ask \/ Settled \/ ClearInput \/ ClearMarks \/ ClearRefused
           \/ \E o \in Orders : ResendExpired(o) \/ CheckUnsendable(o) \/ CheckRefused(o)
           \/ RecordAtBroker \/ RetireQueue \/ RetireDecide \/ RetireMark
           \/ MarkHandingOver \/ Send \/ MarkSent
           \/ \E o \in Orders : \E whole \in BOOLEAN :
                  \/ ResolveNotHandedOver(o, whole) \/ ResolveNeverSent(o, whole)
                  \/ ResolveSent(o, whole) \/ ResolveResend(o, whole)
           \/ \E o \in Orders : \E writes \in 1..4 : ResolveFoundSent(o, writes)
           \/ \E o \in Orders : \E writes \in 1..3 : Retire(o, writes)
<1>t. day \in Nat /\ broker \in [Orders -> AtIBKR]
  BY DEF RelayInv, TypeOK
<1> USE DEF QuietStep, recordVars, relayVars, brokerVars, calendarVars, ownerVars, vars
<1>1. ASSUME NEW o \in Orders, Show(o) PROVE QuietStep
  BY <1>t, <1>1 DEF Show
<1>2. NextDay => QuietStep
  BY <1>t DEF NextDay
<1>3. Start \/ Crash \/ ClearUnhanded \/ UNCHANGED vars => QuietStep
  BY <1>t DEF Start, Crash, ClearUnhanded
<1>4. ASSUME NEW o \in Orders,
             \/ AlreadySent(o) \/ ReadBroker(o) \/ FindAtBroker(o) \/ FinishRetirement(o)
             \/ PassNeverSent(o) \/ BrokerHasIt(o) \/ HandoverUnconfirmed(o) \/ Judge(o)
             \/ CheckPasses(o) \/ CheckSessionOver(o)
      PROVE  QuietStep
  BY <1>t, <1>4 DEF AlreadySent, ReadBroker, FindAtBroker, FinishRetirement, PassNeverSent, BrokerHasIt,
     HandoverUnconfirmed, Judge, CheckPasses, CheckSessionOver
<1>5. ForgetUnhanded \/ SendNotHandedOver \/ NoteNotHandedOver => QuietStep
  BY <1>t DEF ForgetUnhanded, SendNotHandedOver, NoteNotHandedOver
<1> QED BY <1>1, <1>2, <1>3, <1>4, <1>5 DEF Next, RelayStep, OwnerStep

\* A step keeps the record of an order to orders of committed inputs.
LEMMA OwnInputStep ==
    ASSUME RelayInv, RecordInv, [Next]_vars, NEW p \in Orders
    PROVE  OwnInputOf(p)'
<1>a. OwnInputOf(p) /\ PlaceFacts /\ TypeOK /\ WalkFacts
  BY DEF RecordInv, RelayInv
<1>b. \A i \in Inputs : OrderOf(i, p)' <=> OrderOf(i, p)
  BY DEF OrderOf
<1>c. /\ pending' = pending => (Awaited(p)' <=> Awaited(p))
      /\ Awaited(p)' => pending' \in Inputs /\ OrderOf(pending', p)
      /\ Inputs \cap Orders = {} /\ None \notin Inputs /\ None \notin Orders
  BY RelayAssumption DEF Awaited, OrderOf
<1>h. todo # <<>> => Head(todo) \in Orders /\ Awaited(Head(todo))
  BY <1>a, AtOrderFacts
<1>i. todo # <<>> => \A i \in Inputs : OrderOf(i, Head(todo)) => i \in committed
  BY <1>a, AtOrderFacts, OneInputPerOrder
<1> USE DEF OwnInputOf, Begun, Told, TypeOK, WalkFacts, AtOrder, AtNone, Entries, Marks, recordVars,
            relayVars, brokerVars, calendarVars, ownerVars, OwnerWrites, vars, StopsAt, PassOver
<1>q. CASE QuietStep
  BY <1>q, <1>a, <1>b, <1>c DEF QuietStep
<1>1. ASSUME NEW i \in Inputs, RecordInput(i) PROVE OwnInputOf(p)'
  BY <1>1, <1>a, <1>c DEF RecordInput
<1>6. ASSUME NEW e \in Entries, TakeEntry(e) PROVE OwnInputOf(p)'
  BY <1>6, <1>a, <1>c DEF TakeEntry
<1>7. CASE Ask
  BY <1>7, <1>a, <1>c DEF Ask
<1>8. CASE Settled
  BY <1>8, <1>a, <1>c DEF Settled
<1>9. CASE ClearInput
  BY <1>9, <1>a, <1>c DEF ClearInput
<1>10. CASE ClearMarks
  BY <1>10, <1>a, <1>c DEF ClearMarks
<1>11. CASE ClearRefused
  BY <1>11, <1>a, <1>c DEF ClearRefused
<1>20. ASSUME NEW o \in Orders, ResendExpired(o) PROVE OwnInputOf(p)'
  BY <1>20, <1>a, <1>c DEF ResendExpired, Sendable, Judging, Acting
<1>24. ASSUME NEW o \in Orders, CheckUnsendable(o) PROVE OwnInputOf(p)'
  BY <1>24, <1>a, <1>c, <1>i DEF CheckUnsendable, Checking
<1>25. ASSUME NEW o \in Orders, CheckRefused(o) PROVE OwnInputOf(p)'
  BY <1>25, <1>a, <1>c, <1>i DEF CheckRefused, Checking
<1>26. CASE RecordAtBroker
  BY <1>26, <1>a, <1>c, <1>i, SMTT(60) DEF RecordAtBroker, FindingMissing
<1>27. CASE RetireQueue
  BY <1>27, <1>a, <1>c, <1>i DEF RetireQueue
<1>28. CASE RetireDecide
  BY <1>28, <1>a, <1>c, <1>i DEF RetireDecide
<1>29. CASE RetireMark
  BY <1>29, <1>a, <1>c, <1>i DEF RetireMark
<1>31. CASE MarkHandingOver
  BY <1>31, <1>a, <1>c, <1>i DEF MarkHandingOver
<1>32. CASE Send
  BY <1>32, <1>a, <1>c DEF Send, Reaches
<1>35. CASE MarkSent
  BY <1>35, <1>a, <1>c, <1>i DEF MarkSent
<1>36. ASSUME NEW o \in Orders, NEW whole \in BOOLEAN, ResolveNotHandedOver(o, whole) PROVE OwnInputOf(p)'
  BY <1>36, <1>a, <1>c DEF ResolveNotHandedOver, Resolve
<1>37. ASSUME NEW o \in Orders, NEW whole \in BOOLEAN, ResolveNeverSent(o, whole) PROVE OwnInputOf(p)'
  BY <1>37, <1>a, <1>c DEF ResolveNeverSent, Resolve
<1>38. ASSUME NEW o \in Orders, NEW whole \in BOOLEAN, ResolveSent(o, whole) PROVE OwnInputOf(p)'
  BY <1>38, <1>a, <1>c DEF ResolveSent, Resolve
<1>39. ASSUME NEW o \in Orders, NEW whole \in BOOLEAN, ResolveResend(o, whole) PROVE OwnInputOf(p)'
  BY <1>39, <1>a, <1>c DEF ResolveResend, Resolve
<1>40. ASSUME NEW o \in Orders, NEW writes \in 1..4, ResolveFoundSent(o, writes) PROVE OwnInputOf(p)'
  BY <1>40, <1>a, <1>c DEF ResolveFoundSent
<1>41. ASSUME NEW o \in Orders, NEW writes \in 1..3, Retire(o, writes) PROVE OwnInputOf(p)'
  BY <1>41, <1>a, <1>c DEF Retire
<1> QED BY <1>q, <1>1, <1>6, <1>7, <1>8, <1>9, <1>10, <1>11, <1>20, <1>24, <1>25, <1>26, <1>27,
         <1>28, <1>29, <1>31, <1>32, <1>35, <1>36, <1>37, <1>38, <1>39, <1>40, <1>41, NamedOrQuiet

\* A step sends no order whose retirement was begun.
LEMMA ResendStep ==
    ASSUME OwnerChecks, RelayInv, PassedFacts, RecordInv, [Next]_vars, NEW p \in Orders
    PROVE  ResendOf(p)'
<1>a. /\ OwnInputOf(p) /\ ResendOf(p) /\ PermissionOf(p) /\ DatedFacts
      /\ PlaceFacts /\ TypeOK /\ WalkFacts
  BY DEF RecordInv, RelayInv, PermissionFacts
<1>c. /\ pending' = pending => (Awaited(p)' <=> Awaited(p))
      /\ Awaited(p) => pending \in Inputs
      /\ Awaited(p)' => pending' \in Inputs /\ OrderOf(pending', p)
      /\ Inputs \cap Orders = {} /\ None \notin Inputs /\ None \notin Orders
  BY RelayAssumption DEF Awaited, OrderOf
<1>h. todo # <<>> => Head(todo) \in Orders /\ Awaited(Head(todo))
  BY <1>a, AtOrderFacts
<1> USE DEF ResendOf, DatedFacts, PlaceFacts, PermissionOf, MaySend, OwnInputOf, NotAtIBKR, Begun, Told, TypeOK,
            WalkFacts, AtOrder, AtNone, Entries, Marks, recordVars,
            relayVars, brokerVars, calendarVars, ownerVars, OwnerWrites, vars, StopsAt, PassOver
<1>q. CASE QuietStep
  BY <1>q, <1>a, <1>c, SMTT(60) DEF QuietStep
<1>1. ASSUME NEW i \in Inputs, RecordInput(i) PROVE ResendOf(p)'
  BY <1>1, <1>a, <1>c DEF RecordInput
<1>6. ASSUME NEW e \in Entries, TakeEntry(e) PROVE ResendOf(p)'
  BY <1>6, <1>a, <1>c DEF TakeEntry
<1>7. CASE Ask
  BY <1>7, <1>a, <1>c DEF Ask
<1>8. CASE Settled
  BY <1>8, <1>a, <1>c DEF Settled
<1>9. CASE ClearInput
  BY <1>9, <1>a, <1>c DEF ClearInput
<1>10. CASE ClearMarks
  BY <1>10, <1>a DEF ClearMarks
<1>11. CASE ClearRefused
  BY <1>11, <1>a, <1>c DEF ClearRefused
<1>20. ASSUME NEW o \in Orders, ResendExpired(o) PROVE ResendOf(p)'
  BY <1>20, <1>a, <1>c DEF ResendExpired, Sendable, Judging, Acting
<1>24. ASSUME NEW o \in Orders, CheckUnsendable(o) PROVE ResendOf(p)'
  BY <1>24, <1>a, <1>c DEF CheckUnsendable, Checking
<1>25. ASSUME NEW o \in Orders, CheckRefused(o) PROVE ResendOf(p)'
  BY <1>25, <1>a, <1>c DEF CheckRefused, Checking
<1>26. CASE RecordAtBroker
  BY <1>26, <1>a, <1>c, SMTT(60) DEF RecordAtBroker, FindingMissing
<1>27. CASE RetireQueue
  BY <1>27, <1>a, <1>c DEF RetireQueue
<1>28. CASE RetireDecide
  BY <1>28, <1>a, <1>c DEF RetireDecide
<1>29. CASE RetireMark
  BY <1>29, <1>a, <1>c DEF RetireMark
<1>31. CASE MarkHandingOver
  BY <1>31, <1>a, <1>c DEF MarkHandingOver
<1>32. CASE Send
  BY <1>32, <1>a, <1>c DEF Send, Reaches
<1>35. CASE MarkSent
  BY <1>35, <1>a, <1>c DEF MarkSent
<1>36. ASSUME NEW o \in Orders, NEW whole \in BOOLEAN, ResolveNotHandedOver(o, whole) PROVE ResendOf(p)'
  BY <1>36, <1>a, <1>c DEF ResolveNotHandedOver, Resolve
<1>37. ASSUME NEW o \in Orders, NEW whole \in BOOLEAN, ResolveNeverSent(o, whole) PROVE ResendOf(p)'
  BY <1>37, <1>a, <1>c DEF ResolveNeverSent, Resolve
<1>38. ASSUME NEW o \in Orders, NEW whole \in BOOLEAN, ResolveSent(o, whole) PROVE ResendOf(p)'
  BY <1>38, <1>a, <1>c, SMTT(60) DEF ResolveSent, Resolve
<1>39. ASSUME NEW o \in Orders, NEW whole \in BOOLEAN, ResolveResend(o, whole) PROVE ResendOf(p)'
  BY <1>39, <1>a, <1>c DEF ResolveResend, Resolve
<1>40. ASSUME NEW o \in Orders, NEW writes \in 1..4, ResolveFoundSent(o, writes) PROVE ResendOf(p)'
  BY <1>40, <1>a, <1>c DEF ResolveFoundSent
<1>41. ASSUME NEW o \in Orders, NEW writes \in 1..3, Retire(o, writes) PROVE ResendOf(p)'
  BY <1>41, <1>a, <1>c DEF Retire
<1> QED BY <1>q, <1>1, <1>6, <1>7, <1>8, <1>9, <1>10, <1>11, <1>20, <1>24, <1>25, <1>26, <1>27,
         <1>28, <1>29, <1>31, <1>32, <1>35, <1>36, <1>37, <1>38, <1>39, <1>40, <1>41, NamedOrQuiet

\* A step records an order as at IBKR only if IBKR has it.
LEMMA AtBrokerStep ==
    ASSUME OwnerChecks, RelayInv, PassedFacts, RecordInv, [Next]_vars, NEW p \in Orders
    PROVE  AtBrokerOf(p)'
<1>a. /\ AtBrokerOf(p) /\ DecisionOf(p) /\ PlaceFacts /\ TypeOK /\ WalkFacts
  BY DEF RecordInv, RelayInv, PermissionFacts
<1>c. /\ pending' = pending => (Awaited(p)' <=> Awaited(p))
      /\ Awaited(p) => pending \in Inputs
      /\ Awaited(p)' => pending' \in Inputs /\ OrderOf(pending', p)
      /\ Inputs \cap Orders = {} /\ None \notin Inputs /\ None \notin Orders
  BY RelayAssumption DEF Awaited, OrderOf
<1>h. todo # <<>> => Head(todo) \in Orders /\ Awaited(Head(todo))
  BY <1>a, AtOrderFacts
<1> USE DEF AtBrokerOf, PlaceFacts, AtIBKR, Begun, Told, TypeOK, WalkFacts, AtOrder, AtNone, Entries, Marks, recordVars,
            relayVars, brokerVars, calendarVars, ownerVars, OwnerWrites, vars, StopsAt, PassOver
<1>q. CASE QuietStep
  BY <1>q, <1>a, <1>c DEF QuietStep
<1>1. ASSUME NEW i \in Inputs, RecordInput(i) PROVE AtBrokerOf(p)'
  BY <1>1, <1>a DEF RecordInput
<1>6. ASSUME NEW e \in Entries, TakeEntry(e) PROVE AtBrokerOf(p)'
  BY <1>6, <1>a DEF TakeEntry
<1>7. CASE Ask
  BY <1>7, <1>a DEF Ask
<1>8. CASE Settled
  BY <1>8, <1>a DEF Settled
<1>9. CASE ClearInput
  BY <1>9, <1>a DEF ClearInput
<1>10. CASE ClearMarks
  BY <1>10, <1>a DEF ClearMarks
<1>11. CASE ClearRefused
  BY <1>11, <1>a DEF ClearRefused
<1>20. ASSUME NEW o \in Orders, ResendExpired(o) PROVE AtBrokerOf(p)'
  BY <1>20, <1>a DEF ResendExpired, Sendable, Judging, Acting
<1>24. ASSUME NEW o \in Orders, CheckUnsendable(o) PROVE AtBrokerOf(p)'
  BY <1>24, <1>a DEF CheckUnsendable, Checking
<1>25. ASSUME NEW o \in Orders, CheckRefused(o) PROVE AtBrokerOf(p)'
  BY <1>25, <1>a DEF CheckRefused, Checking
<1>26. CASE RecordAtBroker
  BY <1>26, <1>a DEF RecordAtBroker, FindingMissing
<1>27. CASE RetireQueue
  BY <1>27, <1>a DEF RetireQueue
<1>28. CASE RetireDecide
  BY <1>28, <1>a DEF RetireDecide
<1>29. CASE RetireMark
  BY <1>29, <1>a DEF RetireMark
<1>31. CASE MarkHandingOver
  BY <1>31, <1>a DEF MarkHandingOver
<1>32. CASE Send
  BY <1>32, <1>a DEF Send, Reaches
<1>35. CASE MarkSent
  BY <1>35, <1>a DEF MarkSent
<1>36. ASSUME NEW o \in Orders, NEW whole \in BOOLEAN, ResolveNotHandedOver(o, whole) PROVE AtBrokerOf(p)'
  BY <1>36, <1>a DEF ResolveNotHandedOver, Resolve
<1>37. ASSUME NEW o \in Orders, NEW whole \in BOOLEAN, ResolveNeverSent(o, whole) PROVE AtBrokerOf(p)'
  BY <1>37, <1>a DEF ResolveNeverSent, Resolve
<1>38. ASSUME NEW o \in Orders, NEW whole \in BOOLEAN, ResolveSent(o, whole) PROVE AtBrokerOf(p)'
  BY <1>38, <1>a DEF ResolveSent, Resolve
<1>39. ASSUME NEW o \in Orders, NEW whole \in BOOLEAN, ResolveResend(o, whole) PROVE AtBrokerOf(p)'
  BY <1>39, <1>a DEF ResolveResend, Resolve
<1>40. ASSUME NEW o \in Orders, NEW writes \in 1..4, ResolveFoundSent(o, writes) PROVE AtBrokerOf(p)'
  BY <1>40, <1>a DEF ResolveFoundSent
<1>41. ASSUME NEW o \in Orders, NEW writes \in 1..3, Retire(o, writes) PROVE AtBrokerOf(p)'
  BY <1>41, <1>a DEF Retire
<1> QED BY <1>q, <1>1, <1>6, <1>7, <1>8, <1>9, <1>10, <1>11, <1>20, <1>24, <1>25, <1>26, <1>27,
         <1>28, <1>29, <1>31, <1>32, <1>35, <1>36, <1>37, <1>38, <1>39, <1>40, <1>41, NamedOrQuiet

\* A step keeps the decision in agreement with the mark.
LEMMA DecisionStep ==
    ASSUME OwnerChecks, RelayInv, PassedFacts, RecordInv, [Next]_vars, NEW p \in Orders
    PROVE  DecisionOf(p)'
<1>a. /\ DecisionOf(p) /\ AtBrokerOf(p) /\ ResendOf(p) /\ OwnInputOf(p) /\ PlaceFacts /\ TypeOK /\ WalkFacts
  BY DEF RecordInv, RelayInv, PermissionFacts
<1>c. /\ pending' = pending => (Awaited(p)' <=> Awaited(p))
      /\ Awaited(p) => pending \in Inputs
      /\ Awaited(p)' => pending' \in Inputs /\ OrderOf(pending', p)
      /\ Inputs \cap Orders = {} /\ None \notin Inputs /\ None \notin Orders
  BY RelayAssumption DEF Awaited, OrderOf
<1>h. todo # <<>> => Head(todo) \in Orders /\ Awaited(Head(todo))
  BY <1>a, AtOrderFacts
<1> USE DEF DecisionOf, PlaceFacts, AtBrokerOf, ResendOf, NeverSentWords, Begun, Told, TypeOK, WalkFacts, AtOrder,
            AtNone, Entries, Marks, recordVars,
            relayVars, brokerVars, calendarVars, ownerVars, OwnerWrites, vars, StopsAt, PassOver
<1>q. CASE QuietStep
  BY <1>q, <1>a, <1>c DEF QuietStep
<1>1. ASSUME NEW i \in Inputs, RecordInput(i) PROVE DecisionOf(p)'
  BY <1>1, <1>a, <1>c DEF RecordInput
<1>6. ASSUME NEW e \in Entries, TakeEntry(e) PROVE DecisionOf(p)'
  BY <1>6, <1>a DEF TakeEntry
<1>7. CASE Ask
  BY <1>7, <1>a DEF Ask
<1>8. CASE Settled
  BY <1>8, <1>a DEF Settled
<1>9. CASE ClearInput
  BY <1>9, <1>a, <1>c DEF ClearInput
<1>10. CASE ClearMarks
  BY <1>10 DEF ClearMarks
<1>11. CASE ClearRefused
  BY <1>11, <1>a DEF ClearRefused
<1>20. ASSUME NEW o \in Orders, ResendExpired(o) PROVE DecisionOf(p)'
  BY <1>20, <1>a DEF ResendExpired, Sendable, Judging, Acting
<1>24. ASSUME NEW o \in Orders, CheckUnsendable(o) PROVE DecisionOf(p)'
  BY <1>24, <1>a DEF CheckUnsendable, Checking
<1>25. ASSUME NEW o \in Orders, CheckRefused(o) PROVE DecisionOf(p)'
  BY <1>25, <1>a DEF CheckRefused, Checking
<1>26. CASE RecordAtBroker
  BY <1>26, <1>a DEF RecordAtBroker, FindingMissing
<1>27. CASE RetireQueue
  BY <1>27, <1>a DEF RetireQueue
<1>28. CASE RetireDecide
  BY <1>28, <1>a DEF RetireDecide
<1>29. CASE RetireMark
  BY <1>29, <1>a DEF RetireMark
<1>31. CASE MarkHandingOver
  BY <1>31, <1>a DEF MarkHandingOver
<1>32. CASE Send
  BY <1>32, <1>a DEF Send, Reaches
<1>35. CASE MarkSent
  BY <1>35, <1>a DEF MarkSent
<1>36. ASSUME NEW o \in Orders, NEW whole \in BOOLEAN, ResolveNotHandedOver(o, whole) PROVE DecisionOf(p)'
  BY <1>36, <1>a DEF ResolveNotHandedOver, Resolve
<1>37. ASSUME NEW o \in Orders, NEW whole \in BOOLEAN, ResolveNeverSent(o, whole) PROVE DecisionOf(p)'
  BY <1>37, <1>a DEF ResolveNeverSent, Resolve
<1>38. ASSUME NEW o \in Orders, NEW whole \in BOOLEAN, ResolveSent(o, whole) PROVE DecisionOf(p)'
  BY <1>38, <1>a DEF ResolveSent, Resolve
<1>39. ASSUME NEW o \in Orders, NEW whole \in BOOLEAN, ResolveResend(o, whole) PROVE DecisionOf(p)'
  BY <1>39, <1>a DEF ResolveResend, Resolve
<1>40. ASSUME NEW o \in Orders, NEW writes \in 1..4, ResolveFoundSent(o, writes) PROVE DecisionOf(p)'
  BY <1>40, <1>a DEF ResolveFoundSent
<1>41. ASSUME NEW o \in Orders, NEW writes \in 1..3, Retire(o, writes) PROVE DecisionOf(p)'
  BY <1>41, <1>a DEF Retire
<1> QED BY <1>q, <1>1, <1>6, <1>7, <1>8, <1>9, <1>10, <1>11, <1>20, <1>24, <1>25, <1>26, <1>27,
         <1>28, <1>29, <1>31, <1>32, <1>35, <1>36, <1>37, <1>38, <1>39, <1>40, <1>41, NamedOrQuiet

\* A step keeps the decision of a retirement that was cut short.
LEMMA CutShortStep ==
    ASSUME OwnerChecks, RelayInv, PassedFacts, RecordInv, [Next]_vars, NEW p \in Orders
    PROVE  CutShortOf(p)'
<1>a. /\ CutShortOf(p) /\ OwnInputOf(p) /\ PlaceFacts /\ TypeOK /\ WalkFacts
  BY DEF RecordInv, RelayInv, PermissionFacts
<1>c. /\ pending' = pending => (Awaited(p)' <=> Awaited(p))
      /\ Awaited(p) => pending \in Inputs
      /\ Awaited(p)' => pending' \in Inputs /\ OrderOf(pending', p)
      /\ Inputs \cap Orders = {} /\ None \notin Inputs /\ None \notin Orders
  BY RelayAssumption DEF Awaited, OrderOf
<1>h. todo # <<>> => Head(todo) \in Orders /\ Awaited(Head(todo))
  BY <1>a, AtOrderFacts
<1> USE DEF CutShortOf, PlaceFacts, OwnInputOf, NeverSentWords, Begun, Told, TypeOK, WalkFacts, AtOrder, AtNone,
            Entries, Marks, recordVars,
            relayVars, brokerVars, calendarVars, ownerVars, OwnerWrites, vars, StopsAt, PassOver
<1>q. CASE QuietStep
  BY <1>q, <1>a, <1>c DEF QuietStep
<1>1. ASSUME NEW i \in Inputs, RecordInput(i) PROVE CutShortOf(p)'
  BY <1>1, <1>a, <1>c DEF RecordInput
<1>6. ASSUME NEW e \in Entries, TakeEntry(e) PROVE CutShortOf(p)'
  BY <1>6, <1>a, <1>c DEF TakeEntry
<1>7. CASE Ask
  BY <1>7, <1>a, <1>c DEF Ask
<1>8. CASE Settled
  BY <1>8, <1>a, <1>c DEF Settled
<1>9. CASE ClearInput
  BY <1>9, <1>c DEF ClearInput
<1>10. CASE ClearMarks
  BY <1>10, <1>a, <1>c DEF ClearMarks
<1>11. CASE ClearRefused
  BY <1>11, <1>a, <1>c DEF ClearRefused
<1>20. ASSUME NEW o \in Orders, ResendExpired(o) PROVE CutShortOf(p)'
  BY <1>20, <1>a, <1>c DEF ResendExpired, Sendable, Judging, Acting
<1>24. ASSUME NEW o \in Orders, CheckUnsendable(o) PROVE CutShortOf(p)'
  BY <1>24, <1>a, <1>c DEF CheckUnsendable, Checking
<1>25. ASSUME NEW o \in Orders, CheckRefused(o) PROVE CutShortOf(p)'
  BY <1>25, <1>a, <1>c DEF CheckRefused, Checking
<1>26. CASE RecordAtBroker
  BY <1>26, <1>a, <1>c DEF RecordAtBroker, FindingMissing
<1>27. CASE RetireQueue
  BY <1>27, <1>a, <1>c DEF RetireQueue
<1>28. CASE RetireDecide
  BY <1>28, <1>a, <1>c DEF RetireDecide
<1>29. CASE RetireMark
  BY <1>29, <1>a, <1>c DEF RetireMark
<1>31. CASE MarkHandingOver
  BY <1>31, <1>a, <1>c DEF MarkHandingOver
<1>32. CASE Send
  BY <1>32, <1>a, <1>c DEF Send, Reaches
<1>35. CASE MarkSent
  BY <1>35, <1>a, <1>c DEF MarkSent
<1>36. ASSUME NEW o \in Orders, NEW whole \in BOOLEAN, ResolveNotHandedOver(o, whole) PROVE CutShortOf(p)'
  BY <1>36, <1>a, <1>c DEF ResolveNotHandedOver, Resolve
<1>37. ASSUME NEW o \in Orders, NEW whole \in BOOLEAN, ResolveNeverSent(o, whole) PROVE CutShortOf(p)'
  BY <1>37, <1>a, <1>c DEF ResolveNeverSent, Resolve
<1>38. ASSUME NEW o \in Orders, NEW whole \in BOOLEAN, ResolveSent(o, whole) PROVE CutShortOf(p)'
  BY <1>38, <1>a, <1>c DEF ResolveSent, Resolve
<1>39. ASSUME NEW o \in Orders, NEW whole \in BOOLEAN, ResolveResend(o, whole) PROVE CutShortOf(p)'
  BY <1>39, <1>a, <1>c DEF ResolveResend, Resolve
<1>40. ASSUME NEW o \in Orders, NEW writes \in 1..4, ResolveFoundSent(o, writes) PROVE CutShortOf(p)'
  BY <1>40, <1>a, <1>c DEF ResolveFoundSent
<1>41. ASSUME NEW o \in Orders, NEW writes \in 1..3, Retire(o, writes) PROVE CutShortOf(p)'
  BY <1>41, <1>a, <1>c DEF Retire
<1> QED BY <1>q, <1>1, <1>6, <1>7, <1>8, <1>9, <1>10, <1>11, <1>20, <1>24, <1>25, <1>26, <1>27,
         <1>28, <1>29, <1>31, <1>32, <1>35, <1>36, <1>37, <1>38, <1>39, <1>40, <1>41, NamedOrQuiet

\* A step makes no retirement of an order found at IBKR deliverable.
LEMMA FoundStep ==
    ASSUME OwnerChecks, RelayInv, PassedFacts, RecordInv, [Next]_vars, NEW p \in Orders
    PROVE  FoundOf(p)'
<1>a. /\ FoundOf(p) /\ OwnInputOf(p) /\ AtBrokerOf(p) /\ WordOf(p) /\ PlaceFacts /\ TypeOK /\ WalkFacts
  BY DEF RecordInv, RelayInv, PermissionFacts
<1>c. /\ pending' = pending => (Awaited(p)' <=> Awaited(p))
      /\ Awaited(p) => pending \in Inputs
      /\ Awaited(p)' => pending' \in Inputs /\ OrderOf(pending', p)
      /\ Inputs \cap Orders = {} /\ None \notin Inputs /\ None \notin Orders
  BY RelayAssumption DEF Awaited, OrderOf
<1>h. todo # <<>> => Head(todo) \in Orders /\ Awaited(Head(todo))
  BY <1>a, AtOrderFacts
<1> USE DEF FoundOf, PlaceFacts, OwnInputOf, AtBrokerOf, WordOf, Deliverable, KnownAtBroker, NotAtIBKR, Begun,
            Told, TypeOK, WalkFacts, AtOrder, AtNone, Entries, Marks, recordVars,
            relayVars, brokerVars, calendarVars, ownerVars, OwnerWrites, vars, StopsAt, PassOver
<1>q. CASE QuietStep
  BY <1>q, <1>a, <1>c DEF QuietStep
<1>1. ASSUME NEW i \in Inputs, RecordInput(i) PROVE FoundOf(p)'
  BY <1>1, <1>a, <1>c DEF RecordInput
<1>6. ASSUME NEW e \in Entries, TakeEntry(e) PROVE FoundOf(p)'
  BY <1>6, <1>a, <1>c DEF TakeEntry
<1>7. CASE Ask
  BY <1>7, <1>a, <1>c DEF Ask
<1>8. CASE Settled
  BY <1>8, <1>a, <1>c DEF Settled
<1>9. CASE ClearInput
  BY <1>9, <1>a, <1>c DEF ClearInput
<1>10. CASE ClearMarks
  BY <1>10, <1>a, <1>c DEF ClearMarks
<1>11. CASE ClearRefused
  BY <1>11, <1>a, <1>c DEF ClearRefused
<1>20. ASSUME NEW o \in Orders, ResendExpired(o) PROVE FoundOf(p)'
  BY <1>20, <1>a, <1>c DEF ResendExpired, Sendable, Judging, Acting
<1>24. ASSUME NEW o \in Orders, CheckUnsendable(o) PROVE FoundOf(p)'
  BY <1>24, <1>a, <1>c DEF CheckUnsendable, Checking
<1>25. ASSUME NEW o \in Orders, CheckRefused(o) PROVE FoundOf(p)'
  BY <1>25, <1>a, <1>c DEF CheckRefused, Checking
<1>26. CASE RecordAtBroker
  BY <1>26, <1>a, <1>c, <1>h DEF RecordAtBroker, FindingMissing
<1>27. CASE RetireQueue
  BY <1>27, <1>a, <1>c DEF RetireQueue
<1>28. CASE RetireDecide
  BY <1>28, <1>a, <1>c DEF RetireDecide
<1>29. CASE RetireMark
  BY <1>29, <1>a, <1>c DEF RetireMark
<1>31. CASE MarkHandingOver
  BY <1>31, <1>a, <1>c DEF MarkHandingOver
<1>32. CASE Send
  BY <1>32, <1>a, <1>c DEF Send, Reaches
<1>35. CASE MarkSent
  BY <1>35, <1>a, <1>c DEF MarkSent
<1>36. ASSUME NEW o \in Orders, NEW whole \in BOOLEAN, ResolveNotHandedOver(o, whole) PROVE FoundOf(p)'
  BY <1>36, <1>a, <1>c DEF ResolveNotHandedOver, Resolve
<1>37. ASSUME NEW o \in Orders, NEW whole \in BOOLEAN, ResolveNeverSent(o, whole) PROVE FoundOf(p)'
  BY <1>37, <1>a, <1>c DEF ResolveNeverSent, Resolve
<1>38. ASSUME NEW o \in Orders, NEW whole \in BOOLEAN, ResolveSent(o, whole) PROVE FoundOf(p)'
  BY <1>38, <1>a, <1>c DEF ResolveSent, Resolve
<1>39. ASSUME NEW o \in Orders, NEW whole \in BOOLEAN, ResolveResend(o, whole) PROVE FoundOf(p)'
  BY <1>39, <1>a, <1>c DEF ResolveResend, Resolve
<1>40. ASSUME NEW o \in Orders, NEW writes \in 1..4, ResolveFoundSent(o, writes) PROVE FoundOf(p)'
  BY <1>40, <1>a, <1>c DEF ResolveFoundSent
<1>41. ASSUME NEW o \in Orders, NEW writes \in 1..3, Retire(o, writes) PROVE FoundOf(p)'
  BY <1>41, <1>a, <1>c DEF Retire
<1> QED BY <1>q, <1>1, <1>6, <1>7, <1>8, <1>9, <1>10, <1>11, <1>20, <1>24, <1>25, <1>26, <1>27,
         <1>28, <1>29, <1>31, <1>32, <1>35, <1>36, <1>37, <1>38, <1>39, <1>40, <1>41, NamedOrQuiet

\* A step keeps what the process knows IBKR has apart from what was found there.
LEMMA HandedStep ==
    ASSUME OwnerChecks, RelayInv, PassedFacts, RecordInv, [Next]_vars, NEW p \in Orders
    PROVE  HandedOf(p)'
<1>a. /\ HandedOf(p) /\ FoundOf(p) /\ PlaceFacts /\ TypeOK /\ WalkFacts
  BY DEF RecordInv, RelayInv, PermissionFacts
<1>c. /\ pending' = pending => (Awaited(p)' <=> Awaited(p))
      /\ Awaited(p) => pending \in Inputs
      /\ Awaited(p)' => pending' \in Inputs /\ OrderOf(pending', p)
      /\ Inputs \cap Orders = {} /\ None \notin Inputs /\ None \notin Orders
  BY RelayAssumption DEF Awaited, OrderOf
<1>h. todo # <<>> => Head(todo) \in Orders /\ Awaited(Head(todo))
  BY <1>a, AtOrderFacts
<1>n. \/ handed' \subseteq handed \/ MarkSent
      \/ \E o \in Orders : BrokerHasIt(o)
  BY <1>a, SMTT(60) DEF Next, RelayStep, OwnerStep, vars, relayVars, OwnerWrites, StopsAt, TypeOK,
     RecordInput, Show, NextDay, Start, Crash, TakeEntry, Ask, Settled, ClearInput, ClearMarks, ClearRefused,
     ClearUnhanded, AlreadySent, ReadBroker, FindAtBroker, FinishRetirement, PassNeverSent,
     HandoverUnconfirmed, ResendExpired, Judge, CheckPasses, CheckSessionOver,
     CheckUnsendable, CheckRefused, RecordAtBroker, RetireQueue, RetireDecide, RetireMark, ForgetUnhanded,
     MarkHandingOver, Send, SendNotHandedOver, NoteNotHandedOver, Resolve, ResolveNotHandedOver,
     ResolveNeverSent, ResolveSent, ResolveResend, ResolveFoundSent, Retire
<1>m. ASSUME NEW o \in Orders, BrokerHasIt(o) PROVE HandedOf(p)'
  <2>1. Awaited(o) /\ broker[o] # "none" /\ marks[o] # "sent" /\ ~KnownAtBroker(o)
    BY <1>h, <1>m DEF BrokerHasIt, Sendable, Judging, Acting, PassedFacts
  <2> QED BY <1>a, <1>m, <2>1 DEF BrokerHasIt, HandedOf, FoundOf, recordVars, brokerVars
<1> USE DEF HandedOf, PlaceFacts, Begun, Told, TypeOK, WalkFacts, AtOrder, AtNone, Entries, Marks, recordVars,
            relayVars, brokerVars, calendarVars, ownerVars, OwnerWrites, vars, StopsAt, PassOver
<1>q. ASSUME QuietStep, ~MarkSent PROVE HandedOf(p)'
  BY <1>q, <1>a, <1>n, <1>m DEF QuietStep
<1>1. ASSUME NEW i \in Inputs, RecordInput(i) PROVE HandedOf(p)'
  BY <1>1, <1>a, <1>c DEF RecordInput
<1>6. ASSUME NEW e \in Entries, TakeEntry(e) PROVE HandedOf(p)'
  BY <1>6, <1>a DEF TakeEntry
<1>7. CASE Ask
  BY <1>7, <1>a DEF Ask
<1>8. CASE Settled
  BY <1>8, <1>a DEF Settled
<1>9. CASE ClearInput
  BY <1>9, <1>a DEF ClearInput
<1>10. CASE ClearMarks
  BY <1>10, <1>a DEF ClearMarks
<1>11. CASE ClearRefused
  BY <1>11, <1>a DEF ClearRefused
<1>20. ASSUME NEW o \in Orders, ResendExpired(o) PROVE HandedOf(p)'
  BY <1>20 DEF ResendExpired, Sendable, Judging, Acting
<1>24. ASSUME NEW o \in Orders, CheckUnsendable(o) PROVE HandedOf(p)'
  BY <1>24 DEF CheckUnsendable, Checking
<1>25. ASSUME NEW o \in Orders, CheckRefused(o) PROVE HandedOf(p)'
  BY <1>25, <1>a DEF CheckRefused, Checking
<1>26. CASE RecordAtBroker
  <2>1. handed' \subseteq handed /\ outbox' \subseteq outbox /\ broker' = broker
    BY <1>26 DEF RecordAtBroker
  <2>2. Head(todo) \notin handed /\ found' \subseteq found \cup {Head(todo)}
    BY <1>26, <1>a DEF RecordAtBroker
  <2> QED BY <1>a, <2>1, <2>2
<1>27. CASE RetireQueue
  BY <1>27, <1>a DEF RetireQueue
<1>28. CASE RetireDecide
  BY <1>28, <1>a DEF RetireDecide
<1>29. CASE RetireMark
  BY <1>29, <1>a DEF RetireMark
<1>31. CASE MarkHandingOver
  BY <1>31, <1>a DEF MarkHandingOver
<1>32. CASE Send
  BY <1>32, <1>a DEF Send, Reaches
<1>35. CASE MarkSent
  BY <1>35, <1>a DEF MarkSent
<1>36. ASSUME NEW o \in Orders, NEW whole \in BOOLEAN, ResolveNotHandedOver(o, whole) PROVE HandedOf(p)'
  BY <1>36, <1>a DEF ResolveNotHandedOver, Resolve
<1>37. ASSUME NEW o \in Orders, NEW whole \in BOOLEAN, ResolveNeverSent(o, whole) PROVE HandedOf(p)'
  BY <1>37, <1>a DEF ResolveNeverSent, Resolve
<1>38. ASSUME NEW o \in Orders, NEW whole \in BOOLEAN, ResolveSent(o, whole) PROVE HandedOf(p)'
  BY <1>38, <1>a DEF ResolveSent, Resolve
<1>39. ASSUME NEW o \in Orders, NEW whole \in BOOLEAN, ResolveResend(o, whole) PROVE HandedOf(p)'
  BY <1>39, <1>a DEF ResolveResend, Resolve
<1>40. ASSUME NEW o \in Orders, NEW writes \in 1..4, ResolveFoundSent(o, writes) PROVE HandedOf(p)'
  BY <1>40, <1>a DEF ResolveFoundSent
<1>41. ASSUME NEW o \in Orders, NEW writes \in 1..3, Retire(o, writes) PROVE HandedOf(p)'
  BY <1>41, <1>a DEF Retire
<1> QED BY <1>q, <1>1, <1>6, <1>7, <1>8, <1>9, <1>10, <1>11, <1>20, <1>24, <1>25, <1>26, <1>27,
         <1>28, <1>29, <1>31, <1>32, <1>35, <1>36, <1>37, <1>38, <1>39, <1>40, <1>41, NamedOrQuiet

\* A step passes no order over whose retirement was begun unless it is settled as never sent.
LEMMA WordStep ==
    ASSUME OwnerChecks, RelayInv, PassedFacts, RecordInv, [Next]_vars, NEW p \in Orders
    PROVE  WordOf(p)'
<1>a. /\ WordOf(p) /\ FoundOf(p) /\ HandedOf(p) /\ DecisionOf(p) /\ ResendOf(p) /\ OwnInputOf(p)
      /\ AtBrokerOf(p) /\ PlaceFacts /\ TypeOK /\ WalkFacts
  BY DEF RecordInv, RelayInv, PermissionFacts
<1>c. /\ pending' = pending => (Awaited(p)' <=> Awaited(p))
      /\ Awaited(p) => pending \in Inputs
      /\ Awaited(p)' => pending' \in Inputs /\ OrderOf(pending', p)
      /\ Inputs \cap Orders = {} /\ None \notin Inputs /\ None \notin Orders
  BY RelayAssumption DEF Awaited, OrderOf
<1>h. todo # <<>> => Head(todo) \in Orders /\ Awaited(Head(todo))
  BY <1>a, AtOrderFacts
<1>l. /\ todo' = todo => (LeftIn(todo, p)' <=> LeftIn(todo, p))
      /\ todo # <<>> /\ todo' = Tail(todo) /\ LeftIn(todo, p) /\ p # Head(todo) => LeftIn(todo, p)'
      /\ \A i \in Inputs : todo' = OrdersOf[i] /\ OrderOf(i, p) => LeftIn(todo, p)'
      /\ todo = <<>> => ~LeftIn(todo, p)
      /\ todo # <<>> /\ p = Head(todo) => LeftIn(todo, p)
  <2>1. todo # <<>> /\ LeftIn(todo, p) /\ p # Head(todo) => LeftIn(Tail(todo), p)
    BY <1>a, LeftAfterHead DEF TypeOK
  <2>2. \A i \in Inputs : OrderOf(i, p) => LeftIn(OrdersOf[i], p)
    BY ReplyLeft
  <2>3. \A orders : todo' = orders => (LeftIn(todo, p)' <=> LeftIn(orders, p))
    BY DEF LeftIn
  <2>4. todo = <<>> => ~LeftIn(todo, p)
    BY DEF LeftIn
  <2>5. todo # <<>> /\ p = Head(todo) => LeftIn(todo, p)
    BY <1>a, HeadLeft DEF TypeOK
  <2> QED BY <2>1, <2>2, <2>3, <2>4, <2>5
<1> USE DEF WordOf, FoundOf, HandedOf, DecisionOf, ResendOf, AtBrokerOf, OwnInputOf, PlaceFacts, Deliverable, Worded,
            NeverSentWords, Begun, Told, TypeOK, WalkFacts, AtOrder, AtNone, Entries, Marks, recordVars,
            relayVars, brokerVars, calendarVars, ownerVars, OwnerWrites, vars, StopsAt, PassOver
<1>1. ASSUME NEW i \in Inputs, RecordInput(i) PROVE WordOf(p)'
  BY <1>1, <1>a, <1>c DEF RecordInput
<1>2. ASSUME NEW o \in Orders, Show(o) PROVE WordOf(p)'
  BY <1>2, <1>a, <1>c DEF Show
<1>3. CASE NextDay
  BY <1>3, <1>a, <1>c DEF NextDay
<1>4. CASE Start
  BY <1>4, <1>a, <1>c DEF Start
<1>5. CASE Crash
  BY <1>5, <1>a, <1>c DEF Crash
<1>6. ASSUME NEW e \in Entries, TakeEntry(e) PROVE WordOf(p)'
  BY <1>6, <1>a, <1>c DEF TakeEntry
<1>7. CASE Ask
  BY <1>7, <1>a, <1>c, <1>l DEF Ask
<1>8. CASE Settled
  BY <1>8, <1>a, <1>l DEF Settled
<1>9. CASE ClearInput
  BY <1>9, <1>a, <1>c DEF ClearInput
<1>10. CASE ClearMarks
  BY <1>10, <1>a, <1>c DEF ClearMarks
<1>11. CASE ClearRefused
  BY <1>11, <1>a, <1>c DEF ClearRefused
<1>12. CASE ClearUnhanded
  BY <1>12, <1>a, <1>c DEF ClearUnhanded
<1>13. ASSUME NEW o \in Orders, AlreadySent(o) PROVE WordOf(p)'
  BY <1>13, <1>a, <1>c, <1>l DEF AlreadySent, Acting, NeedsBroker, KnownAtBroker
<1>14. ASSUME NEW o \in Orders, ReadBroker(o) PROVE WordOf(p)'
  BY <1>14, <1>a, <1>c DEF ReadBroker, Acting
<1>15. ASSUME NEW o \in Orders, FindAtBroker(o) PROVE WordOf(p)'
  BY <1>15, <1>a, <1>c DEF FindAtBroker, Judging, Acting
<1>16. ASSUME NEW o \in Orders, FinishRetirement(o) PROVE WordOf(p)'
  BY <1>16, <1>a, <1>c DEF FinishRetirement, Judging, Acting
<1>17. ASSUME NEW o \in Orders, PassNeverSent(o) PROVE WordOf(p)'
  BY <1>17, <1>a, <1>c, <1>l DEF PassNeverSent, Judging, Acting
<1>18. ASSUME NEW o \in Orders, BrokerHasIt(o) PROVE WordOf(p)'
  BY <1>18, <1>a, <1>c, <1>l DEF BrokerHasIt, Sendable, Judging, Acting, PassedFacts
<1>19. ASSUME NEW o \in Orders, HandoverUnconfirmed(o) PROVE WordOf(p)'
  BY <1>19, <1>a, <1>c DEF HandoverUnconfirmed
<1>20. ASSUME NEW o \in Orders, ResendExpired(o) PROVE WordOf(p)'
  BY <1>20, <1>a, <1>c DEF ResendExpired, Sendable, Judging, Acting
<1>21. ASSUME NEW o \in Orders, Judge(o) PROVE WordOf(p)'
  BY <1>21, <1>a, <1>c DEF Judge, Sendable, Judging, Acting
<1>22. ASSUME NEW o \in Orders, CheckPasses(o) PROVE WordOf(p)'
  BY <1>22, <1>a, <1>c DEF CheckPasses, Checking
<1>23. ASSUME NEW o \in Orders, CheckSessionOver(o) PROVE WordOf(p)'
  BY <1>23, <1>a, <1>c DEF CheckSessionOver, Checking
<1>24. ASSUME NEW o \in Orders, CheckUnsendable(o) PROVE WordOf(p)'
  BY <1>24, <1>a, <1>c DEF CheckUnsendable, Checking
<1>25. ASSUME NEW o \in Orders, CheckRefused(o) PROVE WordOf(p)'
  BY <1>25, <1>a, <1>c DEF CheckRefused, Checking
<1>26. CASE RecordAtBroker
  BY <1>26, <1>a, <1>c, <1>h, <1>l DEF RecordAtBroker, FindingMissing
<1>27. CASE RetireQueue
  BY <1>27, <1>a, <1>c, <1>h, <1>l DEF RetireQueue
<1>28. CASE RetireDecide
  BY <1>28, <1>a, <1>c DEF RetireDecide
<1>29. CASE RetireMark
  BY <1>29, <1>a, <1>c, <1>l DEF RetireMark
<1>30. CASE ForgetUnhanded
  BY <1>30, <1>a, <1>c DEF ForgetUnhanded
<1>31. CASE MarkHandingOver
  BY <1>31, <1>a, <1>c DEF MarkHandingOver
<1>32. CASE Send
  BY <1>32, <1>a, <1>c DEF Send, Reaches
<1>33. CASE SendNotHandedOver
  BY <1>33, <1>a, <1>c DEF SendNotHandedOver
<1>34. CASE NoteNotHandedOver
  BY <1>34, <1>a, <1>c DEF NoteNotHandedOver
<1>35. CASE MarkSent
  BY <1>35, <1>a, <1>c, <1>l DEF MarkSent
<1>36. ASSUME NEW o \in Orders, NEW whole \in BOOLEAN, ResolveNotHandedOver(o, whole) PROVE WordOf(p)'
  BY <1>36, <1>a, <1>c DEF ResolveNotHandedOver, Resolve
<1>37. ASSUME NEW o \in Orders, NEW whole \in BOOLEAN, ResolveNeverSent(o, whole) PROVE WordOf(p)'
  BY <1>37, <1>a, <1>c DEF ResolveNeverSent, Resolve
<1>38. ASSUME NEW o \in Orders, NEW whole \in BOOLEAN, ResolveSent(o, whole) PROVE WordOf(p)'
  BY <1>38, <1>a, <1>c DEF ResolveSent, Resolve
<1>39. ASSUME NEW o \in Orders, NEW whole \in BOOLEAN, ResolveResend(o, whole) PROVE WordOf(p)'
  BY <1>39, <1>a, <1>c DEF ResolveResend, Resolve
<1>40. ASSUME NEW o \in Orders, NEW writes \in 1..4, ResolveFoundSent(o, writes) PROVE WordOf(p)'
  BY <1>40, <1>a, <1>c DEF ResolveFoundSent
<1>41. ASSUME NEW o \in Orders, NEW writes \in 1..3, Retire(o, writes) PROVE WordOf(p)'
  BY <1>41, <1>a, <1>c DEF Retire
<1>42. CASE UNCHANGED vars
  BY <1>42, <1>a, <1>c
<1> QED BY <1>1, <1>2, <1>3, <1>4, <1>5, <1>6, <1>7, <1>8, <1>9, <1>10, <1>11, <1>12,
         <1>13, <1>14, <1>15, <1>16, <1>17, <1>18, <1>19, <1>20, <1>21, <1>22, <1>23,
         <1>24, <1>25, <1>26, <1>27, <1>28, <1>29, <1>30, <1>31, <1>32, <1>33, <1>34,
         <1>35, <1>36, <1>37, <1>38, <1>39, <1>40, <1>41, <1>42
      DEF Next, RelayStep, OwnerStep

\* A step keeps what each place of the process relies on.
LEMMA PlaceStep ==
    ASSUME OwnerChecks, RelayInv, PassedFacts, RecordInv, [Next]_vars
    PROVE  PlaceFacts'
<1>a. /\ PlaceFacts /\ DatedFacts /\ TypeOK /\ WalkFacts
  BY DEF RecordInv, RelayInv, PermissionFacts
<1>h. todo # <<>> => Head(todo) \in Orders /\ Awaited(Head(todo)) /\ pending \in Inputs
  BY <1>a, AtOrderFacts
<1>o. todo # <<>> => LET h == Head(todo) IN
          /\ OwnInputOf(h) /\ ResendOf(h) /\ AtBrokerOf(h) /\ CutShortOf(h) /\ FoundOf(h) /\ PermissionOf(h)
  BY <1>h DEF RecordInv, RelayInv, PermissionFacts
<1>i. Inputs \cap Orders = {} /\ None \notin Inputs /\ None \notin Orders
  BY RelayAssumption
<1> USE DEF PlaceFacts, DatedFacts, OwnInputOf, ResendOf, AtBrokerOf, CutShortOf, FoundOf, KnownAtBroker,
            RetirementBegun, NeedsBroker, NeverSentWords, PermissionOf, MaySend, Begun, Told, TypeOK, WalkFacts,
            AtOrder, AtNone, Entries, Marks, recordVars,
            relayVars, brokerVars, calendarVars, ownerVars, OwnerWrites, vars, StopsAt, PassOver
<1>1. ASSUME NEW i \in Inputs, RecordInput(i) PROVE PlaceFacts'
  BY <1>1, <1>a, <1>i, SMTT(60) DEF RecordInput
<1>2. ASSUME NEW o \in Orders, Show(o) PROVE PlaceFacts'
  BY <1>2, <1>a DEF Show
<1>3. CASE NextDay
  BY <1>3, <1>a, SMTT(60) DEF NextDay
<1>4. CASE Start
  BY <1>4 DEF Start
<1>5. CASE Crash
  BY <1>5 DEF Crash
<1>6. ASSUME NEW e \in Entries, TakeEntry(e) PROVE PlaceFacts'
  BY <1>6 DEF TakeEntry
<1>7. CASE Ask
  BY <1>7 DEF Ask
<1>8. CASE Settled
  BY <1>8 DEF Settled
<1>9. CASE ClearInput
  BY <1>9 DEF ClearInput
<1>10. CASE ClearMarks
  BY <1>10 DEF ClearMarks
<1>11. CASE ClearRefused
  BY <1>11 DEF ClearRefused
<1>12. CASE ClearUnhanded
  BY <1>12 DEF ClearUnhanded
<1>13. ASSUME NEW o \in Orders, AlreadySent(o) PROVE PlaceFacts'
  BY <1>13 DEF AlreadySent, Acting
<1>14. ASSUME NEW o \in Orders, ReadBroker(o) PROVE PlaceFacts'
  BY <1>14 DEF ReadBroker, Acting
<1>15. ASSUME NEW o \in Orders, FindAtBroker(o) PROVE PlaceFacts'
  BY <1>15, <1>o DEF FindAtBroker, Judging, Acting, PassedFacts
<1>16. ASSUME NEW o \in Orders, FinishRetirement(o) PROVE PlaceFacts'
  BY <1>16, <1>h, <1>o DEF FinishRetirement, Judging, Acting
<1>17. ASSUME NEW o \in Orders, PassNeverSent(o) PROVE PlaceFacts'
  BY <1>17 DEF PassNeverSent, Judging, Acting
<1>18. ASSUME NEW o \in Orders, BrokerHasIt(o) PROVE PlaceFacts'
  BY <1>18 DEF BrokerHasIt, Sendable, Judging, Acting
<1>19. ASSUME NEW o \in Orders, HandoverUnconfirmed(o) PROVE PlaceFacts'
  BY <1>19 DEF HandoverUnconfirmed
<1>20. ASSUME NEW o \in Orders, ResendExpired(o) PROVE PlaceFacts'
  BY <1>20 DEF ResendExpired, Sendable, Judging, Acting
<1>21. ASSUME NEW o \in Orders, Judge(o) PROVE PlaceFacts'
  BY <1>21, <1>a, <1>h, <1>o DEF Judge, Sendable, Judging, Acting
<1>22. ASSUME NEW o \in Orders, CheckPasses(o) PROVE PlaceFacts'
  BY <1>22, <1>a DEF CheckPasses, Checking
<1>23. ASSUME NEW o \in Orders, CheckSessionOver(o) PROVE PlaceFacts'
  BY <1>23, <1>a, <1>h, <1>o DEF CheckSessionOver, Checking
<1>24. ASSUME NEW o \in Orders, CheckUnsendable(o) PROVE PlaceFacts'
  BY <1>24 DEF CheckUnsendable, Checking
<1>25. ASSUME NEW o \in Orders, CheckRefused(o) PROVE PlaceFacts'
  BY <1>25 DEF CheckRefused, Checking
<1>26. CASE RecordAtBroker
  BY <1>26, <1>a, <1>o, SMTT(60) DEF RecordAtBroker, FindingMissing
<1>27. CASE RetireQueue
  BY <1>27, <1>a DEF RetireQueue
<1>28. CASE RetireDecide
  BY <1>28, <1>a DEF RetireDecide
<1>29. CASE RetireMark
  BY <1>29 DEF RetireMark
<1>30. CASE ForgetUnhanded
  BY <1>30, <1>a DEF ForgetUnhanded
<1>31. CASE MarkHandingOver
  BY <1>31, <1>a DEF MarkHandingOver
<1>32. CASE Send
  BY <1>32, <1>a DEF Send, Reaches
<1>33. CASE SendNotHandedOver
  BY <1>33, <1>a DEF SendNotHandedOver
<1>34. CASE NoteNotHandedOver
  BY <1>34 DEF NoteNotHandedOver
<1>35. CASE MarkSent
  BY <1>35 DEF MarkSent
<1>36. ASSUME NEW o \in Orders, NEW whole \in BOOLEAN, ResolveNotHandedOver(o, whole) PROVE PlaceFacts'
  BY <1>36, <1>a DEF ResolveNotHandedOver, Resolve
<1>37. ASSUME NEW o \in Orders, NEW whole \in BOOLEAN, ResolveNeverSent(o, whole) PROVE PlaceFacts'
  BY <1>37, <1>a DEF ResolveNeverSent, Resolve
<1>38. ASSUME NEW o \in Orders, NEW whole \in BOOLEAN, ResolveSent(o, whole) PROVE PlaceFacts'
  BY <1>38, <1>a DEF ResolveSent, Resolve
<1>39. ASSUME NEW o \in Orders, NEW whole \in BOOLEAN, ResolveResend(o, whole) PROVE PlaceFacts'
  BY <1>39, <1>a DEF ResolveResend, Resolve
<1>40. ASSUME NEW o \in Orders, NEW writes \in 1..4, ResolveFoundSent(o, writes) PROVE PlaceFacts'
  BY <1>40, <1>a DEF ResolveFoundSent
<1>41. ASSUME NEW o \in Orders, NEW writes \in 1..3, Retire(o, writes) PROVE PlaceFacts'
  BY <1>41, <1>a DEF Retire
<1>42. CASE UNCHANGED vars
  BY <1>42, <1>a
<1> QED BY <1>1, <1>2, <1>3, <1>4, <1>5, <1>6, <1>7, <1>8, <1>9, <1>10, <1>11, <1>12,
         <1>13, <1>14, <1>15, <1>16, <1>17, <1>18, <1>19, <1>20, <1>21, <1>22, <1>23,
         <1>24, <1>25, <1>26, <1>27, <1>28, <1>29, <1>30, <1>31, <1>32, <1>33, <1>34,
         <1>35, <1>36, <1>37, <1>38, <1>39, <1>40, <1>41, <1>42
      DEF Next, RelayStep, OwnerStep

\* A step takes no input that is not dated.
LEMMA DatedStep ==
    ASSUME RelayInv, RecordInv, [Next]_vars
    PROVE  DatedFacts'
<1>a. DatedFacts /\ TypeOK /\ WalkFacts
  BY DEF RecordInv, RelayInv
<1>h. todo # <<>> => Head(todo) \in Orders
  BY <1>a, AtOrderFacts
<1>i. Inputs \cap Orders = {} /\ None \notin Inputs
  BY RelayAssumption
<1> USE DEF DatedFacts, TypeOK, WalkFacts, AtOrder, recordVars, relayVars, brokerVars, calendarVars,
            ownerVars, OwnerWrites
<1>q. CASE QuietStep
  BY <1>q, <1>a DEF QuietStep
<1>1. ASSUME NEW i \in Inputs, RecordInput(i) PROVE DatedFacts'
  BY <1>1, <1>a DEF RecordInput
<1>6. ASSUME NEW e \in Entries, TakeEntry(e) PROVE DatedFacts'
  BY <1>6, <1>a DEF TakeEntry
<1>7. CASE Ask
  BY <1>7, <1>a DEF Ask
<1>8. CASE Settled
  BY <1>8, <1>a DEF Settled
<1>9. CASE ClearInput
  BY <1>9, <1>a, <1>i DEF ClearInput
<1>10. CASE ClearMarks
  BY <1>10, <1>a DEF ClearMarks
<1>11. CASE ClearRefused
  BY <1>11, <1>a DEF ClearRefused
<1>20. ASSUME NEW o \in Orders, ResendExpired(o) PROVE DatedFacts'
  BY <1>20, <1>a DEF ResendExpired, Sendable, Judging, Acting
<1>24. ASSUME NEW o \in Orders, CheckUnsendable(o) PROVE DatedFacts'
  BY <1>24, <1>a DEF CheckUnsendable, Checking
<1>25. ASSUME NEW o \in Orders, CheckRefused(o) PROVE DatedFacts'
  BY <1>25, <1>a DEF CheckRefused, Checking
<1>26. CASE RecordAtBroker
  BY <1>26, <1>a DEF RecordAtBroker, FindingMissing
<1>27. CASE RetireQueue
  BY <1>27, <1>a, <1>i DEF RetireQueue
<1>28. CASE RetireDecide
  BY <1>28, <1>a DEF RetireDecide
<1>29. CASE RetireMark
  BY <1>29, <1>a DEF RetireMark
<1>31. CASE MarkHandingOver
  BY <1>31, <1>a DEF MarkHandingOver
<1>32. CASE Send
  BY <1>32, <1>a DEF Send, Reaches
<1>35. CASE MarkSent
  BY <1>35, <1>a DEF MarkSent
<1>36. ASSUME NEW o \in Orders, NEW whole \in BOOLEAN, ResolveNotHandedOver(o, whole) PROVE DatedFacts'
  BY <1>36, <1>a DEF ResolveNotHandedOver, Resolve
<1>37. ASSUME NEW o \in Orders, NEW whole \in BOOLEAN, ResolveNeverSent(o, whole) PROVE DatedFacts'
  BY <1>37, <1>a DEF ResolveNeverSent, Resolve
<1>38. ASSUME NEW o \in Orders, NEW whole \in BOOLEAN, ResolveSent(o, whole) PROVE DatedFacts'
  BY <1>38, <1>a DEF ResolveSent, Resolve
<1>39. ASSUME NEW o \in Orders, NEW whole \in BOOLEAN, ResolveResend(o, whole) PROVE DatedFacts'
  BY <1>39, <1>a DEF ResolveResend, Resolve
<1>40. ASSUME NEW o \in Orders, NEW writes \in 1..4, ResolveFoundSent(o, writes) PROVE DatedFacts'
  BY <1>40, <1>a DEF ResolveFoundSent
<1>41. ASSUME NEW o \in Orders, NEW writes \in 1..3, Retire(o, writes) PROVE DatedFacts'
  BY <1>41, <1>a, <1>i DEF Retire
<1> QED BY <1>q, <1>1, <1>6, <1>7, <1>8, <1>9, <1>10, <1>11, <1>20, <1>24, <1>25, <1>26, <1>27,
         <1>28, <1>29, <1>31, <1>32, <1>35, <1>36, <1>37, <1>38, <1>39, <1>40, <1>41, NamedOrQuiet

\* With an owner who looks at IBKR first, the record keeps its invariant.
LEMMA RecordInvariant == ASSUME OwnerChecks PROVE Spec => []RecordInv
<1>1. Init => RecordInv
  BY RelayAssumption DEF Init, RecordInv, DatedFacts, PlaceFacts, OwnInputOf, ResendOf, AtBrokerOf,
     DecisionOf, CutShortOf, FoundOf, HandedOf, WordOf, Deliverable, Worded, Begun, Told, Awaited,
     AtOrder, AtNone
<1>2. RelayInv /\ DealtFacts /\ RecordInv /\ [Next]_vars => RecordInv'
  <2> SUFFICES ASSUME RelayInv, DealtFacts, RecordInv, [Next]_vars PROVE RecordInv'
    OBVIOUS
  <2>1. PassedFacts
    BY DEF DealtFacts
  <2>2. DatedFacts' /\ PlaceFacts'
    BY <2>1, DatedStep, PlaceStep
  <2>3. ASSUME NEW p \in Orders
        PROVE  /\ OwnInputOf(p)' /\ ResendOf(p)' /\ AtBrokerOf(p)' /\ DecisionOf(p)'
               /\ CutShortOf(p)' /\ FoundOf(p)' /\ HandedOf(p)' /\ WordOf(p)'
    BY <2>1, OwnInputStep, ResendStep, AtBrokerStep, DecisionStep, CutShortStep, FoundStep,
       HandedStep, WordStep
  <2> QED BY <2>2, <2>3 DEF RecordInv
<1> QED BY <1>1, <1>2, RelayInvariant, DealtInvariant, PTL DEF Spec

\* retire_order and the relay's refusals: an order the engine is told was
\* retired never reached IBKR, and never does afterwards, whatever died or
\* was lost in between, if the owner looks at IBKR before settling an order.
THEOREM RetiredUnsent == ASSUME OwnerChecks PROVE Spec => []RetiredNeverPlaced
<1>1. RecordInv => RetiredNeverPlaced
  BY DEF RecordInv, ResendOf, Begun, Told, RetiredNeverPlaced
<1> QED BY <1>1, RecordInvariant, PTL

\* _record_at_broker: once the relay recorded that IBKR shows an order settled
\* as never sent, the engine is not told it was retired.
THEOREM FoundUntold == ASSUME OwnerChecks PROVE Spec => []FoundNeverRetired
<1>1. RecordInv /\ RelayInv => FoundNeverRetired
  BY DEF RecordInv, RelayInv, TypeOK, FoundOf, Told, FoundNeverRetired
<1> QED BY <1>1, RecordInvariant, RelayInvariant, PTL

\* Settled and TakeEntry: a retirement is delivered only after its own input,
\* and only one the record settles as never sent.
THEOREM RetiredInOrder == ASSUME OwnerChecks PROVE Spec => []RetiredAfterItsInput
<1>1. RecordInv => RetiredAfterItsInput
  BY DEF RecordInv, OwnInputOf, WordOf, Worded, NeverSentWords, Told, RetiredAfterItsInput
<1> QED BY <1>1, RecordInvariant, PTL
=============================================================================
