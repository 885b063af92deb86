----------------------------- MODULE OrderRelay -----------------------------
(***************************************************************************)
(* The adapter's hand-over of the orders a reply releases to IBKR:         *)
(* adapter/ibkr/relay.py (Relay, PendingInput, Outbox, the owner's resolve *)
(* and retire commands), the drain of adapter/ibkr/loop.py that feeds it   *)
(* and the checks of adapter/ibkr/sender.py.                               *)
(*                                                                         *)
(* Every file the adapter keeps is replaced whole and flushed, so a write  *)
(* is one step and the adapter may die between any two.  The engine is     *)
(* what CommittedReply promises: it commits an input once and answers it   *)
(* with the same released orders however often it is asked.  IBKR shows an *)
(* order it took from some moment until the session ends.                  *)
(***************************************************************************)
EXTENDS Naturals, Sequences, FiniteSets

CONSTANTS Inputs,      \* IDs of the inputs the adapter records for the engine
          Orders,      \* client order IDs
          OrdersOf,    \* the orders the reply to each input releases, in emission order
          Unsendable,  \* orders of a shape IBKR can never accept
          Foreign,     \* orders IBKR may show although this record never sent them
          OwnerChecks, \* whether the owner looks an order up at IBKR before settling it
          None,        \* no input, no order
          MaxDay,      \* bound: sessions
          MaxFaults   \* bound: deaths of the adapter, lost replies and reads, refused and failed sends

ASSUME RelayAssumption ==
    /\ OrdersOf \in [Inputs -> Seq(Orders)]
    /\ \A i \in Inputs : \A m, n \in DOMAIN OrdersOf[i] : OrdersOf[i][m] = OrdersOf[i][n] => m = n
    /\ \A i, j \in Inputs : \A m \in DOMAIN OrdersOf[i], n \in DOMAIN OrdersOf[j] :
           OrdersOf[i][m] = OrdersOf[j][n] => i = j
    /\ Unsendable \subseteq Orders /\ Foreign \subseteq Orders
    /\ OwnerChecks \in BOOLEAN
    /\ Inputs \cap Orders = {} /\ None \notin Inputs \cup Orders
    /\ MaxDay \in Nat /\ MaxFaults \in Nat

VARIABLES
    outbox,    \* entries not yet struck off: an input, or an order's retirement (durable)
    pending,   \* PendingInput.path: the entry awaiting its reply, or None (durable)
    marks,     \* the write-ahead record of hand-overs (durable)
    allowed,   \* the session a "resend" mark is dated (durable, with marks)
    last,      \* the last decision recorded for each order (durable, never removed)
    retired,   \* orders with a retirement among the decisions (durable, never removed)
    refused,   \* the order the relay recorded it is refusing, or None (durable)
    unhanded,  \* the order whose hand-over the sender said reached nothing, or None (durable)
    pc,        \* where the adapter process is
    todo,      \* the reply's released orders not yet acted on
    tags,      \* the orders IBKR's lists showed when this settlement read them, or None
    handed,    \* Relay._sent: orders this process knows IBKR has
    committed, \* entries the engine committed: an order here is one it was told is retired
    broker,    \* what IBKR has of each order
    placed,    \* how often each order reached IBKR from this adapter
    day,       \* today's session
    session,   \* the session each input was recorded in, 0 if it is not yet
    faults,    \* faults so far
    permits,   \* history: resend permissions the owner gave
    tried,     \* history: orders handed to the sender
    found      \* history: orders settled never sent that the relay recorded IBKR shows

recordVars   == <<marks, allowed, last, retired, refused, unhanded>>
relayVars    == <<pc, todo, tags, handed>>
brokerVars   == <<broker, placed, tried>>
calendarVars == <<day, session>>
ownerVars    == <<permits>>
vars == <<outbox, pending, committed, recordVars, relayVars, brokerVars, calendarVars,
          faults, ownerVars, found>>

Entries   == Inputs \cup Orders
Marks     == {"none", "handing-over", "sent", "never-sent", "at-broker", "resend"}
Decisions == {"none", "sent", "resend", "never-sent", "not-handed-over", "retired", "at-broker"}
AtIBKR    == {"none", "taken", "shown", "gone"}
Places    == {"down", "idle", "asking", "acting", "checking", "found", "queueing", "deciding",
              "marking", "forgetting", "writing-ahead", "sending", "noting", "sent",
              "clear-input", "clear-marks", "clear-refused", "clear-unhanded"}

Fault == faults < MaxFaults /\ faults' = faults + 1

Init ==
    /\ outbox = {} /\ pending = None
    /\ marks = [o \in Orders |-> "none"] /\ allowed = [o \in Orders |-> 0]
    /\ last = [o \in Orders |-> "none"] /\ retired = {}
    /\ refused = None /\ unhanded = None
    /\ pc = "down" /\ todo = <<>> /\ tags = None /\ handed = {}
    /\ committed = {} /\ broker = [o \in Orders |-> "none"] /\ placed = [o \in Orders |-> 0]
    /\ day = 1 /\ session = [i \in Inputs |-> 0]
    /\ faults = 0 /\ permits = [o \in Orders |-> 0] /\ tried = {} /\ found = {}

-----------------------------------------------------------------------------
(***************************************************************************)
(* The world around the adapter.                                           *)
(***************************************************************************)
\* A producer of inputs (reports, the session's close) records one.
RecordInput(i) ==
    /\ session[i] = 0
    /\ session' = [session EXCEPT ![i] = day]
    /\ outbox' = outbox \cup {i}
    /\ UNCHANGED <<pending, committed, day, recordVars, relayVars, brokerVars, faults, ownerVars, found>>

\* IBKR's open orders and executions come to show an order.
Show(o) ==
    /\ broker[o] = "taken" \/ (broker[o] = "none" /\ o \in Foreign)
    /\ broker' = [broker EXCEPT ![o] = "shown"]
    /\ UNCHANGED <<outbox, pending, committed, recordVars, relayVars, placed, tried, calendarVars,
                   faults, ownerVars, found>>

\* A DAY order and an execution leave IBKR's lists with their session.
NextDay ==
    /\ day < MaxDay /\ day' = day + 1
    /\ broker' = [o \in Orders |-> IF broker[o] = "none" THEN "none" ELSE "gone"]
    /\ UNCHANGED <<outbox, pending, committed, session, recordVars, relayVars, placed, tried,
                   faults, ownerVars, found>>

-----------------------------------------------------------------------------
(***************************************************************************)
(* The drain: one entry at a time, the one awaiting its reply first.       *)
(***************************************************************************)
Start ==
    /\ pc = "down" /\ pc' = "idle"
    /\ todo' = <<>> /\ tags' = None /\ handed' = {}
    /\ UNCHANGED <<outbox, pending, committed, recordVars, brokerVars, calendarVars, faults,
                   ownerVars, found>>

Crash ==
    /\ pc # "down" /\ pc' = "down"
    /\ Fault
    /\ todo' = <<>> /\ tags' = None /\ handed' = {}
    /\ UNCHANGED <<outbox, pending, committed, recordVars, brokerVars, calendarVars, ownerVars, found>>

\* The adapter ends itself, for a person to look.
StopsAt(place) ==
    /\ pc' = place
    /\ todo' = <<>> /\ tags' = None
    /\ handed' = IF place = "down" THEN {} ELSE handed

\* Mutant of TakeEntry: the outbox is drained past the input awaiting its reply.
TakeAnyEntry(e) ==
    /\ pc = "idle" /\ pc' = "asking"
    /\ pending = e \/ (e \in outbox /\ e \notin committed)
    /\ pending' = e
    /\ UNCHANGED <<outbox, committed, recordVars, todo, tags, handed, brokerVars, calendarVars,
                   faults, ownerVars, found>>

\* PendingInput.save, before the entry is first sent.  The drain strikes off an
\* entry the engine's log holds instead; as Settled strikes an entry off before
\* its input is cleared, the relay leaves none behind for it to find.
TakeEntry(e) ==
    /\ pc = "idle" /\ pc' = "asking"
    /\ \/ pending = e
       \/ pending = None /\ e \in outbox /\ e \notin committed
    /\ pending' = e
    /\ UNCHANGED <<outbox, committed, recordVars, todo, tags, handed, brokerVars, calendarVars,
                   faults, ownerVars, found>>

\* Relay._ask: the engine commits the entry, or answers again; its reply may
\* be lost, which ends the adapter's attempt.
Ask ==
    /\ pc = "asking"
    /\ committed' = committed \cup {pending}
    /\ \/ /\ pc' = "acting"
          /\ todo' = IF pending \in Inputs THEN OrdersOf[pending] ELSE <<>>
          /\ UNCHANGED <<tags, handed, faults>>
       \/ StopsAt("down") /\ Fault
    /\ UNCHANGED <<outbox, pending, recordVars, brokerVars, calendarVars, ownerVars, found>>

\* Mutant of Settled: the marks are removed before the input.
SettledMarksFirst ==
    /\ pc = "acting" /\ todo = <<>>
    /\ outbox' = outbox \ {pending}
    /\ marks' = [o \in Orders |-> "none"]
    /\ pc' = "clear-input"
    /\ UNCHANGED <<pending, committed, allowed, last, retired, refused, unhanded, todo, tags, handed,
                   brokerVars, calendarVars, faults, ownerVars, found>>

\* All orders acted on: the entry is struck off before the input is cleared.
Settled ==
    /\ pc = "acting" /\ todo = <<>>
    /\ outbox' = outbox \ {pending}
    /\ pc' = "clear-input"
    /\ UNCHANGED <<pending, committed, recordVars, todo, tags, handed, brokerVars, calendarVars,
                   faults, ownerVars, found>>

\* PendingInput.clear: the input, then its marks, then its other records.
ClearInput ==
    /\ pc = "clear-input" /\ pc' = "clear-marks"
    /\ pending' = None
    /\ UNCHANGED <<outbox, committed, recordVars, todo, tags, handed, brokerVars, calendarVars,
                   faults, ownerVars, found>>

ClearMarks ==
    /\ pc = "clear-marks" /\ pc' = "clear-refused"
    /\ marks' = [o \in Orders |-> "none"] /\ allowed' = [o \in Orders |-> 0]
    /\ UNCHANGED <<outbox, pending, committed, last, retired, refused, unhanded, todo, tags, handed,
                   brokerVars, calendarVars, faults, ownerVars, found>>

ClearRefused ==
    /\ pc = "clear-refused" /\ pc' = "clear-unhanded"
    /\ refused' = None
    /\ UNCHANGED <<outbox, pending, committed, marks, allowed, last, retired, unhanded, todo, tags,
                   handed, brokerVars, calendarVars, faults, ownerVars, found>>

ClearUnhanded ==
    /\ pc = "clear-unhanded" /\ StopsAt("idle")
    /\ unhanded' = None
    /\ UNCHANGED <<outbox, pending, committed, marks, allowed, last, retired, refused, brokerVars,
                   calendarVars, faults, ownerVars, found>>

-----------------------------------------------------------------------------
(***************************************************************************)
(* Relay._settle: what becomes of the next released order.                 *)
(***************************************************************************)
Acting(o) == pc = "acting" /\ todo # <<>> /\ o = Head(todo)

\* IBKR's lists are read once a settlement, for the first order that needs it.
NeedsBroker(o) == o \notin handed /\ marks[o] # "sent"

Judging(o) == Acting(o) /\ NeedsBroker(o) /\ tags # None

PassOver ==
    /\ todo' = Tail(todo) /\ pc' = "acting" /\ UNCHANGED tags

AlreadySent(o) ==
    /\ Acting(o) /\ ~NeedsBroker(o)
    /\ PassOver
    /\ UNCHANGED <<outbox, pending, committed, recordVars, handed, brokerVars, calendarVars, faults,
                   ownerVars, found>>

\* A read cut off holds the input while the link is down, or stops the adapter.
ReadBroker(o) ==
    /\ Acting(o) /\ NeedsBroker(o) /\ tags = None
    /\ \/ tags' = {p \in Orders : broker[p] = "shown"} /\ UNCHANGED <<pc, todo, handed, faults>>
       \/ Fault /\ \E place \in {"idle", "down"} : StopsAt(place)
    /\ UNCHANGED <<outbox, pending, committed, recordVars, brokerVars, calendarVars, ownerVars, found>>

\* Mutant of KnownAtBroker: only the mark is asked, not the decisions.
KnownByMark(o) == marks[o] = "at-broker"

\* The relay, or a stop before it finished, has IBKR showing the order.
KnownAtBroker(o) ==
    marks[o] = "at-broker" \/ (marks[o] \in {"none", "never-sent"} /\ last[o] = "at-broker")

\* _finish_retirement: whether a retirement of the unmarked order was begun.
RetirementBegun(o) == marks[o] = "none" /\ (o \in retired \/ o \in outbox)

\* The broker's word wins over a settlement as never sent (NeverSentAtBroker).
FindAtBroker(o) ==
    /\ Judging(o)
    /\ \/ KnownAtBroker(o)
       \/ (RetirementBegun(o) \/ marks[o] = "never-sent") /\ o \in tags
    /\ pc' = "found"
    /\ UNCHANGED <<outbox, pending, committed, recordVars, todo, tags, handed, brokerVars,
                   calendarVars, faults, ownerVars, found>>

\* _record_at_broker: the finding among the decisions, then the mark, then
\* the retirements struck off, each only if it is still to do; then it stops.
\* The owner's --sent cut short after its finding is not written over.
FindingMissing(o) == last[o] # "at-broker" /\ ~(marks[o] = "at-broker" /\ last[o] = "sent")

RecordAtBroker ==
    /\ pc = "found"
    /\ LET o == Head(todo) IN
        \/ /\ FindingMissing(o)
           /\ last' = [last EXCEPT ![o] = "at-broker"] /\ found' = found \cup {o}
           /\ UNCHANGED <<marks, outbox, relayVars>>
        \/ /\ ~FindingMissing(o) /\ marks[o] # "at-broker"
           /\ marks' = [marks EXCEPT ![o] = "at-broker"]
           /\ UNCHANGED <<last, outbox, relayVars, found>>
        \/ /\ ~FindingMissing(o) /\ marks[o] = "at-broker"
           /\ outbox' = outbox \ {o}
           /\ StopsAt("down")
           /\ UNCHANGED <<last, marks, found>>
    /\ UNCHANGED <<pending, committed, allowed, retired, refused, unhanded, brokerVars, calendarVars,
                   faults, ownerVars>>

\* A retirement a stop cut short is finished before the order is judged.
FinishRetirement(o) ==
    /\ Judging(o) /\ ~KnownAtBroker(o) /\ RetirementBegun(o) /\ o \notin tags
    /\ pc' = IF o \in retired THEN "marking" ELSE "deciding"
    /\ UNCHANGED <<outbox, pending, committed, recordVars, todo, tags, handed, brokerVars,
                   calendarVars, faults, ownerVars, found>>

PassNeverSent(o) ==
    /\ Judging(o) /\ ~KnownAtBroker(o) /\ marks[o] = "never-sent" /\ o \notin tags
    /\ PassOver
    /\ UNCHANGED <<outbox, pending, committed, recordVars, handed, brokerVars, calendarVars, faults,
                   ownerVars, found>>

\* What is left: an order unmarked, being handed over or allowed to be resent.
Sendable(o) ==
    /\ Judging(o) /\ ~KnownAtBroker(o) /\ ~RetirementBegun(o)
    /\ marks[o] \in {"none", "handing-over", "resend"}

BrokerHasIt(o) ==
    /\ Sendable(o) /\ o \in tags
    /\ handed' = handed \cup {o}
    /\ PassOver
    /\ UNCHANGED <<outbox, pending, committed, recordVars, brokerVars, calendarVars, faults,
                   ownerVars, found>>

\* Mutant of HandoverUnconfirmed: an order of a session over is retired.
RetiresUnconfirmed(o) ==
    /\ Sendable(o) /\ o \notin tags /\ marks[o] = "handing-over"
    /\ IF session[pending] < day THEN pc' = "queueing" /\ UNCHANGED <<todo, tags, handed>>
                                 ELSE StopsAt("down")
    /\ UNCHANGED <<outbox, pending, committed, recordVars, brokerVars, calendarVars, faults,
                   ownerVars, found>>

\* HandoverUnconfirmed: whether IBKR has it is not known, so a person looks.
HandoverUnconfirmed(o) ==
    /\ Sendable(o) /\ o \notin tags /\ marks[o] = "handing-over"
    /\ StopsAt("down")
    /\ UNCHANGED <<outbox, pending, committed, recordVars, brokerVars, calendarVars, faults,
                   ownerVars, found>>

\* A permission is acted on only in the session it was given in.
ResendExpired(o) ==
    /\ Sendable(o) /\ o \notin tags /\ marks[o] = "resend" /\ allowed[o] # day
    /\ marks' = [marks EXCEPT ![o] = "handing-over"] /\ allowed' = [allowed EXCEPT ![o] = 0]
    /\ StopsAt("down")
    /\ UNCHANGED <<outbox, pending, committed, last, retired, refused, unhanded, brokerVars,
                   calendarVars, faults, ownerVars, found>>

Judge(o) ==
    /\ Sendable(o) /\ o \notin tags
    /\ marks[o] = "none" \/ (marks[o] = "resend" /\ allowed[o] = day)
    /\ pc' = "checking"
    /\ UNCHANGED <<outbox, pending, committed, recordVars, todo, tags, handed, brokerVars,
                   calendarVars, faults, ownerVars, found>>

-----------------------------------------------------------------------------
(***************************************************************************)
(* to_request and sender.check, before the order is marked.                *)
(***************************************************************************)
Checking(o) == pc = "checking" /\ o = Head(todo)

CheckPasses(o) ==
    /\ Checking(o) /\ o \notin Unsendable /\ session[pending] >= day
    /\ pc' = "forgetting"
    /\ UNCHANGED <<outbox, pending, committed, recordVars, todo, tags, handed, brokerVars,
                   calendarVars, faults, ownerVars, found>>

\* SessionOver: the order is retired without the owner.
CheckSessionOver(o) ==
    /\ Checking(o) /\ o \notin Unsendable /\ session[pending] < day
    /\ pc' = "queueing"
    /\ UNCHANGED <<outbox, pending, committed, recordVars, todo, tags, handed, brokerVars,
                   calendarVars, faults, ownerVars, found>>

\* OrderUnsendable stops the adapter until the owner retires the order.
CheckUnsendable(o) ==
    /\ Checking(o) /\ o \in Unsendable
    /\ refused' = o
    /\ StopsAt("down")
    /\ UNCHANGED <<outbox, pending, committed, marks, allowed, last, retired, unhanded, brokerVars,
                   calendarVars, faults, ownerVars, found>>

\* Mutant of CheckRefused: the refused order is passed over.
RefusedPassedOver(o) ==
    /\ Checking(o) /\ o \notin Unsendable /\ Fault
    /\ refused' = o
    /\ PassOver
    /\ UNCHANGED <<outbox, pending, committed, marks, allowed, last, retired, unhanded, handed,
                   brokerVars, calendarVars, ownerVars, found>>

\* Any other refusal is recorded too, on any day: the order's shape, account and mode
\* are judged before its session, the link after it.  A link that is down or not
\* reconciled holds the input, every other cause stops the adapter.
CheckRefused(o) ==
    /\ Checking(o) /\ o \notin Unsendable /\ Fault
    /\ refused' = o
    /\ StopsAt("down") \/ (session[pending] >= day /\ StopsAt("idle"))
    /\ UNCHANGED <<outbox, pending, committed, marks, allowed, last, retired, unhanded, brokerVars,
                   calendarVars, ownerVars, found>>

-----------------------------------------------------------------------------
(***************************************************************************)
(* retire_order: the outbox first, then the decisions, then the mark.      *)
(***************************************************************************)
RetireQueue ==
    /\ pc = "queueing" /\ pc' = "deciding"
    /\ outbox' = outbox \cup {Head(todo)}
    /\ UNCHANGED <<pending, committed, recordVars, todo, tags, handed, brokerVars, calendarVars,
                   faults, ownerVars, found>>

RetireDecide ==
    /\ pc = "deciding" /\ pc' = "marking"
    /\ last' = [last EXCEPT ![Head(todo)] = "retired"]
    /\ retired' = retired \cup {Head(todo)}
    /\ UNCHANGED <<outbox, pending, committed, marks, allowed, refused, unhanded, todo, tags, handed,
                   brokerVars, calendarVars, faults, ownerVars, found>>

RetireMark ==
    /\ pc = "marking"
    /\ marks' = [marks EXCEPT ![Head(todo)] = "never-sent"]
    /\ allowed' = [allowed EXCEPT ![Head(todo)] = 0]
    /\ PassOver
    /\ UNCHANGED <<outbox, pending, committed, last, retired, refused, unhanded, handed, brokerVars,
                   calendarVars, faults, ownerVars, found>>

-----------------------------------------------------------------------------
(***************************************************************************)
(* The hand-over.                                                          *)
(***************************************************************************)
ForgetUnhanded ==
    /\ pc = "forgetting" /\ pc' = "writing-ahead"
    /\ unhanded' = None
    /\ UNCHANGED <<outbox, pending, committed, marks, allowed, last, retired, refused, todo, tags,
                   handed, brokerVars, calendarVars, faults, ownerVars, found>>

\* Mutant of MarkHandingOver: the order is marked only once it was sent.
SendsUnmarked ==
    /\ pc = "writing-ahead" /\ pc' = "sending"
    /\ UNCHANGED <<outbox, pending, committed, recordVars, todo, tags, handed, brokerVars,
                   calendarVars, faults, ownerVars, found>>

MarkHandingOver ==
    /\ pc = "writing-ahead" /\ pc' = "sending"
    /\ marks' = [marks EXCEPT ![Head(todo)] = "handing-over"]
    /\ allowed' = [allowed EXCEPT ![Head(todo)] = 0]
    /\ UNCHANGED <<outbox, pending, committed, last, retired, refused, unhanded, todo, tags, handed,
                   brokerVars, calendarVars, faults, ownerVars, found>>

Reaches(o) ==
    /\ broker' = [broker EXCEPT ![o] = IF @ = "shown" THEN "shown" ELSE "taken"]
    /\ placed' = [placed EXCEPT ![o] = @ + 1]

\* placeOrder returns with the order at IBKR.  It may also raise after the
\* order left, or the request be lost with the socket, noticed or not.
Send ==
    /\ pc = "sending"
    /\ tried' = tried \cup {Head(todo)}
    /\ \/ Reaches(Head(todo)) /\ pc' = "sent" /\ UNCHANGED <<todo, tags, handed, faults>>
       \/ Reaches(Head(todo)) /\ StopsAt("down") /\ Fault
       \/ UNCHANGED <<broker, placed>> /\ StopsAt("down") /\ Fault
       \/ UNCHANGED <<broker, placed>> /\ pc' = "sent" /\ UNCHANGED <<todo, tags, handed>> /\ Fault
    /\ UNCHANGED <<outbox, pending, committed, recordVars, calendarVars, ownerVars, found>>

\* The socket was closed before placeOrder: the sender's own word.
SendNotHandedOver ==
    /\ pc = "sending" /\ pc' = "noting" /\ Fault
    /\ tried' = tried \cup {Head(todo)}
    /\ UNCHANGED <<outbox, pending, committed, recordVars, todo, tags, handed, broker, placed,
                   calendarVars, ownerVars, found>>

\* Mutant of NoteNotHandedOver: the input is noted in place of the order.
NotesInput ==
    /\ pc = "noting"
    /\ unhanded' = pending
    /\ StopsAt("down")
    /\ UNCHANGED <<outbox, pending, committed, marks, allowed, last, retired, refused, brokerVars,
                   calendarVars, faults, ownerVars, found>>

NoteNotHandedOver ==
    /\ pc = "noting"
    /\ unhanded' = Head(todo)
    /\ StopsAt("down")
    /\ UNCHANGED <<outbox, pending, committed, marks, allowed, last, retired, refused, brokerVars,
                   calendarVars, faults, ownerVars, found>>

MarkSent ==
    /\ pc = "sent"
    /\ marks' = [marks EXCEPT ![Head(todo)] = "sent"]
    /\ handed' = handed \cup {Head(todo)}
    /\ PassOver
    /\ UNCHANGED <<outbox, pending, committed, allowed, last, retired, refused, unhanded, brokerVars,
                   calendarVars, faults, ownerVars, found>>

-----------------------------------------------------------------------------
(***************************************************************************)
(* The owner's commands.  Each needs the pending file's lock, so it runs   *)
(* while the adapter is stopped; it may be cut short after any write.      *)
(***************************************************************************)
OwnerWrites == <<committed, pending, relayVars, brokerVars, calendarVars, faults, found>>

OrderOf(i, o) == \E n \in DOMAIN OrdersOf[i] : OrdersOf[i][n] = o

Awaited(o) == pending \in Inputs /\ OrderOf(pending, o)

\* IBKR's order history, which the runbook has the owner check, shows nothing.
NotAtIBKR(o) == OwnerChecks => placed[o] = 0 /\ broker[o] = "none"

\* The owner marks an order sent that IBKR has, or one of an earlier session,
\* which the resend decision refuses.
SentByOwner(o) ==
    OwnerChecks => placed[o] > 0 \/ broker[o] # "none" \/ ~(Awaited(o) /\ session[pending] = day)

\* The decision is recorded first, then the mark.
Resolve(o, decision, mark, onDay, whole) ==
    /\ last' = [last EXCEPT ![o] = decision]
    /\ IF whole THEN marks' = [marks EXCEPT ![o] = mark] /\ allowed' = [allowed EXCEPT ![o] = onDay]
                ELSE UNCHANGED <<marks, allowed>>
    /\ UNCHANGED <<outbox, retired, refused, unhanded, OwnerWrites>>

ResolveNotHandedOver(o, whole) ==
    /\ pc = "down" /\ Awaited(o) /\ NotAtIBKR(o)
    /\ marks[o] = "handing-over" /\ unhanded = o
    /\ Resolve(o, "not-handed-over", "never-sent", 0, whole)
    /\ UNCHANGED permits

ResolveNeverSent(o, whole) ==
    /\ pc = "down" /\ Awaited(o) /\ NotAtIBKR(o)
    /\ marks[o] = "none" /\ refused = o /\ o \notin Unsendable
    /\ Resolve(o, "never-sent", "never-sent", 0, whole)
    /\ UNCHANGED permits

\* Mutant of ResolveSent: refused, as a resend is, once the session is over.
ResolveSentSameDay(o, whole) ==
    /\ pc = "down" /\ marks[o] \in {"handing-over", "resend"} /\ SentByOwner(o)
    /\ Awaited(o) /\ session[pending] = day
    /\ Resolve(o, "sent", "sent", 0, whole)
    /\ UNCHANGED permits

ResolveSent(o, whole) ==
    /\ pc = "down" /\ marks[o] \in {"handing-over", "resend"} /\ SentByOwner(o)
    /\ Resolve(o, "sent", "sent", 0, whole)
    /\ UNCHANGED permits

\* Only in the session of the entry awaiting its reply (a retirement's may be
\* any), which the order need not be of, and not if it is allowed one already.
ResolveResend(o, whole) ==
    /\ pc = "down" /\ NotAtIBKR(o)
    /\ pending # None /\ (pending \in Inputs => session[pending] = day)
    /\ marks[o] = "handing-over"
    /\ Resolve(o, "resend", "resend", day, whole)
    /\ permits' = IF whole THEN [permits EXCEPT ![o] = @ + 1] ELSE permits

\* --sent on an order settled never sent: marked at-broker, the finding
\* recorded once, its retirements struck off, and only then marked sent.
ResolveFoundSent(o, writes) ==
    /\ pc = "down" /\ marks[o] \in {"never-sent", "at-broker"}
    /\ OwnerChecks => placed[o] > 0 \/ broker[o] # "none"
    /\ marks' = [marks EXCEPT ![o] = IF writes = 4 THEN "sent" ELSE "at-broker"]
    /\ last' = IF writes >= 2 THEN [last EXCEPT ![o] = "sent"] ELSE last
    /\ outbox' = IF writes >= 3 THEN outbox \ {o} ELSE outbox
    /\ UNCHANGED <<allowed, retired, refused, unhanded, permits, OwnerWrites>>

\* retire: only the unsendable order the relay recorded it is refusing.
Retire(o, writes) ==
    /\ pc = "down" /\ Awaited(o) /\ NotAtIBKR(o)
    /\ marks[o] = "none" /\ refused = o /\ o \in Unsendable
    /\ outbox' = outbox \cup {o}
    /\ IF writes >= 2 THEN last' = [last EXCEPT ![o] = "retired"] /\ retired' = retired \cup {o}
                      ELSE UNCHANGED <<last, retired>>
    /\ marks' = IF writes = 3 THEN [marks EXCEPT ![o] = "never-sent"] ELSE marks
    /\ UNCHANGED <<allowed, refused, unhanded, permits, OwnerWrites>>

OwnerStep(o) ==
    \/ \E whole \in BOOLEAN : \/ ResolveNotHandedOver(o, whole) \/ ResolveNeverSent(o, whole)
                              \/ ResolveSent(o, whole) \/ ResolveResend(o, whole)
    \/ \E writes \in 1..4 : ResolveFoundSent(o, writes)
    \/ \E writes \in 1..3 : Retire(o, writes)

\* The relay's own steps from a reply to the cleared input.
RelayStep ==
    \/ \E e \in Entries : TakeEntry(e)
    \/ Ask \/ Settled \/ ClearInput \/ ClearMarks \/ ClearRefused \/ ClearUnhanded
    \/ \E o \in Orders :
        \/ AlreadySent(o) \/ ReadBroker(o) \/ FindAtBroker(o) \/ FinishRetirement(o)
        \/ PassNeverSent(o) \/ BrokerHasIt(o) \/ HandoverUnconfirmed(o) \/ ResendExpired(o)
        \/ Judge(o) \/ CheckPasses(o) \/ CheckSessionOver(o) \/ CheckUnsendable(o)
        \/ CheckRefused(o)
    \/ RecordAtBroker \/ RetireQueue \/ RetireDecide \/ RetireMark
    \/ ForgetUnhanded \/ MarkHandingOver \/ Send \/ SendNotHandedOver \/ NoteNotHandedOver \/ MarkSent

Next ==
    \/ \E i \in Inputs : RecordInput(i)
    \/ \E o \in Orders : Show(o)
    \/ NextDay \/ Start \/ Crash
    \/ RelayStep
    \/ \E o \in Orders : OwnerStep(o)

Spec == Init /\ [][Next]_vars

\* The adapter is restarted after a stop and its steps run; the owner settles
\* the order it stopped at, by the runbook, running a command cut short again.
\* The owner's command races the restart, so it needs the stronger fairness.
OwnerSettles(o) ==
    \/ ResolveNotHandedOver(o, TRUE) \/ ResolveNeverSent(o, TRUE) \/ ResolveSent(o, TRUE)
    \/ ResolveResend(o, TRUE) \/ ResolveFoundSent(o, 4) \/ Retire(o, 3)

Fairness ==
    /\ WF_vars(RelayStep) /\ WF_vars(Start)
    /\ \A o \in Orders : SF_vars(OwnerSettles(o))

LiveSpec == Spec /\ Fairness

-----------------------------------------------------------------------------
(***************************************************************************)
(* Properties.                                                             *)
(***************************************************************************)
\* The types of the variables.
TypeOK ==
    /\ outbox \subseteq Entries /\ pending \in Entries \cup {None} /\ committed \subseteq Entries
    /\ marks \in [Orders -> Marks] /\ allowed \in [Orders -> Nat]
    /\ last \in [Orders -> Decisions] /\ retired \subseteq Orders
    /\ refused \in Orders \cup {None} /\ unhanded \in Orders \cup {None}
    /\ pc \in Places /\ todo \in Seq(Orders)
    /\ tags \in (SUBSET Orders) \cup {None} /\ handed \subseteq Orders
    /\ broker \in [Orders -> AtIBKR] /\ placed \in [Orders -> Nat]
    /\ day \in Nat /\ session \in [Inputs -> Nat] /\ faults \in Nat
    /\ permits \in [Orders -> Nat] /\ tried \subseteq Orders /\ found \subseteq Orders

\* Write-ahead hand-over: however the adapter dies and whatever IBKR's lists
\* show, an order goes out once, and once more only for each permission the
\* owner gave, be the owner careful or not.
PlacedByPermission == \A o \in Orders : placed[o] <= 1 + permits[o]

\* The adapter sends each order once (docs/manual/redelivery.md), with the
\* owner's settlements in between, if the owner looks at IBKR first.
PlacedOnce == \A o \in Orders : placed[o] <= 1

\* What the engine is told was retired never reached IBKR, before or after.
RetiredNeverPlaced == \A o \in Orders \cap committed : placed[o] = 0

\* An order IBKR shows is never retired: once the relay recorded that IBKR
\* shows an order settled as never sent, neither a stop before its later
\* writes nor an owner's command cut short lets the engine be told of it.
FoundNeverRetired == found \cap committed = {}

\* Save before send, clear last: an input the engine committed and that no
\* longer awaits its reply left none of its orders behind unsettled.
NoOrderForgotten ==
    \A i \in Inputs \cap committed : pending # i =>
        \A n \in DOMAIN OrdersOf[i] : LET o == OrdersOf[i][n] IN
            o \in tried \/ broker[o] # "none" \/ last[o] # "none"

\* The engine is told an order was retired only once its own input is settled
\* and the record's last word on it settles it as never sent; only an order
\* once allowed to be sent again and retired as the session turned, or one
\* the owner found at IBKR, differs.
RetiredAfterItsInput ==
    \A o \in Orders \cap committed :
        /\ ~Awaited(o)
        /\ last[o] \in {"retired", "never-sent", "not-handed-over"} \/ permits[o] > 0 \/ broker[o] # "none"

\* Under Fairness an input awaiting its reply is in the end settled: no stop
\* leaves an order that no command of the owner's can settle.
AwaitingIsSettled == (pending # None) ~> (pending = None)

\* relay.py on the owner's --sent: an order it marked at-broker leaves "no
\* retirement of it deliverable", whatever later write of it fails.
MarkedNotDeliverable ==
    [][\A o \in Orders : o \in committed' \ committed => marks[o] # "at-broker"]_vars
=============================================================================
