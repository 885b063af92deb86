-------------------------- MODULE BoostSaleProofs --------------------------
(***************************************************************************)
(* Proofs about the orders a Boost run releases, for any instruments,      *)
(* limits, starts, sessions and inputs: every sale armed waits in the      *)
(* journal, and an incident, an engagement of the kill switch or an alarm  *)
(* sells once.  BoostVerdictProofs goes on from here for the buys.         *)
(*                                                                         *)
(* The invariant is RunOk.  Between two steps nothing is being written and *)
(* the handler is Sound: its gate is GateOk, so every order of a decision  *)
(* is named by a session no later than the last and every sale by its tag  *)
(* and the number of an attempt that was retired or is spent, so that the  *)
(* IDs to come are new; and every sale the gate holds armed waits in the   *)
(* journal.  What was released is Backed by the orders of the gate, which  *)
(* forgets none.                                                           *)
(*                                                                         *)
(* Inside a step the handler changes its gate many times and writes as it  *)
(* goes.  Sound(y, x, last, P, waits) says of a handler y on its way from  *)
(* x that this holds of what y has written so far and that it released the *)
(* orders of P, none or one, each one Allowed where x began.  Each part of *)
(* an answer is one lemma that leads from Sound to Sound (SoundGate,       *)
(* SoundEvent, SoundRelease), each input one that joins its parts          *)
(* (SoundBroker, SoundTrade, SoundRetired, ...), and AnswerOk one that     *)
(* journals the answer.                                                    *)
(*                                                                         *)
(* NilIsNoRecord is the one hypothesis: None, Go's nil, is no record.      *)
(***************************************************************************)
EXTENDS BoostRun, FiniteSetTheorems, SequenceTheorems, TLAPS

----------------------------------------------------------------------------
(* Sequences of events *)

\* A sequence, of whatever elements.
IsList(s) == s \in Seq({s[i] : i \in DOMAIN s})

LEMMA ListFacts ==
    ASSUME NEW s, IsList(s)
    PROVE  Len(s) \in Nat /\ DOMAIN s = 1..Len(s) /\ s = [i \in 1..Len(s) |-> s[i]]
  BY DEF IsList

LEMMA ListOf ==
    ASSUME NEW n \in Nat, NEW s, DOMAIN s = 1..n, s = [i \in 1..n |-> s[i]]
    PROVE  IsList(s) /\ Len(s) = n
<1>1. s \in [1..n -> {s[i] : i \in DOMAIN s}]
  OBVIOUS
<1> QED BY <1>1 DEF IsList

LEMMA AppendFacts ==
    ASSUME NEW s, IsList(s), NEW e
    PROVE  /\ IsList(Append(s, e)) /\ Len(Append(s, e)) = Len(s) + 1 /\ DOMAIN Append(s, e) = 1..(Len(s) + 1)
           /\ Append(s, e)[Len(s) + 1] = e
           /\ \A i \in 1..Len(s) : Append(s, e)[i] = s[i]
<1> DEFINE E == {s[i] : i \in DOMAIN s} \cup {e}
<1>1. Len(s) \in Nat /\ DOMAIN s = 1..Len(s) /\ s = [i \in 1..Len(s) |-> s[i]]
  BY ListFacts
<1>2. s \in [1..Len(s) -> E]
  BY <1>1
<1>3. s \in Seq(E) /\ e \in E
  BY <1>1, <1>2
<1> HIDE DEF E
<1>4. /\ Append(s, e) \in Seq(E) /\ Len(Append(s, e)) = Len(s) + 1
      /\ Append(s, e)[Len(s) + 1] = e /\ \A i \in 1..Len(s) : Append(s, e)[i] = s[i]
  <2>1. Append(s, e) \in Seq(E)
    BY <1>3
  <2>2. Len(Append(s, e)) = Len(s) + 1
    BY <1>3
  <2>3. Append(s, e)[Len(s) + 1] = e
    BY <1>3
  <2>4. ASSUME NEW i \in 1..Len(s) PROVE Append(s, e)[i] = s[i]
    BY <1>3
  <2> QED BY <2>1, <2>2, <2>3, <2>4
<1>5. DOMAIN Append(s, e) = 1..(Len(s) + 1) /\ Append(s, e) = [i \in 1..(Len(s) + 1) |-> Append(s, e)[i]]
  <2>1. Append(s, e) \in [1..Len(Append(s, e)) -> E]
    BY <1>4, LenProperties
  <2> QED BY <1>4, <2>1
<1>6. IsList(Append(s, e))
  BY <1>1, <1>5, ListOf
<1> QED BY <1>4, <1>5, <1>6

LEMMA ListsEqual ==
    ASSUME NEW s, IsList(s), NEW t, IsList(t), Len(s) = Len(t), \A i \in 1..Len(s) : s[i] = t[i]
    PROVE  s = t
  BY ListFacts

----------------------------------------------------------------------------
(* What was written of one type *)

LEMMA WroteNone ==
    ASSUME NEW out, NEW type, \A i \in DOMAIN out : out[i].type # type
    PROVE  Wrote(out, type) = <<>>
<1>1. {i \in DOMAIN out : out[i].type = type} = {}
  OBVIOUS
<1>2. Cardinality({}) = 0
  BY FS_EmptySet
<1>3. Wrote(out, type) = [n \in 1..0 |-> out[Min({i \in {} : Cardinality({j \in {} : j <= i}) = n})]]
  BY <1>1, <1>2 DEF Wrote
<1> QED BY <1>3

LEMMA WroteOne ==
    ASSUME NEW out, NEW type, NEW i \in DOMAIN out \cap Nat, out[i].type = type,
           \A j \in DOMAIN out : out[j].type = type => j = i
    PROVE  Wrote(out, type) = <<out[i]>>
<1> DEFINE at == {j \in DOMAIN out : out[j].type = type}
           nth(n) == Min({k \in at : Cardinality({j \in at : j <= k}) = n})
<1>1. at = {i} /\ {j \in {i} : j <= i} = {i} /\ Cardinality({i}) = 1
  BY FS_Singleton
<1>2. {k \in at : Cardinality({j \in at : j <= k}) = 1} = {i}
  BY <1>1
<1>3. Min({i}) = i
  BY DEF Min
<1>4. nth(1) = i /\ Cardinality(at) = 1
  BY <1>1, <1>2, <1>3
<1>5. Wrote(out, type) = [n \in 1..Cardinality(at) |-> out[nth(n)]]
  BY DEF Wrote
<1> HIDE DEF at, nth
<1>6. Wrote(out, type) = [n \in 1..1 |-> out[nth(n)]]
  BY <1>4, <1>5
<1>7. \A n \in 1..1 : n = 1
  OBVIOUS
<1>8. [n \in 1..1 |-> out[nth(n)]] = [n \in 1..1 |-> out[i]]
  BY <1>4, <1>7
<1> QED BY <1>6, <1>8

----------------------------------------------------------------------------
(* The sales a reader takes to be waiting *)

LEMMA WaitingMember ==
    ASSUME NEW waits, NEW out, NEW w
    PROVE  w \in Waiting(waits, out) <=>
               \E n \in 0..Len(out) :
                   /\ w \in (IF n = 0 THEN waits ELSE Opens(out[n]))
                   /\ \A k \in (n + 1)..Len(out) : ~Closes(out[k], w)
<1> DEFINE opened(n) == IF n = 0 THEN waits ELSE Opens(out[n])
           stays(n) == {v \in opened(n) : \A k \in (n + 1)..Len(out) : ~Closes(out[k], v)}
<1>1. Waiting(waits, out) = UNION {stays(n) : n \in 0..Len(out)}
  BY DEF Waiting
<1>2. w \in UNION {stays(n) : n \in 0..Len(out)} <=> \E n \in 0..Len(out) : w \in stays(n)
  <2> HIDE DEF stays
  <2> QED OBVIOUS
<1> QED BY <1>1, <1>2

LEMMA WaitingNone ==
    ASSUME NEW waits
    PROVE  Waiting(waits, <<>>) = waits
<1>1. \A w : w \in Waiting(waits, <<>>) <=> w \in waits
  <2> TAKE w
  <2>1. Len(<<>>) = 0
    OBVIOUS
  <2>2. \A n : n \in 0..0 <=> n = 0
    OBVIOUS
  <2>3. w \in Waiting(waits, <<>>) <=>
            \E n \in 0..0 : /\ w \in (IF n = 0 THEN waits ELSE Opens(<<>>[n]))
                            /\ \A k \in (n + 1)..0 : ~Closes(<<>>[k], w)
    BY <2>1, WaitingMember
  <2>4. \A k : k \notin 1..0
    OBVIOUS
  <2> QED BY <2>2, <2>3, <2>4
<1> QED BY <1>1

LEMMA WaitingAppend ==
    ASSUME NEW waits, NEW out, IsList(out), NEW e
    PROVE  Waiting(waits, Append(out, e)) = {w \in Waiting(waits, out) : ~Closes(e, w)} \cup Opens(e)
<1> DEFINE next == Append(out, e)
           L == Len(out)
<1>1. /\ L \in Nat /\ Len(next) = L + 1 /\ next[L + 1] = e
      /\ \A i \in 1..L : next[i] = out[i]
  BY ListFacts, AppendFacts
<1> HIDE DEF next, L
<1>2. ASSUME NEW w
      PROVE  w \in Waiting(waits, next) <=> (w \in Waiting(waits, out) /\ ~Closes(e, w)) \/ w \in Opens(e)
  <2> DEFINE opened(s, n) == IF n = 0 THEN waits ELSE Opens(s[n])
  <2>1. w \in Waiting(waits, next) <=>
            \E n \in 0..(L + 1) : w \in opened(next, n) /\ \A k \in (n + 1)..(L + 1) : ~Closes(next[k], w)
    BY <1>1, WaitingMember
  <2>2. w \in Waiting(waits, out) <=>
            \E n \in 0..L : w \in opened(out, n) /\ \A k \in (n + 1)..L : ~Closes(out[k], w)
    BY WaitingMember DEF L
  <2>3. \A n \in 0..L : opened(next, n) = opened(out, n)
    BY <1>1
  <2>4. opened(next, L + 1) = Opens(e)
    BY <1>1
  <2>5. \A k \in (L + 2)..(L + 1) : FALSE
    BY <1>1
  <2>6. ASSUME NEW n \in 0..L
        PROVE  (\A k \in (n + 1)..(L + 1) : ~Closes(next[k], w)) <=> ~Closes(e, w) /\ \A k \in (n + 1)..L : ~Closes(out[k], w)
    BY <1>1
  <2> HIDE DEF opened
  <2>7. \A n : n \in 0..(L + 1) <=> n \in 0..L \/ n = L + 1
    BY <1>1
  <2>8. L + 1 + 1 = L + 2
    BY <1>1
  <2> QED BY <2>1, <2>2, <2>3, <2>4, <2>5, <2>6, <2>7, <2>8
<1> QED BY <1>2 DEF next

\* A rewritten decision tells nothing of a sale.
LEMMA WaitingSame ==
    ASSUME NEW waits, NEW out, NEW next, Len(next) = Len(out), Len(out) \in Nat,
           \A i \in 1..Len(out) : next[i] = out[i] \/ (next[i].type = "targets.decided" /\ out[i].type = "targets.decided")
    PROVE  Waiting(waits, next) = Waiting(waits, out)
<1>1. \A i \in 1..Len(out) : Opens(next[i]) = Opens(out[i])
  BY DEF Opens
<1>2. ASSUME NEW i \in 1..Len(out), NEW w PROVE Closes(next[i], w) <=> Closes(out[i], w)
  BY DEF Closes
<1>3. ASSUME NEW w PROVE w \in Waiting(waits, next) <=> w \in Waiting(waits, out)
  <2>1. \A n \in 0..Len(out) : (IF n = 0 THEN waits ELSE Opens(next[n])) = (IF n = 0 THEN waits ELSE Opens(out[n]))
    BY <1>1
  <2>2. \A n \in 0..Len(out) : \A k \in (n + 1)..Len(out) : Closes(next[k], w) <=> Closes(out[k], w)
    BY <1>2
  <2> QED BY <2>1, <2>2, WaitingMember
<1> QED BY <1>3

----------------------------------------------------------------------------
(* What leaves the gate's orders and sales alone *)

GateRec(g) ==
    {"orders", "attempts", "retiredSales", "exitWithheld", "urgentWithheld", "state", "scope", "incident", "killEngaged"} \subseteq DOMAIN g

States == {"normal", "degraded", "halted"}

\* The state of k is no looser than g's, and its incident is g's when g had one.
Tighter(g, k) ==
    /\ g.state # "normal" => k.state # "normal" /\ k.incident = g.incident
    /\ g.state = "degraded" => k.state \in {"degraded", "halted"}
    /\ g.state = "halted" => k.state = "halted"
    /\ g.state = "degraded" /\ k.state = "degraded" => g.scope \subseteq k.scope

\* The orders (but for their fills), the attempts at a sale and the kill switch of k are
\* g's, and its state is no looser.
Kept(g, k) ==
    /\ DOMAIN k = DOMAIN g
    /\ DOMAIN k.orders = DOMAIN g.orders
    /\ \A id \in DOMAIN g.orders :
        /\ DOMAIN k.orders[id] = DOMAIN g.orders[id] /\ k.orders[id].tag = g.orders[id].tag
        /\ k.orders[id].side = g.orders[id].side /\ k.orders[id].sale = g.orders[id].sale
    /\ k.attempts = g.attempts /\ k.retiredSales = g.retiredSales
    /\ k.killEngaged = g.killEngaged
    /\ Tighter(g, k)

SameArms(g, k) == k.exitWithheld = g.exitWithheld /\ k.urgentWithheld = g.urgentWithheld

\* Nothing a sale depends on is changed, and the state is one of the three.
Frame(g, k) == Kept(g, k) /\ SameArms(g, k) /\ k.state \in States

LEMMA FrameRec ==
    ASSUME NEW g, GateRec(g), NEW k, Kept(g, k)
    PROVE  GateRec(k)
  BY DEF GateRec, Kept

LEMMA KeptTwice ==
    ASSUME NEW g, NEW k, NEW m, Kept(g, k), Kept(k, m)
    PROVE  Kept(g, m)
  BY DEF Kept, Tighter

LEMMA FrameTwice ==
    ASSUME NEW g, NEW k, NEW m, Frame(g, k), Frame(k, m)
    PROVE  Frame(g, m)
  BY KeptTwice DEF Frame, SameArms

LEMMA FrameSelf ==
    ASSUME NEW g, g.state \in States
    PROVE  Frame(g, g)
  BY DEF Frame, Kept, Tighter, SameArms

LEMMA FrameFresh ==
    ASSUME NEW g, GateRec(g), NEW at, g.state \in States
    PROVE  Frame(g, freshCheck(g, at)) /\ freshCheck(g, at).state = g.state
  BY DEF GateRec, Frame, Kept, Tighter, SameArms, freshCheck

LEMMA FrameMove ==
    ASSUME NEW g, GateRec(g), NEW state \in {"degraded", "halted"}, g.state = "halted" => state = "halted", NEW cause
    PROVE  Frame(g, move(g, state, cause)) /\ move(g, state, cause).state = state
  BY DEF GateRec, Frame, Kept, Tighter, SameArms, States, move

LEMMA FrameHalt ==
    ASSUME NEW g, GateRec(g), NEW cause
    PROVE  Frame(g, halt(g, cause))
<1> DEFINE k == move(g, "halted", cause)
<1>1. Frame(g, k) /\ GateRec(k)
  BY FrameMove, FrameRec DEF Frame
<1>0. k.state = "halted"
  BY FrameMove
<1> HIDE DEF k
<1>2. Frame(k, [k EXCEPT !.scope = {}])
  BY <1>0, <1>1 DEF GateRec, Frame, Kept, Tighter, SameArms
<1> QED BY <1>1, <1>2, FrameTwice DEF halt, k

LEMMA FrameDegrade ==
    ASSUME NEW g, GateRec(g), g.state # "halted", NEW scope, NEW cause
    PROVE  Frame(g, degrade(g, scope, cause))
<1> DEFINE k == move(g, "degraded", cause)
<1>1. Frame(g, k) /\ GateRec(k)
  BY FrameMove, FrameRec DEF Frame
<1> HIDE DEF k
<1>2. Frame(k, [k EXCEPT !.scope = @ \cup scope])
  BY <1>1 DEF GateRec, Frame, Kept, Tighter, SameArms
<1> QED BY <1>1, <1>2, FrameTwice DEF degrade, k

LEMMA FrameTighten ==
    ASSUME NEW g, GateRec(g), g.state \in States, NEW id, NEW state \in {"degraded", "halted"}, NEW scope
    PROVE  Frame(g, tighten(g, id, state, scope))
  BY DEF GateRec, States, Frame, Kept, Tighter, SameArms, tighten

LEMMA FrameConsequence ==
    ASSUME NEW g, GateRec(g), g.state \in States, NEW id, NEW r
    PROVE  /\ Frame(g, consequence(g, id, r).gate)
           /\ consequence(g, id, r).states = <<>> \/ \E e : consequence(g, id, r).states = <<e>>
<1> DEFINE k == IF Action(r) = "halt" THEN [g EXCEPT !.haltedOn = @ \cup r.reasons] ELSE g
           halts == Action(r) = "halt" /\ k.state # "halted"
           widens == /\ Action(r) = "degrade" /\ k.state # "halted"
                     /\ k.state = "degraded" => ~(Differs(r) \subseteq k.scope)
           next == IF halts THEN halt(k, id) ELSE IF widens THEN degrade(k, Differs(r), id) ELSE k
<1>1. Frame(g, k) /\ GateRec(k)
  BY DEF GateRec, Frame, Kept, Tighter, SameArms
<1>2. consequence(g, id, r) = [gate |-> next, states |-> IF halts \/ widens THEN <<EngineState(next, id)>> ELSE <<>>]
  BY DEF consequence
<1>0. widens => k.state # "halted"
  OBVIOUS
<1> HIDE DEF k, halts, widens
<1>3. Frame(k, next)
  BY <1>1, <1>0, FrameHalt, FrameDegrade, FrameSelf DEF Frame
<1> HIDE DEF next
<1> QED BY <1>1, <1>2, <1>3, FrameTwice

LEMMA FrameReport ==
    ASSUME NEW g, GateRec(g), g.state \in States, NEW r, NEW asOf, NEW compared
    PROVE  Frame(g, report(g, r, asOf, compared))
  BY DEF GateRec, Frame, Kept, Tighter, SameArms, report

LEMMA FrameReconcile ==
    ASSUME NEW g, GateRec(g), g.state \in States, NEW id, NEW obs
    PROVE  /\ Frame(g, Reconcile(g, id, obs).gate)
           /\ Reconcile(g, id, obs).states = <<>> \/ \E e : Reconcile(g, id, obs).states = <<e>>
<1> DEFINE r == classify(g.book, g.changes, obs)
           read == g.book # None /\ obs.positions # None
           k == IF read /\ obs.asOf >= g.latestReadAsOf
                THEN [g EXCEPT !.latestReadAsOf = obs.asOf, !.classified = obs.positions, !.classifiedAsOf = obs.asOf] ELSE g
           compared == IF read THEN obs.asOf >= g.book.asOf ELSE FALSE
           m == report(k, r, obs.asOf, compared)
<1>1. Frame(g, k) /\ GateRec(k) /\ k.state \in States
  BY DEF GateRec, Frame, Kept, Tighter, SameArms
<1>2. Reconcile(g, id, obs) = consequence(m, id, r)
  BY DEF Reconcile
<1> HIDE DEF k, r, compared
<1>3. Frame(g, m) /\ GateRec(m) /\ m.state \in States
  BY <1>1, FrameReport, FrameTwice, FrameRec DEF Frame
<1> HIDE DEF m
<1> QED BY <1>2, <1>3, FrameConsequence, FrameTwice

LEMMA FrameBook ==
    ASSUME NEW g, GateRec(g), g.state \in States, NEW b
    PROVE  /\ Frame(g, CheckBook(g, b).gate)
           /\ CheckBook(g, b).states = <<>> \/ \E e : CheckBook(g, b).states = <<e>>
<1>1. ASSUME NEW k, GateRec(k), k.state \in States PROVE Frame(k, SetBook(k, b))
  BY <1>1 DEF GateRec, Frame, Kept, Tighter, SameArms, SetBook
<1> DEFINE r == classify(g.book, g.changes, b)
           c == consequence(g, b.anchor, r)
<1>2. /\ CheckBook(g, b).gate \in {SetBook(g, b), SetBook(c.gate, b)}
      /\ CheckBook(g, b).states \in {<<>>, c.states}
  <2> HIDE DEF r, c
  <2>1. CheckBook(g, b) \in {[gate |-> SetBook(g, b), states |-> <<>>], [gate |-> SetBook(c.gate, b), states |-> c.states]}
    BY DEF CheckBook, c, r
  <2> QED BY <2>1
<1> HIDE DEF r
<1>3. Frame(g, c.gate) /\ GateRec(c.gate) /\ c.gate.state \in States /\ (c.states = <<>> \/ \E e : c.states = <<e>>)
  BY FrameConsequence, FrameRec DEF Frame
<1> HIDE DEF c
<1>4. Frame(g, SetBook(g, b)) /\ Frame(g, SetBook(c.gate, b))
  BY <1>1, <1>3, FrameTwice
<1> QED BY <1>2, <1>3, <1>4

LEMMA FrameAccount ==
    ASSUME NEW g, GateRec(g), g.state \in States, NEW p
    PROVE  Frame(g, ObserveAccount(g, p))
  BY DEF GateRec, Frame, Kept, Tighter, SameArms, ObserveAccount

LEMMA FrameBroker ==
    ASSUME NEW g, GateRec(g), g.state \in States, NEW s
    PROVE  Frame(g, recordBroker(g, s))
  BY DEF GateRec, Frame, Kept, Tighter, SameArms, recordBroker

LEMMA FrameCorporate ==
    ASSUME NEW g, GateRec(g), g.state \in States, NEW c
    PROVE  Frame(g, ObserveCorporateAction(g, c))
  BY DEF GateRec, Frame, Kept, Tighter, SameArms, ObserveCorporateAction

LEMMA FrameLifecycle ==
    ASSUME NEW g, GateRec(g), g.state \in States, NEW id, NEW status, NEW at, NEW named
    PROVE  Frame(g, ObserveLifecycle(g, id, status, at, named))
  BY DEF GateRec, Frame, Kept, Tighter, SameArms, ObserveLifecycle

----------------------------------------------------------------------------
(* The orders and sales of a gate *)

\* None, Go's nil, is no function and so no record.
NilIsNoRecord == None # [x \in DOMAIN None |-> None[x]]

Shaped(g) ==
    /\ \A id \in DOMAIN g.orders : {"tag", "side", "sale"} \subseteq DOMAIN g.orders[id]
    /\ \A t \in DOMAIN g.attempts : {"retired", "own"} \subseteq DOMAIN g.attempts[t] /\ g.attempts[t].retired \in Nat
    /\ \A t \in DOMAIN g.retiredSales : g.retiredSales[t] \in Nat

\* A sale's number: one of the sales gone, or the attempt that stands.
Numbered(g, gone, id, tag) ==
    \E n \in Nat :
        /\ id = SaleAttemptClientOrderID(tag, n)
        /\ \/ n < retiredCount(g, tag) /\ id \in gone
           \/ n = retiredCount(g, tag) /\ tag \in DOMAIN g.attempts /\ g.attempts[tag].own

\* The order of a decision no later than last.
Dated(id, last) == \E p \in Nat, side \in Sides : p <= last /\ id = ClientOrderID(<<"targets-decided", p>>, side)

Placed(g, gone, last) ==
    \A id \in DOMAIN g.orders :
        IF g.orders[id].sale = None THEN Dated(id, last) ELSE Numbered(g, gone, id, g.orders[id].tag)

GateOk(g, gone, last) == GateRec(g) /\ g.state \in States /\ Shaped(g) /\ Placed(g, gone, last)

\* The gate k is g with order p released.
Released(g, k, p) ==
    /\ DOMAIN k = DOMAIN g
    /\ k.orders = With(g.orders, p.id, [tag |-> p.tag, side |-> p.side, quantity |-> p.quantity, sale |-> p.sale, fills |-> {}])
    /\ k.attempts = g.attempts /\ k.retiredSales = g.retiredSales
    /\ k.killEngaged = g.killEngaged /\ k.state = g.state /\ Tighter(g, k)
    /\ SameArms(g, k)

LEMMA SaleIDs ==
    ASSUME NEW t, NEW u, NEW m, NEW n, SaleAttemptClientOrderID(t, m) = SaleAttemptClientOrderID(u, n)
    PROVE  t = u /\ m = n
  BY DEF SaleAttemptClientOrderID

LEMMA DecisionIDs ==
    ASSUME NEW p, NEW q, NEW s, NEW t, ClientOrderID(<<"targets-decided", p>>, s) = ClientOrderID(<<"targets-decided", q>>, t)
    PROVE  p = q /\ s = t
<1>1. <<"targets-decided", p>> = <<"targets-decided", q>> /\ s = t
  BY DEF ClientOrderID
<1> QED BY <1>1

LEMMA IDsApart ==
    ASSUME NEW t, NEW u, NEW side \in Sides, NEW n
    PROVE  ClientOrderID(t, side) # SaleAttemptClientOrderID(u, n)
  BY DEF ClientOrderID, SaleAttemptClientOrderID, Sides

LEMMA CountIsNat ==
    ASSUME NEW g, Shaped(g), NEW tag
    PROVE  retiredCount(g, tag) \in Nat /\ restoredRetired(g, tag) \in Nat
  BY DEF Shaped, retiredCount, restoredRetired

LEMMA OkKept ==
    ASSUME NEW g, NEW gone, NEW last, GateOk(g, gone, last), NEW k, Kept(g, k), k.state \in States
    PROVE  GateOk(k, gone, last)
<1>1. GateRec(k)
  BY FrameRec DEF GateOk
<1>2. Shaped(k)
  BY DEF GateOk, Kept, Shaped
<1>3. \A tag : retiredCount(k, tag) = retiredCount(g, tag)
  BY DEF Kept, retiredCount, restoredRetired
<1>4. ASSUME NEW id, NEW tag, Numbered(g, gone, id, tag) PROVE Numbered(k, gone, id, tag)
  BY <1>3, <1>4 DEF Numbered, Kept
<1>5. Placed(k, gone, last)
  BY <1>4 DEF GateOk, Placed, Kept
<1> QED BY <1>1, <1>2, <1>5 DEF GateOk

LEMMA OkLater ==
    ASSUME NEW g, NEW gone, NEW last \in Nat, NEW next \in Nat, last <= next, GateOk(g, gone, last)
    PROVE  GateOk(g, gone, next)
<1>1. ASSUME NEW id, Dated(id, last) PROVE Dated(id, next)
  BY <1>1 DEF Dated
<1> QED BY <1>1 DEF GateOk, Placed

LEMMA AttemptFacts ==
    ASSUME NEW g, GateRec(g), NEW tag
    PROVE  LET k == recordAttempt(g, tag)
           IN  /\ DOMAIN k = DOMAIN g /\ k.orders = g.orders /\ k.retiredSales = g.retiredSales
               /\ k.attempts = With(g.attempts, tag, [earlier |-> FALSE, retired |-> restoredRetired(g, tag), own |-> TRUE])
               /\ k.killEngaged = g.killEngaged /\ k.state = g.state /\ SameArms(g, k)
               /\ k.scope = g.scope /\ k.incident = g.incident
  BY DEF GateRec, SameArms, recordAttempt

\* An attempt spent leaves the numbers of the sales as they are.
LEMMA OkAttempt ==
    ASSUME NEW g, NEW gone, NEW last, GateOk(g, gone, last), NEW tag
    PROVE  LET k == recordAttempt(g, tag)
           IN  /\ GateOk(k, gone, last) /\ \A t : retiredCount(k, t) = retiredCount(g, t)
               /\ tag \in DOMAIN k.attempts /\ k.attempts[tag].own
<1> DEFINE k == recordAttempt(g, tag)
           new == [earlier |-> FALSE, retired |-> restoredRetired(g, tag), own |-> TRUE]
<1>1. /\ DOMAIN k = DOMAIN g /\ k.orders = g.orders /\ k.retiredSales = g.retiredSales
      /\ k.attempts = With(g.attempts, tag, new) /\ k.state = g.state
  BY AttemptFacts DEF GateOk
<1>2. restoredRetired(g, tag) \in Nat
  BY CountIsNat DEF GateOk
<1>3. {"retired", "own"} \subseteq DOMAIN new /\ new.retired = restoredRetired(g, tag) /\ new.own
  OBVIOUS
<1> HIDE DEF k, new
<1>4. /\ DOMAIN k.attempts = DOMAIN g.attempts \cup {tag} /\ k.attempts[tag] = new
      /\ \A t \in DOMAIN g.attempts : t # tag => k.attempts[t] = g.attempts[t]
  BY <1>1 DEF With
<1>5. GateRec(k) /\ k.state \in States
  BY <1>1 DEF GateOk, GateRec
<1>6. Shaped(k)
  BY <1>1, <1>2, <1>3, <1>4 DEF GateOk, Shaped
<1>7. \A t : restoredRetired(k, t) = restoredRetired(g, t)
  BY <1>3, <1>4 DEF restoredRetired
<1>8. \A t : retiredCount(k, t) = retiredCount(g, t)
  BY <1>1, <1>7 DEF retiredCount
<1>9. \A t \in DOMAIN g.attempts : t \in DOMAIN k.attempts /\ (g.attempts[t].own => k.attempts[t].own)
  BY <1>3, <1>4
<1>10. ASSUME NEW id, NEW t, Numbered(g, gone, id, t) PROVE Numbered(k, gone, id, t)
  BY <1>8, <1>9, <1>10 DEF Numbered
<1>11. Placed(k, gone, last)
  BY <1>1, <1>10 DEF GateOk, Placed
<1> QED BY <1>3, <1>4, <1>5, <1>6, <1>8, <1>11 DEF k, GateOk

\* The number of the sale to be attempted next is no order's.
LEMMA NextSaleIsNew ==
    ASSUME NEW g, NEW gone, NEW last, GateOk(g, gone, last), NEW tag, ~(tag \in DOMAIN g.attempts /\ g.attempts[tag].own)
    PROVE  SaleAttemptClientOrderID(tag, retiredCount(g, tag)) \notin DOMAIN g.orders
<1> DEFINE id == SaleAttemptClientOrderID(tag, retiredCount(g, tag))
<1>1. SUFFICES ASSUME id \in DOMAIN g.orders PROVE FALSE
  OBVIOUS
<1>2. retiredCount(g, tag) \in Nat
  BY CountIsNat DEF GateOk
<1>3. CASE g.orders[id].sale = None
  <2>1. Dated(id, last)
    BY <1>1, <1>3 DEF GateOk, Placed
  <2> QED BY <2>1, IDsApart DEF Dated
<1>4. CASE g.orders[id].sale # None
  <2>1. Numbered(g, gone, id, g.orders[id].tag)
    BY <1>1, <1>4 DEF GateOk, Placed
  <2>2. PICK n \in Nat : /\ id = SaleAttemptClientOrderID(g.orders[id].tag, n)
                         /\ \/ n < retiredCount(g, g.orders[id].tag)
                            \/ g.orders[id].tag \in DOMAIN g.attempts /\ g.attempts[g.orders[id].tag].own
    BY <2>1 DEF Numbered
  <2>3. g.orders[id].tag = tag /\ n = retiredCount(g, tag)
    BY <2>2, SaleIDs
  <2> QED BY <1>2, <2>2, <2>3
<1> QED BY <1>3, <1>4

LEMMA OkReleased ==
    ASSUME NEW g, NEW gone, NEW last, GateOk(g, gone, last), NEW k, NEW p, Released(g, k, p), p.id \notin DOMAIN g.orders,
           IF p.sale = None THEN Dated(p.id, last) ELSE Numbered(g, gone, p.id, p.tag)
    PROVE  GateOk(k, gone, last)
<1>1. GateRec(k) /\ k.state \in States
  BY DEF GateOk, Released, GateRec
<1>2. \A t : retiredCount(k, t) = retiredCount(g, t)
  BY DEF Released, retiredCount, restoredRetired
<1>3. ASSUME NEW id, NEW t, Numbered(g, gone, id, t) PROVE Numbered(k, gone, id, t)
  BY <1>2, <1>3 DEF Numbered, Released
<1> DEFINE new == [tag |-> p.tag, side |-> p.side, quantity |-> p.quantity, sale |-> p.sale, fills |-> {}]
<1>4. /\ {"tag", "side", "sale"} \subseteq DOMAIN new /\ new.tag = p.tag /\ new.sale = p.sale
      /\ DOMAIN k.orders = DOMAIN g.orders \cup {p.id} /\ k.orders[p.id] = new
      /\ \A id \in DOMAIN g.orders : k.orders[id] = g.orders[id]
  BY DEF Released, With
<1> HIDE DEF new
<1>5. Shaped(k)
  BY <1>4 DEF GateOk, Released, Shaped
<1>6. Placed(k, gone, last)
  BY <1>3, <1>4 DEF GateOk, Placed
<1> QED BY <1>1, <1>5, <1>6 DEF GateOk

LEMMA FrameFill ==
    ASSUME NEW g, NEW gone, NEW last, GateOk(g, gone, last), NEW f, f.order \in DOMAIN g.orders
    PROVE  Frame(g, ObserveFill(g, f)) /\ ObserveFill(g, f).state = g.state
  BY DEF GateOk, Shaped, GateRec, Frame, Kept, Tighter, SameArms, ObserveFill

LEMMA OkKillSwitch ==
    ASSUME NEW g, NEW gone, NEW last, GateOk(g, gone, last), NEW id, NEW p
    PROVE  LET k == SetKillSwitch(g, id, p)
           IN  /\ GateOk(k, gone, last) /\ k.orders = g.orders /\ SameArms(g, k)
               /\ k.state = g.state /\ k.scope = g.scope /\ k.incident = g.incident /\ k.killEngaged = p.engaged
<1> DEFINE k == SetKillSwitch(g, id, p)
<1>1. /\ DOMAIN k = DOMAIN g /\ k.orders = g.orders /\ k.attempts = g.attempts /\ k.retiredSales = g.retiredSales
      /\ SameArms(g, k) /\ k.state = g.state /\ k.scope = g.scope /\ k.incident = g.incident /\ k.killEngaged = p.engaged
  BY DEF GateOk, GateRec, SameArms, SetKillSwitch
<1> HIDE DEF k
<1>2. GateRec(k) /\ k.state \in States /\ Shaped(k)
  BY <1>1 DEF GateOk, GateRec, Shaped
<1>3. \A tag : retiredCount(k, tag) = retiredCount(g, tag)
  BY <1>1 DEF retiredCount, restoredRetired
<1>4. ASSUME NEW o, NEW tag, Numbered(g, gone, o, tag) PROVE Numbered(k, gone, o, tag)
  BY <1>1, <1>3, <1>4 DEF Numbered
<1>5. Placed(k, gone, last)
  BY <1>1, <1>4 DEF GateOk, Placed
<1> QED BY <1>1, <1>2, <1>5 DEF k, GateOk

----------------------------------------------------------------------------
(* What the gate says to an order *)

LEMMA ReleaseFacts ==
    ASSUME NEW g, GateRec(g), NEW p
    PROVE  Released(g, release(g, p), p)
  BY DEF GateRec, Released, Tighter, SameArms, release

\* What a verdict leaves of the gate, and what an order released passed.
Verdict(g, p, c) ==
    /\ \/ c.reason # "" /\ Frame(g, c.gate)
       \/ c.reason = "" /\ Released(g, c.gate, p) /\ (p.sale = None => g.state # "halted" /\ ~g.killEngaged /\ (g.state = "degraded" => p.side # "buy"))
    /\ c.states = <<>> \/ \E e : c.states = <<e>>

LEMMA VerdictRefused ==
    ASSUME NEW g, NEW k, Frame(g, k), NEW p, NEW reason, reason # "", NEW states, states = <<>> \/ \E e : states = <<e>>
    PROVE  Verdict(g, p, Outcome(k, reason, states))
<1>1. LET c == Outcome(k, reason, states) IN c.gate = k /\ c.reason = reason /\ c.states = states
  BY DEF Outcome
<1> QED BY <1>1 DEF Verdict

LEMMA VerdictReleased ==
    ASSUME NEW g, NEW k, NEW p, Released(g, k, p),
           p.sale = None => g.state # "halted" /\ ~g.killEngaged /\ (g.state = "degraded" => p.side # "buy")
    PROVE  Verdict(g, p, Outcome(k, "", <<>>))
<1>1. LET c == Outcome(k, "", <<>>) IN c.gate = k /\ c.reason = "" /\ c.states = <<>>
  BY DEF Outcome
<1> QED BY <1>1 DEF Verdict

LEMMA SaleVerdict ==
    ASSUME NEW g, GateRec(g), g.state \in States, NEW p, p.sale # None
    PROVE  Verdict(g, p, checkSale(g, p))
<1> DEFINE spent == [g EXCEPT !.pending = @ \ {p.id}]
<1>1. Frame(g, spent) /\ GateRec(spent) /\ spent.state = g.state
  BY DEF GateRec, Frame, Kept, Tighter, SameArms
<1>2. Released(g, release(spent, p), p)
  <2>1. /\ DOMAIN spent = DOMAIN g /\ spent.orders = g.orders /\ spent.attempts = g.attempts /\ spent.retiredSales = g.retiredSales
        /\ spent.killEngaged = g.killEngaged /\ SameArms(g, spent) /\ spent.scope = g.scope /\ spent.incident = g.incident
    BY DEF GateRec, SameArms
  <2>2. Released(spent, release(spent, p), p)
    BY <1>1, ReleaseFacts
  <2> HIDE DEF spent
  <2> QED BY <1>1, <2>1, <2>2 DEF Released, Tighter, SameArms
<1>3. Frame(g, halt(g, p.id)) /\ Frame(g, g)
  BY FrameHalt, FrameSelf
<1> DEFINE b == brokerHolding(g)
           reason == IF p.tag \notin g.saleTags THEN "undecided-order"
                     ELSE IF p.id \notin g.pending THEN "sale-attempted"
                     ELSE IF ~b.ok \/ p.quantity > subtractPending(b.holding, b.working) THEN "broker-holding"
                     ELSE ""
           c == checkSale(g, p)
<1>4. reason \in {"undecided-order", "sale-attempted", "broker-holding", ""}
  OBVIOUS
<1>5. c = CASE reason = "undecided-order" /\ g.state # "halted" -> Outcome(halt(g, p.id), reason, <<EngineState(halt(g, p.id), p.id)>>)
            [] reason = "undecided-order" /\ g.state = "halted" -> Outcome(g, reason, <<>>)
            [] reason = "sale-attempted" -> Outcome(g, reason, <<>>)
            [] reason = "broker-holding" -> Outcome(spent, reason, <<>>)
            [] reason = "" -> Outcome(release(spent, p), reason, <<>>)
  BY DEF checkSale
<1> HIDE DEF reason, spent, b, c
<1>6. \/ c = Outcome(halt(g, p.id), "undecided-order", <<EngineState(halt(g, p.id), p.id)>>)
      \/ c = Outcome(g, "undecided-order", <<>>)
      \/ c = Outcome(g, "sale-attempted", <<>>)
      \/ c = Outcome(spent, "broker-holding", <<>>)
      \/ c = Outcome(release(spent, p), "", <<>>)
  BY <1>4, <1>5
<1>7. Verdict(g, p, c)
  BY <1>1, <1>2, <1>3, <1>6, VerdictRefused, VerdictReleased
<1> QED BY <1>7 DEF c

LEMMA OrderVerdict ==
    ASSUME NEW g, GateRec(g), g.state \in States, NEW p, p.sale = None, NEW mark, NEW holdings, NEW at
    PROVE  Verdict(g, p, checkOrder(g, p, mark, holdings, at))
<1> DEFINE limit == breach(g, p, mark, holdings)
           reason == IF g.state = "halted" THEN "engine-halted"
                     ELSE IF p.tag \notin g.decided THEN "undecided-order"
                     ELSE IF g.killEngaged THEN "kill-switch"
                     ELSE IF g.state = "degraded" /\ (p.side = "buy" \/ Instrument \in g.scope) THEN "engine-degraded"
                     ELSE IF g.state = "degraded" /\ ~brokerHolding(g).ok THEN "broker-unread"
                     ELSE IF staleFor(g, p, at) THEN "stale-broker-snapshot"
                     ELSE IF limit # "" THEN "limit"
                     ELSE ""
           degraded == degrade(g, {Instrument}, p.id)
           c == checkOrder(g, p, mark, holdings, at)
           alerted == [g EXCEPT !.killAlerted = TRUE]
           stale == [g EXCEPT !.staleOpen = TRUE]
<1>1. Frame(g, halt(g, p.id)) /\ (g.state # "halted" => Frame(g, degraded)) /\ Frame(g, g) /\ Released(g, release(g, p), p)
  BY FrameHalt, FrameDegrade, FrameSelf, ReleaseFacts
<1>2. Frame(g, alerted) /\ Frame(g, stale)
  BY DEF GateRec, Frame, Kept, Tighter, SameArms
<1>3. /\ reason \in {"engine-halted", "undecided-order", "kill-switch", "engine-degraded", "broker-unread", "stale-broker-snapshot", "limit", ""}
      /\ reason = "limit" => limit # "" /\ g.state # "halted"
      /\ reason = "" => g.state # "halted" /\ ~g.killEngaged /\ (g.state = "degraded" => p.side # "buy")
  <2> HIDE DEF limit
  <2>1. reason \in {"engine-halted", "undecided-order", "kill-switch", "engine-degraded", "broker-unread", "stale-broker-snapshot", "limit", ""}
    OBVIOUS
  <2>2. reason = "limit" => limit # "" /\ g.state # "halted"
    OBVIOUS
  <2>3. reason = "" => g.state # "halted" /\ ~g.killEngaged /\ (g.state = "degraded" => p.side # "buy")
    OBVIOUS
  <2> QED BY <2>1, <2>2, <2>3
<1>4. c = CASE reason = "undecided-order" -> Outcome(halt(g, p.id), reason, <<EngineState(halt(g, p.id), p.id)>>)
            [] reason = "kill-switch" -> Outcome(alerted, reason, <<>>)
            [] reason = "stale-broker-snapshot" -> Outcome(stale, reason, <<>>)
            [] reason = "broker-unread" -> Outcome(g, "broker-holding", <<>>)
            [] reason = "limit" -> Outcome(degraded, limit, <<EngineState(degraded, p.id)>>)
            [] reason = "" -> Outcome(release(g, p), reason, <<>>)
            [] OTHER -> Outcome(g, reason, <<>>)
  BY DEF checkOrder
<1> HIDE DEF reason, c, alerted, stale, degraded, limit
<1>5. \/ c = Outcome(halt(g, p.id), "undecided-order", <<EngineState(halt(g, p.id), p.id)>>)
      \/ c = Outcome(alerted, "kill-switch", <<>>)
      \/ c = Outcome(stale, "stale-broker-snapshot", <<>>)
      \/ c = Outcome(g, "broker-holding", <<>>)
      \/ reason = "limit" /\ c = Outcome(degraded, limit, <<EngineState(degraded, p.id)>>)
      \/ reason = "" /\ c = Outcome(release(g, p), "", <<>>)
      \/ c = Outcome(g, reason, <<>>) /\ reason # ""
  BY <1>3, <1>4
<1>6. Verdict(g, p, c)
  <2>1. CASE reason = "" /\ c = Outcome(release(g, p), "", <<>>)
    <3>1. g.state # "halted" /\ ~g.killEngaged /\ (g.state = "degraded" => p.side # "buy")
      BY <1>3, <2>1
    <3>2. Verdict(g, p, Outcome(release(g, p), "", <<>>))
      BY <1>1, <3>1, VerdictReleased
    <3> QED BY <2>1, <3>2
  <2>2. CASE c = Outcome(halt(g, p.id), "undecided-order", <<EngineState(halt(g, p.id), p.id)>>)
    BY <1>1, <2>2, VerdictRefused
  <2>3. CASE reason = "limit" /\ c = Outcome(degraded, limit, <<EngineState(degraded, p.id)>>)
    BY <1>1, <1>3, <2>3, VerdictRefused
  <2>4. ASSUME NEW k \in {alerted, stale, g}, NEW r, r # "", c = Outcome(k, r, <<>>) PROVE Verdict(g, p, c)
    BY <1>1, <1>2, <2>4, VerdictRefused
  <2> QED BY <1>5, <2>1, <2>2, <2>3, <2>4
<1> QED BY <1>6 DEF c

LEMMA CheckVerdict ==
    ASSUME NEW g, GateRec(g), g.state \in States, NEW p, NEW mark, NEW holdings, NEW at
    PROVE  Verdict(g, p, Check(g, p, mark, holdings, at))
<1> DEFINE k == freshCheck(g, at)
<1>1. Frame(g, k) /\ k.state = g.state /\ GateRec(k)
  BY FrameFresh, FrameRec DEF Frame
<1>2. k.orders = g.orders
  BY DEF freshCheck, GateRec
<1>3. Check(g, p, mark, holdings, at) = IF p.sale # None THEN checkSale(k, p) ELSE checkOrder(k, p, mark, holdings, at)
  BY DEF Check
<1> HIDE DEF k
<1>4. ASSUME NEW c, Verdict(k, p, c) PROVE Verdict(g, p, c)
  <2>1. CASE c.reason # "" /\ Frame(k, c.gate)
    BY <1>1, <1>4, <2>1, FrameTwice DEF Verdict
  <2>2. CASE c.reason = "" /\ Released(k, c.gate, p)
    <3>1. Released(g, c.gate, p)
      BY <1>1, <1>2, <2>2 DEF Released, Frame, Kept, Tighter, SameArms
    <3> QED BY <1>1, <1>4, <2>2, <3>1 DEF Verdict, Frame, Kept
  <2> QED BY <1>4, <2>1, <2>2 DEF Verdict
<1> QED BY <1>1, <1>3, <1>4, SaleVerdict, OrderVerdict

----------------------------------------------------------------------------
(* The sales that wait *)

Exit(w) == [id |-> w.id, trigger |-> "exit"]
Urgent(w) == [id |-> w.id, trigger |-> "margin-urgent"]

\* The two sales a gate may hold back.
LEMMA ArmedMember ==
    ASSUME NEW g, NEW w
    PROVE  w \in Armed(g) <=> \/ g.exitWithheld # None /\ w = Exit(g.exitWithheld)
                              \/ g.urgentWithheld # None /\ w = Urgent(g.urgentWithheld)
  BY DEF Armed, Exit, Urgent

LEMMA ArmFields ==
    ASSUME NEW w
    PROVE  /\ Exit(w).id = w.id /\ Exit(w).trigger = "exit"
           /\ Urgent(w).id = w.id /\ Urgent(w).trigger = "margin-urgent"
  BY DEF Exit, Urgent

\* The ID of a sale.
SaleID(id) == \E tag, n : id = SaleAttemptClientOrderID(tag, n)

\* Every sale armed waits, under the ID of a sale.
ArmsOk(g, waits) == \A w \in Armed(g) : w \in waits /\ SaleID(w.id)

LEMMA ArmsSame ==
    ASSUME NEW g, NEW k, SameArms(g, k)
    PROVE  Armed(k) = Armed(g)
  BY DEF SameArms, Armed

LEMMA DisarmFacts ==
    ASSUME NEW g, GateRec(g), g.state \in States, NEW id
    PROVE  LET k == disarm(g, id)
           IN  /\ Kept(g, k) /\ k.state = g.state
               /\ \A w \in Armed(k) : w \in Armed(g) /\ w.id # id
<1> DEFINE k == disarm(g, id)
<1>1. Kept(g, k) /\ k.state = g.state
  BY DEF GateRec, Kept, Tighter, disarm
<1>2. /\ k.exitWithheld = IF armed(g.exitWithheld, id) THEN None ELSE g.exitWithheld
      /\ k.urgentWithheld = IF armed(g.urgentWithheld, id) THEN None ELSE g.urgentWithheld
  BY DEF GateRec, disarm
<1> HIDE DEF k
<1>3. ASSUME NEW w \in Armed(k) PROVE w \in Armed(g) /\ w.id # id
  <2>1. CASE k.exitWithheld # None /\ w = Exit(k.exitWithheld)
    BY <1>2, <2>1, ArmedMember, ArmFields DEF armed
  <2>2. CASE k.urgentWithheld # None /\ w = Urgent(k.urgentWithheld)
    BY <1>2, <2>2, ArmedMember, ArmFields DEF armed
  <2> QED BY <2>1, <2>2, ArmedMember
<1> QED BY <1>1, <1>3 DEF k

\* What lapses is armed no more.
LEMMA LapseFacts ==
    ASSUME NEW g, GateRec(g), g.state \in States, NEW l, l \in {lapseExit(g), LapseExitSale(g)}
    PROVE  /\ Kept(g, l.gate) /\ l.gate.state = g.state
           /\ \A w \in Armed(l.gate) : w \in Armed(g) /\ (l.lapsed # None => w.id # l.lapsed.id)
<1> DEFINE k == [g EXCEPT !.exitRetry = FALSE, !.exitWithheld = None]
           gone == IF g.exitWithheld = None THEN None
                   ELSE IF armed(g.urgentWithheld, g.exitWithheld.id) THEN None ELSE g.exitWithheld
<1>1. Kept(g, k) /\ k.state = g.state /\ k.exitWithheld = None /\ k.urgentWithheld = g.urgentWithheld
  BY DEF GateRec, Kept, Tighter
<1>2. l = [gate |-> k, lapsed |-> gone] \/ l = [gate |-> g, lapsed |-> None]
  BY DEF lapseExit, LapseExitSale
<1> HIDE DEF k
<1>3. ASSUME NEW w \in Armed(k) PROVE w \in Armed(g) /\ (gone # None => w.id # gone.id)
  BY <1>1, ArmedMember, ArmFields DEF armed
<1>4. Kept(g, g)
  BY DEF Kept, Tighter
<1> HIDE DEF gone
<1>5. CASE l = [gate |-> k, lapsed |-> gone]
  BY <1>1, <1>3, <1>5
<1>6. CASE l = [gate |-> g, lapsed |-> None]
  BY <1>4, <1>6
<1> QED BY <1>2, <1>5, <1>6

\* A broker snapshot: the gate after it holds back no sale but those before it, and none
\* that it lets lapse.
LEMMA BrokerFacts ==
    ASSUME NEW g, GateRec(g), g.state \in States, NEW s
    PROVE  LET o == ObserveBroker(g, s)
           IN  /\ Kept(g, o.gate) /\ o.gate.state = g.state
               /\ \A w \in Armed(o.gate) :
                   /\ w \in Armed(g)
                   /\ o.lapsed.exit # None => w.id # o.lapsed.exit.id
                   /\ o.lapsed.urgent # None => w.id # o.lapsed.urgent.id
               /\ ~(o.urgent /\ o.exit)
<1> DEFINE o == ObserveBroker(g, s)
           g1 == [recordBroker(g, s) EXCEPT !.firstBroker = IF g.broker = None THEN s.asOf ELSE @, !.broker = s, !.staleOpen = FALSE]
           over == g1.exitRetry /\ ~refusesExit(g1)
           exit == IF over THEN lapseExit(g1) ELSE [gate |-> g1, lapsed |-> None]
           alarm == alarmFor(g1, s)
           g2 == [exit.gate EXCEPT !.lastReading = IF alarm.reading THEN s.asOf ELSE @]
           changed == alarm.decided /\ alarm.level # g2.alarmLevel
           fired == fires(g2, s, alarm.level, changed, retriesExit(g1, s))
           dropped == /\ changed /\ g2.urgentRetry /\ alarm.level # "urgent" /\ g2.urgentWithheld # None
                      /\ ~armed(g2.exitWithheld, g2.urgentWithheld.id)
           id == <<"margin-alarm", s.asOf>>
           urgent == changed /\ alarm.level = "urgent"
           g3 == [g2 EXCEPT !.urgentRetry = FALSE,
                            !.urgentWithheld = IF g2.urgentRetry THEN None ELSE @,
                            !.alarmLevel = alarm.level,
                            !.alarmID = IF urgent THEN id ELSE @,
                            !.saleTags = IF urgent THEN @ \cup {id} ELSE @]
           last == IF dropped THEN g2.urgentWithheld ELSE None
<1>1. Frame(g, g1) /\ g1.state = g.state
  <2> DEFINE k == recordBroker(g, s)
  <2>1. Frame(g, k) /\ GateRec(k) /\ k.state = g.state
    BY FrameBroker, FrameRec DEF Frame, recordBroker, GateRec
  <2> HIDE DEF k
  <2>2. LET m == [k EXCEPT !.firstBroker = IF g.broker = None THEN s.asOf ELSE @, !.broker = s, !.staleOpen = FALSE]
        IN  Frame(k, m) /\ m.state = k.state
    BY <2>1 DEF GateRec, Frame, Kept, Tighter, SameArms
  <2> QED BY <2>1, <2>2, FrameTwice DEF k
<1>2. o = [gate |-> IF ~changed THEN g2 ELSE g3, urgent |-> fired.urgent, exit |-> fired.exit,
           lapsed |-> [exit |-> exit.lapsed, urgent |-> last]]
  BY DEF ObserveBroker
<1>3. Kept(g, exit.gate) /\ exit.gate.state = g.state /\ GateRec(exit.gate)
      /\ \A w \in Armed(exit.gate) : w \in Armed(g) /\ (exit.lapsed # None => w.id # exit.lapsed.id)
  <2> HIDE DEF g1, over
  <2>1. GateRec(g1) /\ g1.state \in States /\ Kept(g, g1) /\ Armed(g1) = Armed(g)
    BY <1>1, FrameRec, ArmsSame DEF Frame
  <2>2. /\ Kept(g1, exit.gate) /\ exit.gate.state = g1.state
        /\ \A w \in Armed(exit.gate) : w \in Armed(g1) /\ (exit.lapsed # None => w.id # exit.lapsed.id)
    <3>1. CASE over
      BY <2>1, <3>1, LapseFacts
    <3>2. CASE ~over
      BY <3>2 DEF Kept, Tighter
    <3> QED BY <3>1, <3>2
  <2> HIDE DEF exit
  <2> QED BY <1>1, <2>1, <2>2, KeptTwice, FrameRec
<1> HIDE DEF g1, over, exit, alarm
<1>4. /\ Kept(exit.gate, g2) /\ g2.state = exit.gate.state /\ GateRec(g2)
      /\ g2.exitWithheld = exit.gate.exitWithheld /\ g2.urgentWithheld = exit.gate.urgentWithheld
  BY <1>3 DEF Kept, Tighter, GateRec
<1> HIDE DEF g2, changed, fired, o
<1>5. /\ Kept(g2, g3) /\ g3.state = g2.state
      /\ g3.exitWithheld = g2.exitWithheld /\ g3.urgentWithheld = IF g2.urgentRetry THEN None ELSE g2.urgentWithheld
  BY <1>4 DEF Kept, Tighter, GateRec
<1>6. Armed(g2) = Armed(exit.gate)
  BY <1>4, ArmsSame DEF SameArms
<1> HIDE DEF g3
<1>7. ASSUME NEW w \in Armed(g3) PROVE w \in Armed(g2)
  BY <1>5, ArmedMember
<1>8. ASSUME NEW w \in Armed(g3), dropped PROVE w.id # g2.urgentWithheld.id
  BY <1>5, <1>8, ArmedMember, ArmFields DEF armed
<1>9. dropped => changed
  OBVIOUS
<1> HIDE DEF dropped
<1>10. /\ o.gate = IF ~changed THEN g2 ELSE g3
       /\ o.urgent = fired.urgent /\ o.exit = fired.exit
       /\ o.lapsed.exit = exit.lapsed /\ o.lapsed.urgent = last
  BY <1>2
<1>11. ~(fired.urgent /\ fired.exit)
  BY DEF fired, fires
<1>12. Kept(g, o.gate) /\ o.gate.state = g.state
  BY <1>3, <1>4, <1>5, <1>10, KeptTwice
<1>13. ASSUME NEW w \in Armed(o.gate)
       PROVE  /\ w \in Armed(g)
              /\ o.lapsed.exit # None => w.id # o.lapsed.exit.id
              /\ o.lapsed.urgent # None => w.id # o.lapsed.urgent.id
  <2>1. w \in Armed(exit.gate)
    BY <1>6, <1>7, <1>10
  <2>2. o.lapsed.urgent # None => w.id # o.lapsed.urgent.id
    BY <1>8, <1>9, <1>10
  <2> QED BY <1>3, <1>10, <2>1, <2>2
<1> QED BY <1>10, <1>11, <1>12, <1>13 DEF o

----------------------------------------------------------------------------
(* The sale a trigger fires *)

\* A sale is planned under the next number of its tag, or withheld under it.
LEMMA PlanFacts ==
    ASSUME NilIsNoRecord, NEW g, NEW tag, NEW kind, NEW trigger, NEW at
    PROVE  LET plan == PlanSale(g, tag, kind, trigger, at)
               id == SaleAttemptClientOrderID(tag, retiredCount(g, tag))
           IN  \/ /\ plan.withheld = None
                  /\ plan.order.id = id /\ plan.order.tag = tag /\ plan.order.side = "sell"
                  /\ plan.order.sale # None /\ plan.order.sale.trigger = trigger
               \/ plan.withheld # None /\ plan.withheld.id = id /\ plan.withheld.trigger = trigger
<1> DEFINE plan == PlanSale(g, tag, kind, trigger, at)
           id == SaleAttemptClientOrderID(tag, retiredCount(g, tag))
<1>1. ASSUME NEW r, r = [x \in DOMAIN r |-> r[x]] PROVE r # None
  BY <1>1 DEF NilIsNoRecord
<1>2. \E reason, quantity, holding, working :
          plan = [order    |-> IF reason # "" THEN None
                               ELSE [id |-> id, tag |-> tag, side |-> "sell", quantity |-> quantity, held |-> holding,
                                     sale |-> [kind |-> kind, trigger |-> trigger, working |-> working]],
                  withheld |-> IF reason = "" THEN None ELSE [id |-> id, tag |-> tag, kind |-> kind, trigger |-> trigger, reason |-> reason]]
  BY DEF PlanSale
<1>3. PICK reason, quantity, holding, working :
          plan = [order    |-> IF reason # "" THEN None
                               ELSE [id |-> id, tag |-> tag, side |-> "sell", quantity |-> quantity, held |-> holding,
                                     sale |-> [kind |-> kind, trigger |-> trigger, working |-> working]],
                  withheld |-> IF reason = "" THEN None ELSE [id |-> id, tag |-> tag, kind |-> kind, trigger |-> trigger, reason |-> reason]]
  BY <1>2
<1> DEFINE figures1 == [kind |-> kind, trigger |-> trigger, working |-> working]
           w == [id |-> id, tag |-> tag, kind |-> kind, trigger |-> trigger, reason |-> reason]
<1>4. figures1 # None /\ w # None
  <2>1. figures1 = [x \in DOMAIN figures1 |-> figures1[x]]
    OBVIOUS
  <2>2. w = [x \in DOMAIN w |-> w[x]]
    OBVIOUS
  <2> HIDE DEF figures1, w
  <2> QED BY <1>1, <2>1, <2>2
<1>5. w.id = id /\ w.trigger = trigger /\ figures1.trigger = trigger
  OBVIOUS
<1>6. plan = [order    |-> IF reason # "" THEN None
                           ELSE [id |-> id, tag |-> tag, side |-> "sell", quantity |-> quantity, held |-> holding, sale |-> figures1],
              withheld |-> IF reason = "" THEN None ELSE w]
  BY <1>3
<1> HIDE DEF figures1, w, plan, id
<1>7. CASE reason = ""
  <2> DEFINE p == [id |-> id, tag |-> tag, side |-> "sell", quantity |-> quantity, held |-> holding, sale |-> figures1]
  <2>1. p.id = id /\ p.tag = tag /\ p.side = "sell" /\ p.sale = figures1
    OBVIOUS
  <2> HIDE DEF p
  <2>2. plan = [order |-> p, withheld |-> None]
    BY <1>6, <1>7 DEF p
  <2>3. plan.order = p /\ plan.withheld = None
    BY <2>2
  <2> QED BY <1>4, <1>5, <2>1, <2>3 DEF plan, id
<1>8. CASE reason # ""
  <2>1. plan = [order |-> None, withheld |-> w]
    BY <1>6, <1>8
  <2>2. plan.withheld = w
    BY <2>1
  <2> QED BY <1>4, <1>5, <2>2 DEF plan, id
<1> QED BY <1>7, <1>8

\* What is armed under the trigger of a sale that was decided: that sale if it waits.
LEMMA RearmFacts ==
    ASSUME NEW g, NEW k, NEW trigger \in Triggers, NEW new,
           trigger = "margin-urgent" => k.exitWithheld = g.exitWithheld /\ k.urgentWithheld = new,
           trigger = "exit" => k.urgentWithheld = g.urgentWithheld /\ k.exitWithheld = new,
           NEW v \in Armed(k)
    PROVE  \/ v \in Armed(g) /\ v.trigger # trigger
           \/ new # None /\ v = [id |-> new.id, trigger |-> trigger]
<1>1. CASE trigger = "margin-urgent"
  <2>1. CASE k.exitWithheld # None /\ v = Exit(k.exitWithheld)
    BY <1>1, <2>1, ArmedMember, ArmFields
  <2>2. CASE k.urgentWithheld # None /\ v = Urgent(k.urgentWithheld)
    BY <1>1, <2>2 DEF Urgent
  <2> QED BY <2>1, <2>2, ArmedMember
<1>2. CASE trigger = "exit"
  <2>1. CASE k.exitWithheld # None /\ v = Exit(k.exitWithheld)
    BY <1>2, <2>1 DEF Exit
  <2>2. CASE k.urgentWithheld # None /\ v = Urgent(k.urgentWithheld)
    BY <1>2, <2>2, ArmedMember, ArmFields
  <2> QED BY <2>1, <2>2, ArmedMember
<1> QED BY <1>1, <1>2 DEF Triggers

\* The attempt at the sale of a tag, if it is spent.
AfterAttempt(g, k) == Kept(g, k) \/ \E tag : Kept(recordAttempt(g, tag), k)

\* Nothing is fired: at most what waited is forgotten.
NotFired(g, s) == ~s.ok /\ Kept(g, s.gate) /\ \A v \in Armed(s.gate) : v \in Armed(g)

\* The sale is withheld.
Withheld(g, s, trigger) ==
    LET w == s.withheld
    IN  /\ s.ok /\ w # None /\ SaleID(w.id) /\ w.trigger = trigger
        /\ AfterAttempt(g, s.gate)
        /\ \A v \in Armed(s.gate) : \/ v \in Armed(g) /\ v.trigger # trigger /\ (Attempted(w) => v.id # w.id)
                                    \/ Retryable(w) /\ v = [id |-> w.id, trigger |-> trigger]

\* The sale is planned, for the first time since its tag's last one was retired.
Fired(g, s, trigger) ==
    LET p == s.order
    IN  /\ s.ok /\ s.withheld = None
        /\ p.side = "sell" /\ p.sale # None /\ p.sale.trigger = trigger
        /\ p.id = SaleAttemptClientOrderID(p.tag, retiredCount(g, p.tag))
        /\ Kept(recordAttempt(g, p.tag), s.gate)
        /\ ~(p.tag \in DOMAIN g.attempts /\ g.attempts[p.tag].own)
        /\ \A v \in Armed(s.gate) : v \in Armed(g) /\ v.trigger # trigger /\ v.id # p.id

LEMMA SaleFacts ==
    ASSUME NilIsNoRecord, NEW g, GateRec(g), g.state \in States, NEW trigger \in Triggers, NEW at
    PROVE  LET s == Sale(g, trigger, at)
           IN  s.gate.state = g.state /\ (NotFired(g, s) \/ Withheld(g, s, trigger) \/ Fired(g, s, trigger))
<1> DEFINE s == Sale(g, trigger, at)
           t == saleTag(g, trigger)
           plan == PlanSale(g, t.tag, t.kind, trigger, at)
           w == plan.withheld
           spends == IF w = None THEN TRUE ELSE Attempted(w)
           retry == IF w = None THEN FALSE ELSE w.reason \in {"stale-broker-snapshot", "non-positive-broker-values"}
           stale == IF w = None THEN FALSE ELSE w.reason = "stale-broker-snapshot"
           g1 == IF spends THEN recordAttempt(g, t.tag) ELSE g
           g2 == IF w = None THEN [g1 EXCEPT !.pending = @ \cup {plan.order.id}] ELSE g1
           g3 == freshCheck(g2, at)
           g4 == [g3 EXCEPT !.staleOpen = @ \/ stale]
           g5 == IF trigger = "margin-urgent" THEN [g4 EXCEPT !.urgentRetry = retry, !.urgentWithheld = IF retry THEN w ELSE None]
                 ELSE [g4 EXCEPT !.exitRetry = retry, !.exitWithheld = IF retry THEN w ELSE None]
           id == SaleAttemptClientOrderID(t.tag, retiredCount(g, t.tag))
           g6 == IF spends THEN disarm(g5, id) ELSE g5
<1>1. s = IF t.tag = NoTag THEN [gate |-> g, ok |-> FALSE, order |-> None, withheld |-> None]
          ELSE IF saleAttemptedFor(g, t.tag) THEN [gate |-> disarm(g, id), ok |-> FALSE, order |-> None, withheld |-> None]
          ELSE [gate |-> g6, ok |-> TRUE, order |-> plan.order, withheld |-> w]
  BY DEF Sale
<1>2. \/ /\ w = None
         /\ plan.order.id = id /\ plan.order.tag = t.tag /\ plan.order.side = "sell"
         /\ plan.order.sale # None /\ plan.order.sale.trigger = trigger
      \/ w # None /\ w.id = id /\ w.trigger = trigger
  <2> HIDE DEF t
  <2> QED BY PlanFacts
<1> HIDE DEF s, t, plan, id
<1>3. CASE t.tag = NoTag
  BY <1>1, <1>3 DEF NotFired, Kept, Tighter, s
<1>4. CASE t.tag # NoTag /\ saleAttemptedFor(g, t.tag)
  <2>1. s.gate = disarm(g, id) /\ ~s.ok
    BY <1>1, <1>4
  <2> QED BY <2>1, DisarmFacts DEF NotFired, s
<1>5. CASE t.tag # NoTag /\ ~saleAttemptedFor(g, t.tag)
  <2>1. s.gate = g6 /\ s.ok /\ s.order = plan.order /\ s.withheld = w
    BY <1>1, <1>5
  <2>2. GateRec(g1) /\ g1.state = g.state /\ Armed(g1) = Armed(g)
    <3>1. LET k == recordAttempt(g, t.tag) IN GateRec(k) /\ k.state = g.state /\ Armed(k) = Armed(g)
      BY AttemptFacts, ArmsSame DEF GateRec
    <3> QED BY <3>1
  <2> HIDE DEF g1, w, spends, retry, stale
  <2>3. Frame(g1, g2) /\ g2.state = g1.state /\ GateRec(g2)
    BY <2>2 DEF GateRec, Frame, Kept, Tighter, SameArms
  <2> HIDE DEF g2
  <2>4. Frame(g2, g3) /\ g3.state = g1.state /\ GateRec(g3)
    BY <2>2, <2>3, FrameFresh, FrameRec DEF Frame
  <2> HIDE DEF g3
  <2>5. Frame(g3, g4) /\ g4.state = g1.state /\ GateRec(g4)
    BY <2>2, <2>4 DEF GateRec, Frame, Kept, Tighter, SameArms
  <2>6. Kept(g1, g4) /\ Armed(g4) = Armed(g)
    BY <2>2, <2>3, <2>4, <2>5, FrameTwice, ArmsSame DEF Frame
  <2> HIDE DEF g4
  <2>7. /\ Kept(g4, g5) /\ g5.state = g.state
        /\ \A v \in Armed(g5) : \/ v \in Armed(g) /\ v.trigger # trigger
                                \/ retry /\ v = [id |-> w.id, trigger |-> trigger]
    <3> DEFINE new == IF retry THEN w ELSE None
    <3>1. Kept(g4, g5) /\ g5.state = g4.state
      BY <2>5 DEF GateRec, Kept, Tighter
    <3>2. /\ trigger = "margin-urgent" => g5.exitWithheld = g4.exitWithheld /\ g5.urgentWithheld = new
          /\ trigger = "exit" => g5.urgentWithheld = g4.urgentWithheld /\ g5.exitWithheld = new
      BY <2>5 DEF GateRec
    <3>3. new # None => retry /\ new = w
      OBVIOUS
    <3> HIDE DEF g5, new
    <3>4. \A v \in Armed(g5) : \/ v \in Armed(g4) /\ v.trigger # trigger
                               \/ new # None /\ v = [id |-> new.id, trigger |-> trigger]
      BY <3>2, RearmFacts
    <3> QED BY <2>2, <2>5, <2>6, <3>1, <3>3, <3>4
  <2>8. GateRec(g5)
    BY <2>5, <2>7, FrameRec
  <2> HIDE DEF g5
  <2>9. /\ Kept(g1, g6) /\ g6.state = g.state
        /\ \A v \in Armed(g6) : v \in Armed(g5) /\ (spends => v.id # id)
    <3>1. LET k == disarm(g5, id) IN Kept(g5, k) /\ k.state = g5.state /\ \A v \in Armed(k) : v \in Armed(g5) /\ v.id # id
      BY <2>7, <2>8, DisarmFacts
    <3>2. Kept(g5, g6) /\ g6.state = g5.state /\ \A v \in Armed(g6) : v \in Armed(g5) /\ (spends => v.id # id)
      BY <3>1 DEF Kept, Tighter
    <3> QED BY <2>6, <2>7, <3>2, KeptTwice
  <2> HIDE DEF g6
  <2>10. CASE w = None
    <3>1. spends /\ ~retry
      BY <2>10 DEF spends, retry
    <3>2. g1 = recordAttempt(g, t.tag)
      BY <3>1 DEF g1
    <3>3. Fired(g, s, trigger)
      BY <1>2, <1>5, <2>1, <2>7, <2>9, <2>10, <3>1, <3>2 DEF Fired, saleAttemptedFor, id
    <3> QED BY <2>1, <2>9, <3>3 DEF s
  <2>11. CASE w # None
    <3>1. (spends <=> Attempted(w)) /\ (retry <=> Retryable(w))
      BY <2>11 DEF spends, retry, Retryable
    <3>2. AfterAttempt(g, g6)
      BY <2>9 DEF AfterAttempt, g1
    <3>3. w.id = id /\ w.trigger = trigger /\ SaleID(w.id)
      BY <1>2, <2>11 DEF SaleID, id
    <3>4. Withheld(g, s, trigger)
      BY <2>1, <2>7, <2>9, <2>11, <3>1, <3>2, <3>3 DEF Withheld
    <3> QED BY <2>1, <2>9, <3>4 DEF s
  <2> QED BY <2>10, <2>11
<1> QED BY <1>3, <1>4, <1>5

LEMMA OkGone ==
    ASSUME NEW g, NEW gone, NEW more, gone \subseteq more, NEW last, GateOk(g, gone, last)
    PROVE  GateOk(g, more, last)
<1>1. ASSUME NEW id, NEW tag, Numbered(g, gone, id, tag) PROVE Numbered(g, more, id, tag)
  BY <1>1 DEF Numbered
<1> QED BY <1>1 DEF GateOk, Placed

\* A sale retired as never sent: its tag's attempt is given back and counted as gone.
LEMMA OkRetired ==
    ASSUME NEW g, NEW gone, NEW last, GateOk(g, gone, last), NEW id \in DOMAIN g.orders, g.orders[id].sale # None, id \notin gone
    PROVE  LET k == RetireSale(g, id).gate
           IN  /\ GateOk(k, gone \cup {id}, last) /\ k.orders = g.orders /\ k.state = g.state /\ k.killEngaged = g.killEngaged
               /\ k.scope = g.scope /\ k.incident = g.incident
               /\ \A w \in Armed(k) : w \in Armed(g)
<1> DEFINE k == RetireSale(g, id).gate
           tag == g.orders[id].tag
           urgent == g.orders[id].sale.trigger = "margin-urgent" /\ g.alarmLevel = "urgent"
           exit == g.orders[id].sale.trigger = "exit" /\ refusesExit(g)
           given == [g EXCEPT !.attempts = IF tag \in DOMAIN @ THEN [@ EXCEPT ![tag].own = FALSE] ELSE @,
                              !.retiredSales = With(@, tag, 1 + (IF tag \in DOMAIN @ THEN @[tag] ELSE 0))]
           attempts == IF tag \in DOMAIN g.attempts THEN [g.attempts EXCEPT ![tag].own = FALSE] ELSE g.attempts
           retired == With(g.retiredSales, tag, 1 + (IF tag \in DOMAIN g.retiredSales THEN g.retiredSales[tag] ELSE 0))
<1>0. GateRec(g) /\ g.state \in States /\ Shaped(g) /\ Placed(g, gone, last)
  BY DEF GateOk
<1>1. k = [given EXCEPT !.urgentRetry = @ \/ urgent, !.urgentWithheld = IF urgent THEN None ELSE @,
                        !.exitRetry = @ \/ exit, !.exitWithheld = IF exit THEN None ELSE @]
  BY DEF RetireSale
<1>2. /\ DOMAIN given = DOMAIN g /\ given.orders = g.orders /\ given.attempts = attempts /\ given.retiredSales = retired
      /\ given.state = g.state /\ given.scope = g.scope /\ given.incident = g.incident
      /\ given.killEngaged = g.killEngaged /\ SameArms(g, given)
  <2> HIDE DEF tag
  <2> QED BY <1>0 DEF GateRec, SameArms
<1> HIDE DEF given, urgent, exit, attempts, retired, k
<1>3. /\ DOMAIN k = DOMAIN g /\ k.orders = g.orders /\ k.attempts = attempts /\ k.retiredSales = retired
      /\ k.state = g.state /\ k.scope = g.scope /\ k.incident = g.incident /\ k.killEngaged = g.killEngaged
      /\ k.urgentWithheld = (IF urgent THEN None ELSE g.urgentWithheld) /\ k.exitWithheld = (IF exit THEN None ELSE g.exitWithheld)
  BY <1>0, <1>1, <1>2 DEF GateRec, SameArms
<1>4. /\ DOMAIN attempts = DOMAIN g.attempts
      /\ \A t \in DOMAIN g.attempts : /\ attempts[t].retired = g.attempts[t].retired /\ DOMAIN attempts[t] = DOMAIN g.attempts[t]
                                      /\ t # tag => attempts[t] = g.attempts[t]
  BY <1>0 DEF attempts, Shaped
<1>5. /\ DOMAIN retired = DOMAIN g.retiredSales \cup {tag}
      /\ \A t \in DOMAIN g.retiredSales : t # tag => retired[t] = g.retiredSales[t]
      /\ retired[tag] = 1 + (IF tag \in DOMAIN g.retiredSales THEN g.retiredSales[tag] ELSE 0)
  BY DEF retired, With
<1> HIDE DEF tag
<1>6. GateRec(k) /\ k.state \in States
  BY <1>0, <1>3 DEF GateRec
<1>7. Shaped(k)
  BY <1>0, <1>3, <1>4, <1>5 DEF Shaped
<1>8. \A t : restoredRetired(k, t) = restoredRetired(g, t)
  BY <1>3, <1>4 DEF restoredRetired
<1>9. retiredCount(g, tag) \in Nat /\ restoredRetired(g, tag) \in Nat
  BY <1>0, CountIsNat
<1>10. retiredCount(k, tag) = retiredCount(g, tag) + 1
  BY <1>0, <1>3, <1>5, <1>8, <1>9 DEF retiredCount, Shaped
<1>11. \A t : t # tag => retiredCount(k, t) = retiredCount(g, t)
  BY <1>3, <1>5, <1>8 DEF retiredCount
<1>12. Numbered(g, gone, id, tag)
  BY <1>0 DEF Placed, tag
<1>13. id = SaleAttemptClientOrderID(tag, retiredCount(g, tag))
  BY <1>12 DEF Numbered
<1>14. ASSUME NEW o, NEW t, Numbered(g, gone, o, t) PROVE Numbered(k, gone \cup {id}, o, t)
  <2>1. PICK n \in Nat : /\ o = SaleAttemptClientOrderID(t, n)
                         /\ \/ n < retiredCount(g, t) /\ o \in gone
                            \/ n = retiredCount(g, t) /\ t \in DOMAIN g.attempts /\ g.attempts[t].own
    BY <1>14 DEF Numbered
  <2>2. CASE t = tag
    <3>1. n < retiredCount(k, t) /\ o \in gone \cup {id}
      BY <1>9, <1>10, <1>13, <2>1, <2>2
    <3> QED BY <2>1, <3>1 DEF Numbered
  <2>3. CASE t # tag
    <3>1. retiredCount(k, t) = retiredCount(g, t)
      BY <1>11, <2>3
    <3>2. t \in DOMAIN g.attempts => t \in DOMAIN k.attempts /\ k.attempts[t] = g.attempts[t]
      BY <1>3, <1>4, <2>3
    <3> QED BY <2>1, <3>1, <3>2 DEF Numbered
  <2> QED BY <2>2, <2>3
<1>15. Placed(k, gone \cup {id}, last)
  BY <1>0, <1>3, <1>14 DEF Placed
<1>16. ASSUME NEW w \in Armed(k) PROVE w \in Armed(g)
  BY <1>3, ArmedMember
<1> QED BY <1>3, <1>6, <1>7, <1>15, <1>16 DEF k, GateOk

----------------------------------------------------------------------------
(* What a handler writes while it answers an input *)

HandlerRec(x) == {"gate", "out", "cleared", "retired", "lastPeriod", "verdicts", "mode", "fault"} \subseteq DOMAIN x

\* What was written stays written.
Begins(s, t) == \A i \in DOMAIN s : i \in DOMAIN t /\ t[i] = s[i]

\* The orders released among the events written: none, or one.
Says(out, P) ==
    /\ IsList(out)
    /\ \/ P = {} /\ \A i \in DOMAIN out : out[i].type # "order.released"
       \/ \E i \in DOMAIN out : /\ out[i].type = "order.released" /\ P = {out[i].order}
                                /\ \A j \in DOMAIN out : j # i => out[j].type # "order.released"

\* The orders of a gate after those of P were released by a gate g.
Grown(g, k, P) ==
    /\ k.killEngaged = g.killEngaged /\ Tighter(g, k)
    /\ DOMAIN k.orders = DOMAIN g.orders \cup {p.id : p \in P}
    /\ \A id \in DOMAIN g.orders : k.orders[id].tag = g.orders[id].tag /\ k.orders[id].sale = g.orders[id].sale
    /\ \A p \in P : p.id \notin DOMAIN g.orders /\ k.orders[p.id].tag = p.tag /\ k.orders[p.id].sale = p.sale

\* A buy is released only where nothing bars it.
Allowed(x, p) == p.side = "buy" => x.gate.state = "normal" /\ ~x.gate.killEngaged /\ ~Stopped(x.verdicts)

\* The handler y on its way from x, with the orders of P released.
Sound(y, x, last, P, waits) ==
    /\ HandlerRec(y) /\ IsList(y.retired) /\ y.lastPeriod = last
    /\ GateOk(y.gate, Ids(y.retired), last)
    /\ Says(y.out, P) /\ Begins(x.out, y.out) /\ Grown(x.gate, y.gate, P) /\ \A p \in P : Allowed(x, p)
    /\ ArmsOk(y.gate, Waiting(waits, y.out))

LEMMA SaysOther ==
    ASSUME NEW out, NEW P, Says(out, P), NEW e, e.type # "order.released"
    PROVE  Says(Append(out, e), P)
<1>1. /\ IsList(Append(out, e)) /\ DOMAIN Append(out, e) = 1..(Len(out) + 1) /\ Append(out, e)[Len(out) + 1] = e
      /\ \A i \in 1..Len(out) : Append(out, e)[i] = out[i]
      /\ Len(out) \in Nat /\ DOMAIN out = 1..Len(out)
  BY AppendFacts, ListFacts DEF Says
<1> DEFINE next == Append(out, e)
           L == Len(out)
<1> HIDE DEF next, L
<1>2. /\ IsList(next) /\ DOMAIN next = 1..(L + 1) /\ next[L + 1] = e
      /\ \A i \in 1..L : next[i] = out[i]
      /\ L \in Nat /\ DOMAIN out = 1..L
  BY <1>1 DEF next, L
<1>3. \A i \in DOMAIN next : (i \in DOMAIN out /\ next[i] = out[i]) \/ (i = L + 1 /\ next[i].type # "order.released")
  BY <1>2
<1>4. \A i \in DOMAIN out : i \in DOMAIN next
  BY <1>2
<1>5. CASE P = {} /\ \A i \in DOMAIN out : out[i].type # "order.released"
  BY <1>2, <1>3, <1>5 DEF Says, next
<1>6. CASE \E i \in DOMAIN out : /\ out[i].type = "order.released" /\ P = {out[i].order}
                                 /\ \A j \in DOMAIN out : j # i => out[j].type # "order.released"
  <2>1. PICK i \in DOMAIN out : /\ out[i].type = "order.released" /\ P = {out[i].order}
                                /\ \A j \in DOMAIN out : j # i => out[j].type # "order.released"
    BY <1>6
  <2>2. i \in DOMAIN next /\ next[i] = out[i]
    BY <1>2, <1>4
  <2>3. \A j \in DOMAIN next : j # i => next[j].type # "order.released"
    BY <1>3, <2>1
  <2> QED BY <1>2, <2>1, <2>2, <2>3 DEF Says, next
<1> QED BY <1>5, <1>6 DEF Says

LEMMA SaysRelease ==
    ASSUME NEW out, Says(out, {}), NEW e, e.type = "order.released"
    PROVE  Says(Append(out, e), {e.order})
<1> DEFINE next == Append(out, e)
           L == Len(out)
<1>1. /\ IsList(next) /\ DOMAIN next = 1..(L + 1) /\ next[L + 1] = e
      /\ \A i \in 1..L : next[i] = out[i]
      /\ L \in Nat /\ DOMAIN out = 1..L
  BY AppendFacts, ListFacts DEF Says
<1>2. \A i \in DOMAIN out : out[i].type # "order.released"
  BY DEF Says
<1> HIDE DEF next, L
<1>3. L + 1 \in DOMAIN next /\ \A j \in DOMAIN next : j # L + 1 => next[j].type # "order.released"
  BY <1>1, <1>2
<1> QED BY <1>1, <1>3 DEF Says, next

LEMMA BeginsLonger ==
    ASSUME NEW s, NEW t, IsList(t), Begins(s, t), NEW e
    PROVE  Begins(s, Append(t, e))
<1>1. DOMAIN t = 1..Len(t) /\ Len(t) \in Nat /\ DOMAIN Append(t, e) = 1..(Len(t) + 1) /\ \A i \in 1..Len(t) : Append(t, e)[i] = t[i]
  BY ListFacts, AppendFacts
<1>2. \A i \in 1..Len(t) : i \in 1..(Len(t) + 1)
  BY <1>1
<1> QED BY <1>1, <1>2 DEF Begins

LEMMA NoEvent ==
    ASSUME NEW e, e.type \notin {"sale.withheld", "sale.lapsed", "order.planned"}, NEW w
    PROVE  ~Closes(e, w) /\ Opens(e) = {}
  BY DEF Closes, Opens

\* A gate that spent an attempt at most.
LEMMA OkAfter ==
    ASSUME NEW g, NEW gone, NEW last, GateOk(g, gone, last), NEW k, AfterAttempt(g, k), k.state \in States
    PROVE  /\ GateOk(k, gone, last) /\ k.killEngaged = g.killEngaged /\ Tighter(g, k) /\ DOMAIN k.orders = DOMAIN g.orders
           /\ \A id \in DOMAIN g.orders : k.orders[id].tag = g.orders[id].tag /\ k.orders[id].sale = g.orders[id].sale
<1>1. GateRec(g)
  BY DEF GateOk
<1>2. \A tag : /\ GateOk(recordAttempt(g, tag), gone, last) /\ recordAttempt(g, tag).orders = g.orders
               /\ recordAttempt(g, tag).killEngaged = g.killEngaged /\ recordAttempt(g, tag).state = g.state
               /\ recordAttempt(g, tag).scope = g.scope /\ recordAttempt(g, tag).incident = g.incident
  BY <1>1, OkAttempt, AttemptFacts
<1>3. CASE Kept(g, k)
  BY <1>3, OkKept DEF Kept
<1>4. ASSUME NEW tag, Kept(recordAttempt(g, tag), k)
      PROVE  /\ GateOk(k, gone, last) /\ k.killEngaged = g.killEngaged /\ Tighter(g, k) /\ DOMAIN k.orders = DOMAIN g.orders
             /\ \A id \in DOMAIN g.orders : k.orders[id].tag = g.orders[id].tag /\ k.orders[id].sale = g.orders[id].sale
  <2>1. GateOk(k, gone, last)
    BY <1>2, <1>4, OkKept
  <2>2. Tighter(g, k)
    BY <1>2, <1>4 DEF Kept, Tighter
  <2> QED BY <1>2, <1>4, <2>1, <2>2 DEF Kept
<1> QED BY <1>3, <1>4 DEF AfterAttempt

\* A step that spends an attempt and drops what waits at most, and writes nothing.
LEMMA SoundGate ==
    ASSUME NEW y, NEW x, NEW last, NEW P, NEW waits, Sound(y, x, last, P, waits),
           NEW z, HandlerRec(z), z.out = y.out, z.retired = y.retired, z.lastPeriod = y.lastPeriod,
           AfterAttempt(y.gate, z.gate), z.gate.state \in States, \A w \in Armed(z.gate) : w \in Armed(y.gate)
    PROVE  Sound(z, x, last, P, waits)
<1>1. GateOk(z.gate, Ids(z.retired), last)
  BY OkAfter DEF Sound
<1>2. Grown(x.gate, z.gate, P)
  BY OkAfter DEF Sound, Grown, Tighter
<1>3. ArmsOk(z.gate, Waiting(waits, z.out))
  BY DEF Sound, ArmsOk
<1> QED BY <1>1, <1>2, <1>3 DEF Sound

\* A step that leaves all of it alone.
LEMMA SoundSame ==
    ASSUME NEW y, NEW x, NEW last, NEW P, NEW waits, Sound(y, x, last, P, waits),
           NEW z, HandlerRec(z), z.out = y.out, z.retired = y.retired, z.lastPeriod = y.lastPeriod, z.gate = y.gate
    PROVE  Sound(z, x, last, P, waits)
  BY DEF Sound

\* A step that writes an event other than a release.
LEMMA SoundEvent ==
    ASSUME NEW y, NEW x, NEW last, NEW P, NEW waits, Sound(y, x, last, P, waits),
           NEW e, e.type # "order.released",
           NEW z, HandlerRec(z), z.out = Append(y.out, e), z.retired = y.retired, z.lastPeriod = y.lastPeriod,
           AfterAttempt(y.gate, z.gate), z.gate.state \in States,
           \A w \in Armed(z.gate) : (w \in Armed(y.gate) /\ ~Closes(e, w)) \/ (w \in Opens(e) /\ SaleID(w.id))
    PROVE  Sound(z, x, last, P, waits)
<1>1. GateOk(z.gate, Ids(z.retired), last)
  BY OkAfter DEF Sound
<1>2. Grown(x.gate, z.gate, P)
  <2>1. GateOk(y.gate, Ids(y.retired), last) /\ Grown(x.gate, y.gate, P)
    BY DEF Sound
  <2>2. /\ z.gate.killEngaged = y.gate.killEngaged /\ Tighter(y.gate, z.gate) /\ DOMAIN z.gate.orders = DOMAIN y.gate.orders
        /\ \A id \in DOMAIN y.gate.orders :
            z.gate.orders[id].tag = y.gate.orders[id].tag /\ z.gate.orders[id].sale = y.gate.orders[id].sale
    BY <2>1, OkAfter
  <2> QED BY <2>1, <2>2 DEF Grown, Tighter
<1>3. Says(z.out, P) /\ IsList(y.out)
  <2>1. Says(y.out, P)
    BY DEF Sound
  <2>2. IsList(y.out)
    BY <2>1 DEF Says
  <2> QED BY <2>1, <2>2, SaysOther
<1>4. ArmsOk(z.gate, Waiting(waits, z.out))
  <2>1. Waiting(waits, z.out) = {w \in Waiting(waits, y.out) : ~Closes(e, w)} \cup Opens(e)
    BY <1>3, WaitingAppend
  <2> QED BY <2>1 DEF Sound, ArmsOk
<1>5. Begins(x.out, z.out)
  BY <1>3, BeginsLonger DEF Sound
<1> QED BY <1>1, <1>2, <1>3, <1>4, <1>5 DEF Sound

\* A step that releases an order.
LEMMA SoundRelease ==
    ASSUME NEW y, NEW x, NEW last, NEW waits, Sound(y, x, last, {}, waits),
           NEW p, p.id \notin DOMAIN y.gate.orders, Allowed(x, p),
           IF p.sale = None THEN Dated(p.id, last) ELSE Numbered(y.gate, Ids(y.retired), p.id, p.tag),
           NEW z, HandlerRec(z), z.out = Append(y.out, [type |-> "order.released", order |-> p]),
           z.retired = y.retired, z.lastPeriod = y.lastPeriod,
           Released(y.gate, z.gate, p)
    PROVE  Sound(z, x, last, {p}, waits)
<1> DEFINE e == [type |-> "order.released", order |-> p]
<1>1. e.type = "order.released" /\ e.order = p
  OBVIOUS
<1> HIDE DEF e
<1>2. GateOk(z.gate, Ids(z.retired), last)
  BY OkReleased DEF Sound
<1>3. Says(z.out, {p}) /\ IsList(y.out)
  <2>1. Says(y.out, {}) /\ z.out = Append(y.out, e)
    BY DEF Sound, e
  <2>2. IsList(y.out)
    BY <2>1 DEF Says
  <2> QED BY <1>1, <2>1, <2>2, SaysRelease
<1> DEFINE new == [tag |-> p.tag, side |-> p.side, quantity |-> p.quantity, sale |-> p.sale, fills |-> {}]
<1>4. new.tag = p.tag /\ new.sale = p.sale
  OBVIOUS
<1> HIDE DEF new
<1>5. /\ DOMAIN z.gate.orders = DOMAIN y.gate.orders \cup {p.id} /\ z.gate.orders[p.id] = new
      /\ \A id \in DOMAIN y.gate.orders : z.gate.orders[id] = y.gate.orders[id]
  BY DEF Released, With, new
<1>6. Grown(x.gate, z.gate, {p})
  <2>1. Grown(x.gate, y.gate, {}) /\ z.gate.killEngaged = y.gate.killEngaged /\ Tighter(y.gate, z.gate)
    BY DEF Sound, Released, Tighter
  <2> QED BY <1>4, <1>5, <2>1 DEF Grown, Tighter
<1>7. ArmsOk(z.gate, Waiting(waits, z.out))
  <2>1. Waiting(waits, z.out) = {w \in Waiting(waits, y.out) : ~Closes(e, w)} \cup Opens(e)
    BY <1>3, WaitingAppend DEF e
  <2>2. \A w : ~Closes(e, w)
    BY <1>1, NoEvent
  <2>3. Armed(z.gate) = Armed(y.gate)
    BY ArmsSame DEF Released
  <2> QED BY <2>1, <2>2, <2>3 DEF Sound, ArmsOk
<1>8. Begins(x.out, z.out)
  BY <1>3, BeginsLonger DEF Sound
<1> QED BY <1>2, <1>3, <1>6, <1>7, <1>8 DEF Sound

----------------------------------------------------------------------------
(* The handler's own steps *)

\* What add returns, as the event is valid or not.
Adds(y, z, e) == z = [y EXCEPT !.out = Append(@, e)] \/ z = [Fail(y, "invalid event") EXCEPT !.out = Append(@, e)]

LEMMA WriteFacts ==
    ASSUME NEW y, HandlerRec(y), NEW e, NEW z, Adds(y, z, e)
    PROVE  /\ HandlerRec(z) /\ z.out = Append(y.out, e) /\ z.gate = y.gate /\ z.cleared = y.cleared /\ z.retired = y.retired
           /\ z.verdicts = y.verdicts /\ z.lastPeriod = y.lastPeriod /\ z.mode = y.mode
<1> DEFINE k == Fail(y, "invalid event")
<1>1. /\ HandlerRec(k) /\ k.out = y.out /\ k.gate = y.gate /\ k.cleared = y.cleared /\ k.retired = y.retired
      /\ k.verdicts = y.verdicts /\ k.lastPeriod = y.lastPeriod /\ k.mode = y.mode
  BY DEF HandlerRec, Fail
<1>2. z = [y EXCEPT !.out = Append(@, e)] \/ z = [k EXCEPT !.out = Append(@, e)]
  BY DEF Adds
<1> HIDE DEF k
<1> QED BY <1>1, <1>2 DEF HandlerRec

LEMMA StatesOfNone == ASSUME NEW x PROVE addStates(x, <<>>) = x
<1> DEFINE step(acc, s) == add(acc, ValidEngineState(s), [type |-> "engine.state", state |-> s])
           body(g) == [s \in SUBSET {} |-> IF s = {} THEN x ELSE step(g[s \ {Max(s)}], <<>>[Max(s)])]
           fold == CHOOSE g : g = body(g)
           one == [s \in SUBSET {} |-> x]
<1>1. one = body(one)
  OBVIOUS
<1>2. fold = body(fold)
  BY <1>1
<1>3. fold[{}] = x
  BY <1>2
<1>4. addStates(x, <<>>) = fold[{}]
  BY DEF addStates, FoldLeft, MapThenFoldSet
<1> QED BY <1>3, <1>4

LEMMA StatesOfOne == ASSUME NEW x, NEW e PROVE addStates(x, <<e>>) = add(x, ValidEngineState(e), [type |-> "engine.state", state |-> e])
<1> DEFINE step(acc, s) == add(acc, ValidEngineState(s), [type |-> "engine.state", state |-> s])
           body(g) == [s \in SUBSET {1} |-> IF s = {} THEN x ELSE step(g[s \ {Max(s)}], <<e>>[Max(s)])]
           fold == CHOOSE g : g = body(g)
           one == [s \in SUBSET {1} |-> IF s = {} THEN x ELSE step(x, e)]
<1>0. Max({1}) = 1
  BY DEF Max
<1>1. one = body(one)
  <2> HIDE DEF step
  <2>1. ASSUME NEW s \in SUBSET {1} PROVE one[s] = body(one)[s]
    <3>1. s = {} \/ s = {1}
      OBVIOUS
    <3>2. <<e>>[1] = e
      OBVIOUS
    <3> QED BY <3>1, <3>2, <1>0
  <2> QED BY <2>1
<1>2. fold = body(fold)
  BY <1>1
<1>3. fold[{1}] = step(x, e)
  <2> HIDE DEF step
  <2>1. fold[{}] = x
    BY <1>2
  <2>2. fold[{1}] = step(fold[{1} \ {Max({1})}], <<e>>[Max({1})])
    <3>1. {1} \in SUBSET {1} /\ {1} # {}
      OBVIOUS
    <3> HIDE DEF fold
    <3> QED BY <1>2, <3>1
  <2>3. {1} \ {Max({1})} = {} /\ <<e>>[Max({1})] = e
    BY <1>0
  <2> QED BY <2>1, <2>2, <2>3
<1>4. addStates(x, <<e>>) = fold[{1}]
  <2>1. DOMAIN <<e>> = {1}
    OBVIOUS
  <2> QED BY <2>1 DEF addStates, FoldLeft, MapThenFoldSet
<1> QED BY <1>3, <1>4

\* An event that closes nothing is written.
LEMMA SoundAdd ==
    ASSUME NEW y, NEW x, NEW last, NEW P, NEW waits, Sound(y, x, last, P, waits),
           NEW e, e.type # "order.released", \A w \in Armed(y.gate) : ~Closes(e, w),
           NEW z, Adds(y, z, e)
    PROVE  Sound(z, x, last, P, waits) /\ z.gate = y.gate
<1>1. HandlerRec(z) /\ z.out = Append(y.out, e) /\ z.gate = y.gate /\ z.retired = y.retired /\ z.lastPeriod = y.lastPeriod
  BY WriteFacts DEF Sound
<1>2. AfterAttempt(y.gate, z.gate) /\ z.gate.state \in States
  BY <1>1 DEF AfterAttempt, Kept, Tighter, Sound, GateOk
<1> QED BY <1>1, <1>2, SoundEvent

LEMMA SoundStates ==
    ASSUME NEW y, NEW x, NEW last, NEW P, NEW waits, Sound(y, x, last, P, waits),
           NEW states, states = <<>> \/ \E s : states = <<s>>
    PROVE  LET z == addStates(y, states) IN Sound(z, x, last, P, waits) /\ z.gate = y.gate /\ z.mode = y.mode
<1>1. CASE states = <<>>
  BY <1>1, StatesOfNone
<1>2. ASSUME NEW s, states = <<s>>
      PROVE  LET z == addStates(y, states) IN Sound(z, x, last, P, waits) /\ z.gate = y.gate /\ z.mode = y.mode
  <2> DEFINE e == [type |-> "engine.state", state |-> s]
             z == addStates(y, states)
  <2>1. e.type = "engine.state"
    OBVIOUS
  <2>2. Adds(y, z, e)
    BY <1>2, StatesOfOne DEF add, Adds
  <2> HIDE DEF e, z
  <2>3. Sound(z, x, last, P, waits) /\ z.gate = y.gate
    BY <2>1, <2>2, SoundAdd, NoEvent
  <2>4. z.mode = y.mode
    BY <2>2, WriteFacts DEF Sound
  <2> QED BY <2>3, <2>4 DEF z
<1> QED BY <1>1, <1>2

LEMMA SoundLapsed ==
    ASSUME NEW y, NEW x, NEW last, NEW P, NEW waits, Sound(y, x, last, P, waits),
           NEW gone, gone # None => \A w \in Armed(y.gate) : w.id # gone.id
    PROVE  LET z == lapsed(y, gone) IN Sound(z, x, last, P, waits) /\ z.gate = y.gate /\ z.verdicts = y.verdicts /\ z.mode = y.mode
<1>1. CASE gone = None
  BY <1>1 DEF lapsed
<1>2. CASE gone # None
  <2> DEFINE e == [type |-> "sale.lapsed", sale |-> gone]
             z == lapsed(y, gone)
  <2>1. e.type = "sale.lapsed" /\ e.sale = gone
    OBVIOUS
  <2>2. Adds(y, z, e)
    BY <1>2 DEF lapsed, add, Adds
  <2> HIDE DEF e, z
  <2>3. \A w \in Armed(y.gate) : ~Closes(e, w)
    BY <1>2, <2>1 DEF Closes
  <2>4. Sound(z, x, last, P, waits) /\ z.gate = y.gate
    BY <2>1, <2>2, <2>3, SoundAdd
  <2>5. z.verdicts = y.verdicts /\ z.mode = y.mode
    BY <2>2, WriteFacts DEF Sound
  <2> QED BY <2>4, <2>5 DEF z
<1> QED BY <1>1, <1>2

LEMMA SoundUnsent ==
    ASSUME NEW y, NEW x, NEW last, NEW P, NEW waits, Sound(y, x, last, P, waits), NEW p, NEW at
    PROVE  LET z == endUnsent(y, p, at) IN Sound(z, x, last, P, waits) /\ z.mode = y.mode
<1>1. CASE y.mode # "dry-run"
  BY <1>1 DEF endUnsent
<1>2. CASE y.mode = "dry-run"
  <2> DEFINE e == [type |-> "order.lifecycle", id |-> p.id]
             z == [y EXCEPT !.out = Append(@, e)]
             k == ObserveLifecycle(z.gate, p.id, "canceled", at, FALSE)
             m == [z EXCEPT !.gate = k]
  <2>1. e.type = "order.lifecycle" /\ Adds(y, z, e)
    BY DEF Adds
  <2>2. endUnsent(y, p, at) = m
    BY <1>2 DEF endUnsent, add
  <2> HIDE DEF e, z
  <2>3. Sound(z, x, last, P, waits) /\ z.mode = y.mode
    <3>1. Sound(z, x, last, P, waits)
      BY <2>1, SoundAdd, NoEvent
    <3>2. z.mode = y.mode
      BY <2>1, WriteFacts DEF Sound
    <3> QED BY <3>1, <3>2
  <2>4. Frame(z.gate, k) /\ HandlerRec(z)
    BY <2>3, FrameLifecycle DEF Sound, GateOk
  <2>5. Armed(k) = Armed(z.gate)
    BY <2>4, ArmsSame DEF Frame
  <2> HIDE DEF k
  <2>6. HandlerRec(m) /\ m.gate = k /\ m.out = z.out /\ m.retired = z.retired /\ m.lastPeriod = z.lastPeriod /\ m.mode = z.mode
    BY <2>4 DEF HandlerRec
  <2> HIDE DEF m
  <2>7. Sound(m, x, last, P, waits)
    BY <2>3, <2>4, <2>5, <2>6, SoundGate DEF Frame, AfterAttempt
  <2> QED BY <2>2, <2>3, <2>6, <2>7
<1> QED BY <1>1, <1>2

\* A planned order, sale or not, whose ID is new: it is refused or released.
LEMMA SoundOrder ==
    ASSUME NEW y, NEW x, NEW last, NEW waits, Sound(y, x, last, {}, waits),
           NEW p, p.id \notin DOMAIN y.gate.orders,
           IF p.sale = None THEN Dated(p.id, last) ELSE Numbered(y.gate, Ids(y.retired), p.id, p.tag),
           p.side = "buy" => p.sale = None /\ ~Stopped(x.verdicts) /\ (y.gate.state = "normal" => x.gate.state = "normal"),
           \A w \in Armed(y.gate) : w.id # p.id /\ (p.sale # None => w.trigger # p.sale.trigger),
           NEW mark, NEW holdings, NEW at
    PROVE  LET o == order(y, p, mark, holdings, at) IN Sound(o.handler, x, last, IF o.reason = "" THEN {p} ELSE {}, waits)
<1> DEFINE e1 == [type |-> "order.planned", order |-> p]
           h1 == add(y, ValidPlanned(p), e1)
           c == Check(h1.gate, p, mark, holdings, at)
           f == figures(h1.gate, p)
           h2 == [h1 EXCEPT !.gate = c.gate]
           e2 == [type |-> "order.released", order |-> p]
           e3 == [type |-> "order.refused", order |-> p, reason |-> c.reason]
           z2 == add(h2, ValidReleased(p, f, y.mode), e2)
           z3 == add(h2, ValidRefused(p, c.reason, f), e3)
           h3 == IF c.reason = "" THEN endUnsent(z2, p, at) ELSE z3
<1>1. order(y, p, mark, holdings, at) = [handler |-> addStates(h3, c.states), reason |-> c.reason]
  BY DEF order
<1>2. Adds(y, h1, e1) /\ Adds(h2, z2, e2) /\ Adds(h2, z3, e3)
  BY DEF Adds, add
<1>3. e1.type = "order.planned" /\ e1.order = p /\ e3.type = "order.refused"
  OBVIOUS
<1> HIDE DEF h1, f, e1, e3, z2, z3
<1>4. Sound(h1, x, last, {}, waits) /\ h1.gate = y.gate /\ h1.retired = y.retired
  <2>1. \A w \in Armed(y.gate) : ~Closes(e1, w)
    BY <1>3 DEF Closes
  <2>2. h1.retired = y.retired
    BY <1>2, WriteFacts DEF Sound
  <2> QED BY <1>2, <1>3, <2>1, <2>2, SoundAdd
<1>5. GateRec(h1.gate) /\ h1.gate.state \in States /\ HandlerRec(h1)
  BY <1>4 DEF Sound, GateOk
<1>6. Verdict(h1.gate, p, c)
  BY <1>5, CheckVerdict
<1> HIDE DEF c
<1>7. /\ HandlerRec(h2) /\ h2.gate = c.gate /\ h2.out = h1.out /\ h2.retired = h1.retired
      /\ h2.lastPeriod = h1.lastPeriod
  BY <1>5 DEF HandlerRec
<1> HIDE DEF h2
<1>8. CASE c.reason = ""
  <2>1. /\ HandlerRec(z2) /\ z2.out = Append(h1.out, e2) /\ z2.gate = c.gate /\ z2.retired = h1.retired
        /\ z2.lastPeriod = h1.lastPeriod
    BY <1>2, <1>7, WriteFacts
  <2>2. /\ Released(h1.gate, c.gate, p)
        /\ p.sale = None => h1.gate.state # "halted" /\ ~h1.gate.killEngaged /\ (h1.gate.state = "degraded" => p.side # "buy")
    BY <1>6, <1>8 DEF Verdict
  <2>3. Allowed(x, p)
    <3>1. h1.gate.killEngaged = x.gate.killEngaged
      BY <1>4 DEF Sound, Grown, Tighter
    <3>2. p.side = "buy" => h1.gate.state = "normal"
      BY <1>5, <2>2 DEF States
    <3> QED BY <1>4, <2>2, <3>1, <3>2 DEF Allowed
  <2>4. Sound(z2, x, last, {p}, waits)
    <3>1. p.id \notin DOMAIN h1.gate.orders /\ (IF p.sale = None THEN Dated(p.id, last) ELSE Numbered(h1.gate, Ids(h1.retired), p.id, p.tag))
      BY <1>4
    <3> QED BY <1>4, <2>1, <2>2, <2>3, <3>1, SoundRelease DEF e2
  <2>5. Sound(h3, x, last, {p}, waits)
    BY <1>8, <2>4, SoundUnsent
  <2> HIDE DEF h3
  <2> DEFINE z == addStates(h3, c.states)
             o == order(y, p, mark, holdings, at)
  <2>6. Sound(z, x, last, {p}, waits)
    BY <1>6, <2>5, SoundStates DEF Verdict
  <2>7. o.handler = z /\ o.reason = c.reason
    BY <1>1
  <2> HIDE DEF z, o
  <2>8. Sound(o.handler, x, last, IF o.reason = "" THEN {p} ELSE {}, waits)
    BY <1>8, <2>6, <2>7
  <2> QED BY <2>8 DEF o
<1>9. CASE c.reason # ""
  <2>1. /\ HandlerRec(z3) /\ z3.out = Append(h1.out, e3) /\ z3.gate = c.gate /\ z3.retired = h1.retired
        /\ z3.lastPeriod = h1.lastPeriod
    BY <1>2, <1>7, WriteFacts
  <2>2. Frame(h1.gate, c.gate)
    BY <1>6, <1>9 DEF Verdict
  <2>3. Armed(c.gate) = Armed(h1.gate)
    BY <2>2, ArmsSame DEF Frame
  <2>4. Sound(z3, x, last, {}, waits)
    <3>1. AfterAttempt(h1.gate, z3.gate) /\ z3.gate.state \in States /\ e3.type # "order.released"
      BY <1>3, <2>1, <2>2 DEF AfterAttempt, Frame
    <3>2. \A w \in Armed(z3.gate) : w \in Armed(h1.gate) /\ ~Closes(e3, w)
      BY <1>3, <2>1, <2>3, NoEvent
    <3> QED BY <1>4, <2>1, <3>1, <3>2, SoundEvent
  <2>5. Sound(h3, x, last, {}, waits)
    BY <1>9, <2>4
  <2> HIDE DEF h3
  <2> DEFINE z == addStates(h3, c.states)
             o == order(y, p, mark, holdings, at)
  <2>6. Sound(z, x, last, {}, waits)
    BY <1>6, <2>5, SoundStates DEF Verdict
  <2>7. o.handler = z /\ o.reason = c.reason
    BY <1>1
  <2> HIDE DEF z, o
  <2>8. Sound(o.handler, x, last, IF o.reason = "" THEN {p} ELSE {}, waits)
    BY <1>9, <2>6, <2>7
  <2> QED BY <2>8 DEF o
<1> QED BY <1>8, <1>9

\* The one sale: it is not fired, withheld, or goes through the gate.
LEMMA SoundSale ==
    ASSUME NilIsNoRecord, NEW y, NEW x, NEW last, NEW waits, Sound(y, x, last, {}, waits), NEW trigger \in Triggers, NEW at
    PROVE  \E P : Sound(sale(y, trigger, at), x, last, P, waits)
<1> DEFINE s == Sale(y.gate, trigger, at)
           h1 == [y EXCEPT !.gate = s.gate]
           holdings == [i \in Instruments |-> IF i = Instrument THEN s.order.held ELSE 0]
           e == [type |-> "sale.withheld", sale |-> s.withheld]
           z == sale(y, trigger, at)
           o == order(h1, s.order, "none", holdings, at)
<1>1. /\ ~s.ok => z = h1
      /\ s.ok /\ s.withheld # None => Adds(h1, z, e)
      /\ s.ok /\ s.withheld = None => z = o.handler
  BY DEF sale, add, Adds
<1>2. GateOk(y.gate, Ids(y.retired), last) /\ GateRec(y.gate) /\ y.gate.state \in States /\ HandlerRec(y)
  BY DEF Sound, GateOk
<1>3. s.gate.state = y.gate.state /\ (NotFired(y.gate, s) \/ Withheld(y.gate, s, trigger) \/ Fired(y.gate, s, trigger))
  BY <1>2, SaleFacts
<1>4. e.type = "sale.withheld" /\ e.sale = s.withheld
  OBVIOUS
<1> HIDE DEF s, e, z, holdings
<1>5. /\ HandlerRec(h1) /\ h1.gate = s.gate /\ h1.out = y.out /\ h1.retired = y.retired
      /\ h1.lastPeriod = y.lastPeriod
  BY <1>2 DEF HandlerRec
<1> HIDE DEF h1
<1>6. CASE NotFired(y.gate, s)
  <2>1. Sound(h1, x, last, {}, waits)
    BY <1>2, <1>3, <1>5, <1>6, SoundGate DEF NotFired, AfterAttempt
  <2> QED BY <1>1, <1>6, <2>1 DEF NotFired, z
<1>7. CASE Withheld(y.gate, s, trigger)
  <2> DEFINE w == s.withheld
  <2>1. /\ s.ok /\ w # None /\ SaleID(w.id) /\ w.trigger = trigger
        /\ AfterAttempt(y.gate, s.gate)
        /\ \A v \in Armed(s.gate) : \/ v \in Armed(y.gate) /\ v.trigger # trigger /\ (Attempted(w) => v.id # w.id)
                                    \/ Retryable(w) /\ v = [id |-> w.id, trigger |-> trigger]
    BY <1>7 DEF Withheld
  <2>2. e.sale = w /\ e.type = "sale.withheld"
    BY <1>4
  <2> HIDE DEF w
  <2>3. ASSUME NEW v \in Armed(s.gate)
        PROVE  (v \in Armed(y.gate) /\ ~Closes(e, v)) \/ (v \in Opens(e) /\ SaleID(v.id))
    <3>1. CASE v \in Armed(y.gate) /\ v.trigger # trigger /\ (Attempted(w) => v.id # w.id)
      BY <2>1, <2>2, <3>1 DEF Closes
    <3>2. CASE Retryable(w) /\ v = [id |-> w.id, trigger |-> trigger]
      <4>1. Opens(e) = {[id |-> w.id, trigger |-> w.trigger]}
        BY <2>2, <3>2 DEF Opens
      <4> QED BY <2>1, <3>2, <4>1
    <3> QED BY <2>1, <3>1, <3>2
  <2>4. /\ HandlerRec(z) /\ z.out = Append(y.out, e) /\ z.gate = s.gate /\ z.retired = y.retired
        /\ z.lastPeriod = y.lastPeriod
    BY <1>1, <1>5, <2>1, WriteFacts DEF w
  <2>5. Sound(z, x, last, {}, waits)
    BY <1>2, <1>3, <2>1, <2>2, <2>3, <2>4, SoundEvent
  <2> QED BY <2>5 DEF z
<1>8. CASE Fired(y.gate, s, trigger)
  <2> DEFINE p == s.order
             k == recordAttempt(y.gate, p.tag)
  <2>1. /\ s.ok /\ s.withheld = None /\ p.side = "sell" /\ p.sale # None /\ p.sale.trigger = trigger
        /\ p.id = SaleAttemptClientOrderID(p.tag, retiredCount(y.gate, p.tag))
        /\ Kept(k, s.gate)
        /\ ~(p.tag \in DOMAIN y.gate.attempts /\ y.gate.attempts[p.tag].own)
        /\ \A v \in Armed(s.gate) : v \in Armed(y.gate) /\ v.trigger # trigger /\ v.id # p.id
    BY <1>8 DEF Fired
  <2>2. z = order(h1, p, "none", holdings, at).handler
    BY <1>1, <2>1
  <2>3. /\ \A t : retiredCount(k, t) = retiredCount(y.gate, t)
        /\ p.tag \in DOMAIN k.attempts /\ k.attempts[p.tag].own
    BY <1>2, OkAttempt
  <2>4. AfterAttempt(y.gate, s.gate)
    BY <2>1 DEF AfterAttempt
  <2> HIDE DEF p
  <2>5. Sound(h1, x, last, {}, waits)
    BY <1>2, <1>3, <1>5, <2>1, <2>4, SoundGate
  <2>6. p.id \notin DOMAIN h1.gate.orders
    <3>1. p.id \notin DOMAIN y.gate.orders
      BY <1>2, <2>1, NextSaleIsNew
    <3> QED BY <1>2, <1>3, <1>5, <2>4, <3>1, OkAfter
  <2>7. Numbered(h1.gate, Ids(h1.retired), p.id, p.tag)
    <3>1. s.gate.attempts = k.attempts /\ s.gate.retiredSales = k.retiredSales
      BY <2>1 DEF Kept, Tighter
    <3>2. retiredCount(s.gate, p.tag) = retiredCount(k, p.tag)
      BY <3>1 DEF retiredCount, restoredRetired
    <3>3. retiredCount(y.gate, p.tag) \in Nat
      BY <1>2, CountIsNat DEF GateOk
    <3> HIDE DEF k
    <3> QED BY <1>5, <2>1, <2>3, <3>1, <3>2, <3>3 DEF Numbered
  <2> DEFINE done == order(h1, p, "none", holdings, at)
  <2>8. Sound(done.handler, x, last, IF done.reason = "" THEN {p} ELSE {}, waits)
    BY <1>5, <2>1, <2>5, <2>6, <2>7, SoundOrder
  <2> QED BY <2>2, <2>8 DEF z
<1> QED BY <1>3, <1>6, <1>7, <1>8

----------------------------------------------------------------------------
(* One input answered *)

\* What z leaves as y had it.
Alike(y, z) ==
    /\ HandlerRec(z) /\ z.out = y.out /\ z.retired = y.retired /\ z.lastPeriod = y.lastPeriod
    /\ z.gate = y.gate /\ z.mode = y.mode

\* The handler's answer a to an input that found it as x.
Answers(a, x, last, waits) == \E P : Sound(a, x, last, P, waits)

LEMMA AlikeTwice ==
    ASSUME NEW x, NEW y, NEW z, Alike(x, y), Alike(y, z)
    PROVE  Alike(x, z)
  BY DEF Alike

LEMMA AlikeSelf ==
    ASSUME NEW y, HandlerRec(y)
    PROVE  Alike(y, y)
  BY DEF Alike

LEMMA SoundAlike ==
    ASSUME NEW y, NEW x, NEW last, NEW P, NEW waits, Sound(y, x, last, P, waits), NEW z, Alike(y, z)
    PROVE  Sound(z, x, last, P, waits)
  BY SoundSame DEF Alike

LEMMA AlikeFail ==
    ASSUME NEW y, HandlerRec(y), NEW why
    PROVE  Alike(y, Fail(y, why)) /\ Fail(y, why).verdicts = y.verdicts /\ Fail(y, why).cleared = y.cleared
  BY DEF HandlerRec, Alike, Fail

LEMMA AlikeName ==
    ASSUME NEW y, HandlerRec(y), NEW ids
    PROVE  Alike(y, name(y, ids)) /\ name(y, ids).verdicts = y.verdicts
  BY DEF HandlerRec, Alike, name

LEMMA AlikeVenueID ==
    ASSUME NEW y, HandlerRec(y), NEW ids
    PROVE  Alike(y, learnVenueID(y, ids))
  BY DEF HandlerRec, Alike, learnVenueID

LEMMA AlikeListings ==
    ASSUME NEW y, HandlerRec(y), NEW s
    PROVE  Alike(y, learnListings(y, s))
<1> DEFINE own == IF s.named THEN DOMAIN s.left \cap DOMAIN y.gate.orders ELSE {}
           z == name(y, own)
<1>1. learnListings(y, s) = learnVenueID(z, own)
  BY DEF learnListings
<1> HIDE DEF own
<1>2. Alike(y, z)
  BY AlikeName
<1> HIDE DEF z
<1>3. Alike(z, learnVenueID(z, own))
  BY <1>2, AlikeVenueID DEF Alike
<1> QED BY <1>1, <1>2, <1>3, AlikeTwice

LEMMA AlikeOutcome ==
    ASSUME NEW y, HandlerRec(y), NEW id, NEW rejected
    PROVE  Alike(y, observeOutcome(y, id, rejected))
<1> DEFINE o == observe(y.verdicts, id, rejected)
           i == IndexOf(y.verdicts.undecided, id)
           note == ReplanOf("rejected", id, Filled(y.gate, id), orderOf(y, id).quantity)
           h1 == [y EXCEPT !.verdicts = o.verdicts]
           z == observeOutcome(y, id, rejected)
<1>0. o.word \in {"none", "accepted", "rejected-while-stopped", "rejected"}
  BY DEF observe
<1>1. \/ z = y \/ z = [h1 EXCEPT !.working = Append(@, y.verdicts.undecided[i])]
      \/ z = [h1 EXCEPT !.stoppedRejections = Append(@, note)]
      \/ z = [h1 EXCEPT !.withheld = note] \/ z = h1
  BY <1>0 DEF observeOutcome
<1>2. Alike(y, h1)
  BY DEF HandlerRec, Alike
<1> HIDE DEF o, i, note, h1, z
<1>3. Alike(h1, z) \/ z = y
  BY <1>1, <1>2 DEF HandlerRec, Alike
<1> QED BY <1>2, <1>3, AlikeTwice, AlikeSelf DEF z

\* A gate that a step framed.
LEMMA SoundFrame ==
    ASSUME NEW y, NEW x, NEW last, NEW P, NEW waits, Sound(y, x, last, P, waits),
           NEW z, HandlerRec(z), z.out = y.out, z.retired = y.retired, z.lastPeriod = y.lastPeriod,
           Frame(y.gate, z.gate)
    PROVE  Sound(z, x, last, P, waits)
<1>1. Armed(z.gate) = Armed(y.gate)
  BY ArmsSame DEF Frame
<1> QED BY <1>1, SoundGate DEF Frame, AfterAttempt

LEMMA SoundSnapshot ==
    ASSUME NEW y, NEW x, NEW last, NEW waits, Sound(y, x, last, {}, waits), NEW s
    PROVE  Answers(applySnapshot(y, s), x, last, waits)
<1> DEFINE b == [anchor |-> <<"book", s.asOf>>, asOf |-> s.asOf, positions |-> s.positions]
           k == ObserveAccount(y.gate, s)
           c == CheckBook(k, b)
           z == [y EXCEPT !.snapshot = s, !.gate = c.gate]
           a == applySnapshot(y, s)
<1>1. a = Fail(y, "account snapshot") \/ a = addStates(z, c.states)
  BY DEF applySnapshot
<1>2. GateRec(y.gate) /\ y.gate.state \in States /\ HandlerRec(y)
  BY DEF Sound, GateOk
<1>3. Frame(y.gate, k) /\ GateRec(k) /\ k.state \in States
  BY <1>2, FrameAccount, FrameRec DEF Frame
<1> HIDE DEF k, b, a
<1>4. Frame(k, c.gate) /\ (c.states = <<>> \/ \E e : c.states = <<e>>)
  BY <1>3, FrameBook
<1> HIDE DEF c
<1>5. Frame(y.gate, c.gate)
  BY <1>3, <1>4, FrameTwice
<1>6. HandlerRec(z) /\ z.out = y.out /\ z.retired = y.retired /\ z.lastPeriod = y.lastPeriod /\ z.gate = c.gate
  BY <1>2 DEF HandlerRec
<1> HIDE DEF z
<1>7. Sound(z, x, last, {}, waits)
  BY <1>5, <1>6, SoundFrame
<1>8. Sound(addStates(z, c.states), x, last, {}, waits)
  BY <1>4, <1>7, SoundStates
<1>9. Sound(Fail(y, "account snapshot"), x, last, {}, waits)
  BY <1>2, AlikeFail, SoundAlike
<1> QED BY <1>1, <1>8, <1>9 DEF Answers, a

LEMMA SoundMark ==
    ASSUME NEW y, NEW x, NEW last, NEW waits, Sound(y, x, last, {}, waits), NEW m
    PROVE  Sound(applyMark(y, m), x, last, {}, waits) /\ applyMark(y, m).verdicts = y.verdicts
<1>1. HandlerRec(y)
  BY DEF Sound
<1>2. applyMark(y, m) = Fail(y, "mark out of order") \/ applyMark(y, m) = [y EXCEPT !.mark = m]
  BY DEF applyMark
<1> DEFINE z == [y EXCEPT !.mark = m]
<1>3. Alike(y, z) /\ z.verdicts = y.verdicts
  BY <1>1 DEF HandlerRec, Alike
<1> HIDE DEF z
<1> QED BY <1>1, <1>2, <1>3, AlikeFail, SoundAlike DEF z

\* A broker snapshot: what it lets lapse, and the sale it fires.
LEMMA SoundBroker ==
    ASSUME NilIsNoRecord, NEW y, NEW x, NEW last, NEW waits, Sound(y, x, last, {}, waits), NEW s
    PROVE  Answers(applyBrokerSnapshot(y, s), x, last, waits)
<1> DEFINE o == ObserveBroker(y.gate, s)
           h0 == [y EXCEPT !.gate = o.gate]
           h1 == learnListings(h0, s)
           alarm == alarmOf(o.gate, s)
           e == [type |-> "margin.alarm", alarm |-> alarm]
           alarmed == o.gate.alarmLevel # y.gate.alarmLevel
           h2 == IF alarmed THEN add(h1, ValidAlarm(alarm), e) ELSE h1
           h3a == lapsed(h2, o.lapsed.exit)
           h3 == lapsed(h3a, o.lapsed.urgent)
           a == applyBrokerSnapshot(y, s)
<1>1. \/ a = Fail(y, "broker snapshot")
      \/ o.urgent /\ ~o.exit /\ a = sale(h3, "margin-urgent", s.asOf)
      \/ ~o.urgent /\ o.exit /\ a = sale(h3, "exit", s.asOf)
      \/ a = h3
      \/ o.urgent /\ o.exit
  <2> HIDE DEF h3
  <2> QED BY DEF applyBrokerSnapshot, h3
<1>2. GateRec(y.gate) /\ y.gate.state \in States /\ HandlerRec(y)
  BY DEF Sound, GateOk
<1>3. /\ Kept(y.gate, o.gate) /\ o.gate.state = y.gate.state
      /\ \A w \in Armed(o.gate) :
          /\ w \in Armed(y.gate)
          /\ o.lapsed.exit # None => w.id # o.lapsed.exit.id
          /\ o.lapsed.urgent # None => w.id # o.lapsed.urgent.id
      /\ ~(o.urgent /\ o.exit)
  BY <1>2, BrokerFacts
<1>4. h2 = h1 \/ Adds(h1, h2, e)
  BY DEF add, Adds
<1>5. e.type = "margin.alarm"
  OBVIOUS
<1> HIDE DEF o, alarm, e, alarmed, a
<1>6. HandlerRec(h0) /\ h0.out = y.out /\ h0.retired = y.retired /\ h0.lastPeriod = y.lastPeriod /\ h0.gate = o.gate
  BY <1>2 DEF HandlerRec
<1> HIDE DEF h0
<1>7. Sound(h0, x, last, {}, waits)
  BY <1>2, <1>3, <1>6, SoundGate DEF AfterAttempt
<1>8. Sound(h1, x, last, {}, waits) /\ h1.gate = o.gate
  BY <1>6, <1>7, AlikeListings, SoundAlike DEF Alike
<1> HIDE DEF h1
<1>9. Sound(h2, x, last, {}, waits) /\ h2.gate = o.gate
  BY <1>4, <1>5, <1>8, SoundAdd, NoEvent
<1> HIDE DEF h2
<1>10. Sound(h3a, x, last, {}, waits) /\ h3a.gate = o.gate
  BY <1>3, <1>9, SoundLapsed
<1> HIDE DEF h3a
<1>11. Sound(h3, x, last, {}, waits)
  BY <1>3, <1>10, SoundLapsed
<1> HIDE DEF h3
<1>12. \A trigger \in Triggers : \E P : Sound(sale(h3, trigger, s.asOf), x, last, P, waits)
  BY <1>11, SoundSale
<1>13. Sound(Fail(y, "broker snapshot"), x, last, {}, waits)
  BY <1>2, AlikeFail, SoundAlike
<1> QED BY <1>1, <1>3, <1>11, <1>12, <1>13 DEF Answers, a, Triggers

LEMMA SoundReconciliation ==
    ASSUME NEW y, NEW x, NEW last, NEW waits, Sound(y, x, last, {}, waits), NEW id, NEW obs
    PROVE  Answers(applyReconciliation(y, id, obs), x, last, waits)
<1> DEFINE c == Reconcile(y.gate, id, obs)
           e == [type |-> "reconciliation.result", id |-> id]
           z == [y EXCEPT !.gate = c.gate]
           m == [z EXCEPT !.out = Append(@, e)]
<1>1. applyReconciliation(y, id, obs) = addStates(m, c.states)
  BY DEF applyReconciliation, add
<1>2. GateRec(y.gate) /\ y.gate.state \in States /\ HandlerRec(y)
  BY DEF Sound, GateOk
<1>3. Frame(y.gate, c.gate) /\ (c.states = <<>> \/ \E s : c.states = <<s>>)
  BY <1>2, FrameReconcile
<1> HIDE DEF c
<1>4. HandlerRec(z) /\ z.out = y.out /\ z.retired = y.retired /\ z.lastPeriod = y.lastPeriod /\ z.gate = c.gate
  BY <1>2 DEF HandlerRec
<1>5. Adds(z, m, e) /\ e.type = "reconciliation.result"
  BY DEF Adds
<1> HIDE DEF z, m, e
<1>6. Sound(z, x, last, {}, waits)
  BY <1>3, <1>4, SoundFrame
<1>7. Sound(m, x, last, {}, waits)
  BY <1>5, <1>6, SoundAdd, NoEvent
<1>8. Sound(addStates(m, c.states), x, last, {}, waits)
  BY <1>3, <1>7, SoundStates
<1> QED BY <1>1, <1>8 DEF Answers

LEMMA SoundCorporate ==
    ASSUME NEW y, NEW x, NEW last, NEW waits, Sound(y, x, last, {}, waits), NEW c
    PROVE  Answers(applyCorporateAction(y, c), x, last, waits)
<1> DEFINE k == ObserveCorporateAction(y.gate, c)
           z == [y EXCEPT !.gate = k]
<1>1. GateRec(y.gate) /\ y.gate.state \in States /\ HandlerRec(y)
  BY DEF Sound, GateOk
<1>2. applyCorporateAction(y, c) = z
  BY DEF applyCorporateAction
<1>3. Frame(y.gate, k)
  BY <1>1, FrameCorporate
<1> HIDE DEF k
<1>4. HandlerRec(z) /\ z.out = y.out /\ z.retired = y.retired /\ z.lastPeriod = y.lastPeriod /\ z.gate = k
  BY <1>1 DEF HandlerRec
<1> HIDE DEF z
<1>5. Sound(z, x, last, {}, waits)
  BY <1>3, <1>4, SoundFrame
<1> QED BY <1>2, <1>5 DEF Answers

LEMMA SoundFill ==
    ASSUME NEW y, NEW x, NEW last, NEW waits, Sound(y, x, last, {}, waits), NEW f
    PROVE  Answers(applyFill(y, f), x, last, waits)
<1> DEFINE k == ObserveFill(y.gate, f)
           z == [y EXCEPT !.gate = k]
           n == name(z, {f.order})
           a == applyFill(y, f)
           o == observeOutcome(n, f.order, FALSE)
           refused == refuseDryRunReport(y) \/ contradicts(y, f.order) \/ refusesFill(y.gate, f)
<1>1. a = IF refused THEN Fail(y, "fill refused") ELSE o
  BY DEF applyFill
<1>2. GateOk(y.gate, Ids(y.retired), last) /\ HandlerRec(y)
  BY DEF Sound
<1>3. CASE refused
  <2>1. Sound(Fail(y, "fill refused"), x, last, {}, waits)
    BY <1>2, AlikeFail, SoundAlike
  <2>2. a = Fail(y, "fill refused")
    BY <1>1, <1>3
  <2> HIDE DEF a
  <2>3. Sound(a, x, last, {}, waits)
    BY <2>1, <2>2
  <2> QED BY <2>3 DEF Answers, a
<1>4. CASE ~refused
  <2>1. f.order \in DOMAIN y.gate.orders
    BY <1>4 DEF refusesFill
  <2>2. Frame(y.gate, k)
    BY <1>2, <2>1, FrameFill
  <2>3. a = o
    BY <1>1, <1>4
  <2> HIDE DEF k, a
  <2>4. HandlerRec(z) /\ z.out = y.out /\ z.retired = y.retired /\ z.lastPeriod = y.lastPeriod /\ z.gate = k
    BY <1>2 DEF HandlerRec
  <2> HIDE DEF z
  <2>5. Sound(z, x, last, {}, waits)
    BY <2>2, <2>4, SoundFrame
  <2>6. Alike(z, n) /\ HandlerRec(n)
    BY <2>4, AlikeName DEF Alike
  <2> HIDE DEF n
  <2>7. Alike(n, o)
    BY <2>6, AlikeOutcome
  <2> HIDE DEF o
  <2>8. Sound(o, x, last, {}, waits)
    BY <2>5, <2>6, <2>7, SoundAlike
  <2> QED BY <2>3, <2>8 DEF Answers, a
<1> QED BY <1>3, <1>4

LEMMA SoundLifecycle ==
    ASSUME NEW y, NEW x, NEW last, NEW waits, Sound(y, x, last, {}, waits), NEW r
    PROVE  Answers(applyLifecycle(y, r), x, last, waits)
<1> DEFINE k == ObserveLifecycle(y.gate, r.order, r.status, r.at, TRUE)
           z == [y EXCEPT !.gate = k]
           n == name(z, {r.order})
           h1 == learnVenueID(n, {r.order})
           closed == [h1 EXCEPT !.watch.status = r.status, !.watch.ended = r.at]
           a == applyLifecycle(y, r)
<1>1. \E h2 \in {h1, closed} : \E h3 : /\ h3 = h2 \/ h3 = observeOutcome(h2, r.order, BoostLifecycleWord(r.status).rejected)
                                      /\ a \in {h3, [h3 EXCEPT !.working = Without(@, r.order)], Fail(y, "lifecycle refused")}
  <2> HIDE DEF closed, h1
  <2>1. ASSUME NEW h2, NEW h3, NEW b, b = [h3 EXCEPT !.working = Without(@, r.order)]
        PROVE  b \in {h3, [h3 EXCEPT !.working = Without(@, r.order)], Fail(y, "lifecycle refused")}
    BY <2>1
  <2> DEFINE ends == isWatched(h1, r.order) /\ Terminal(r.status) /\ (IF h1.watch = None THEN FALSE ELSE h1.watch.status = "")
             h2 == IF ends THEN closed ELSE h1
             word == BoostLifecycleWord(r.status)
             h3 == IF word.decides THEN observeOutcome(h2, r.order, word.rejected) ELSE h2
             refused == refuseDryRunReport(y) \/ r.order \notin DOMAIN y.gate.orders \/ contradicts(y, r.order)
  <2>2. a = IF refused THEN Fail(y, "lifecycle refused") ELSE IF Terminal(r.status) THEN [h3 EXCEPT !.working = Without(@, r.order)] ELSE h3
    BY DEF applyLifecycle, h1, closed
  <2>3. h2 \in {h1, closed}
    OBVIOUS
  <2>4. h3 = h2 \/ h3 = observeOutcome(h2, r.order, word.rejected)
    OBVIOUS
  <2> HIDE DEF h2, ends, refused
  <2>5. a \in {h3, [h3 EXCEPT !.working = Without(@, r.order)], Fail(y, "lifecycle refused")}
    <3> HIDE DEF h3, a
    <3> QED BY <2>2
  <2> HIDE DEF h3, a
  <2> QED BY <2>3, <2>4, <2>5
<1>2. GateRec(y.gate) /\ y.gate.state \in States /\ HandlerRec(y)
  BY DEF Sound, GateOk
<1>3. Frame(y.gate, k)
  BY <1>2, FrameLifecycle
<1> HIDE DEF k, a
<1>4. HandlerRec(z) /\ z.out = y.out /\ z.retired = y.retired /\ z.lastPeriod = y.lastPeriod /\ z.gate = k
  BY <1>2 DEF HandlerRec
<1> HIDE DEF z
<1>5. Sound(z, x, last, {}, waits)
  BY <1>3, <1>4, SoundFrame
<1>6. Alike(z, n) /\ HandlerRec(n)
  BY <1>4, AlikeName DEF Alike
<1> HIDE DEF n
<1>7. Alike(n, h1) /\ HandlerRec(h1)
  BY <1>6, AlikeVenueID DEF Alike
<1> HIDE DEF h1
<1>8. Alike(h1, closed)
  BY <1>7 DEF Alike, HandlerRec
<1> HIDE DEF closed
<1>9. Sound(h1, x, last, {}, waits) /\ Sound(closed, x, last, {}, waits)
  BY <1>5, <1>6, <1>7, <1>8, SoundAlike
<1>10. PICK h2 \in {h1, closed} : \E h3 : /\ h3 = h2 \/ h3 = observeOutcome(h2, r.order, BoostLifecycleWord(r.status).rejected)
                                         /\ a \in {h3, [h3 EXCEPT !.working = Without(@, r.order)], Fail(y, "lifecycle refused")}
  BY <1>1
<1>11. PICK h3 : /\ h3 = h2 \/ h3 = observeOutcome(h2, r.order, BoostLifecycleWord(r.status).rejected)
                 /\ a \in {h3, [h3 EXCEPT !.working = Without(@, r.order)], Fail(y, "lifecycle refused")}
  BY <1>10
<1>12. Sound(h2, x, last, {}, waits) /\ HandlerRec(h2)
  BY <1>9, <1>10 DEF Sound
<1>13. Alike(h2, h3) /\ HandlerRec(h3)
  <2>1. Alike(h2, h3)
    BY <1>11, <1>12, AlikeOutcome, AlikeSelf
  <2> QED BY <2>1 DEF Alike
<1> DEFINE t == [h3 EXCEPT !.working = Without(@, r.order)]
<1>14. Alike(h3, t)
  BY <1>13 DEF Alike, HandlerRec
<1> HIDE DEF t
<1>15. Sound(h3, x, last, {}, waits) /\ Sound(t, x, last, {}, waits)
  BY <1>12, <1>13, <1>14, SoundAlike
<1>16. Sound(Fail(y, "lifecycle refused"), x, last, {}, waits)
  BY <1>2, AlikeFail, SoundAlike
<1>17. a \in {h3, t, Fail(y, "lifecycle refused")}
  BY <1>11 DEF t
<1>18. Sound(a, x, last, {}, waits)
  BY <1>15, <1>16, <1>17
<1> QED BY <1>18 DEF Answers, a

LEMMA SoundClearance ==
    ASSUME NEW y, NEW x, NEW last, NEW waits, Sound(y, x, last, {}, waits), NEW c
    PROVE  Answers(applyClearance(y, c), x, last, waits)
<1> DEFINE z == [y EXCEPT !.verdicts = ClearNeverSent(@, c.ids), !.cleared = @ \o SetToSeq({[id |-> id] : id \in c.ids})]
           a == applyClearance(y, c)
<1>1. HandlerRec(y)
  BY DEF Sound
<1>2. a \in {z, Fail(y, "clearance refused")}
  BY DEF applyClearance
<1>3. Alike(y, z)
  BY <1>1 DEF Alike, HandlerRec
<1> HIDE DEF z, a
<1>4. Sound(z, x, last, {}, waits) /\ Sound(Fail(y, "clearance refused"), x, last, {}, waits)
  BY <1>1, <1>3, AlikeFail, SoundAlike
<1>5. Sound(a, x, last, {}, waits)
  BY <1>2, <1>4
<1> QED BY <1>5 DEF Answers, a

LEMMA IdsAppend ==
    ASSUME NEW s, IsList(s), NEW e
    PROVE  Ids(Append(s, e)) = Ids(s) \cup {e.id}
<1> DEFINE next == Append(s, e)
           L == Len(s)
<1>1. /\ L \in Nat /\ DOMAIN s = 1..L /\ DOMAIN next = 1..(L + 1) /\ next[L + 1] = e
      /\ \A i \in 1..L : next[i] = s[i]
  BY ListFacts, AppendFacts
<1> HIDE DEF next, L
<1>2. Ids(next) = {next[i].id : i \in 1..(L + 1)} /\ Ids(s) = {s[i].id : i \in 1..L}
  BY <1>1 DEF Ids
<1>3. \A i : i \in 1..(L + 1) <=> i \in 1..L \/ i = L + 1
  BY <1>1
<1> QED BY <1>1, <1>2, <1>3 DEF next

\* A retirement: the order, when it is a sale, is one of the sales gone.
LEMMA SoundRetired ==
    ASSUME NEW y, NEW x, NEW last, NEW waits, Sound(y, x, last, {}, waits), NEW r
    PROVE  Answers(applyRetired(y, r), x, last, waits)
<1> DEFINE verdict == RetirementVerdict(y, r)
           id == r.order
           v == IF verdict = "held" THEN leave(y.verdicts, IndexOf(y.verdicts.undecided, r.order)) ELSE y.verdicts
           g1 == ObserveLifecycle(y.gate, r.order, "canceled", r.at, FALSE)
           isSold == verdict = "free" /\ isSale(g1, r.order)
           s == RetireSale(g1, r.order)
           k == IF isSold THEN s.gate ELSE g1
           note == [id |-> r.order, side |-> r.side, released |-> r.quantity, at |-> r.at,
                    tag |-> IF isSold THEN s.tag ELSE NoTag, attempt |-> IF isSold THEN s.attempt ELSE 0]
           h1 == [y EXCEPT !.verdicts = v, !.gate = k, !.retired = Append(@, note)]
           closed == [h1 EXCEPT !.watch.status = "canceled", !.watch.ended = r.at]
           a == applyRetired(y, r)
           failed == Fail(y, "retirement refused")
<1>1. (verdict = "" /\ a = failed) \/ a = failed \/ (verdict # "" /\ a \in {h1, closed})
  <2> HIDE DEF closed, h1, verdict
  <2> QED BY DEF applyRetired, closed, h1, verdict
<1>2. GateOk(y.gate, Ids(y.retired), last) /\ GateRec(y.gate) /\ y.gate.state \in States /\ HandlerRec(y) /\ IsList(y.retired)
  BY DEF Sound, GateOk
<1>3. Frame(y.gate, g1)
  BY <1>2, FrameLifecycle
<1>4. note.id = id
  OBVIOUS
<1>5. verdict # "" => r.order \in DOMAIN y.gate.orders /\ r.order \notin Ids(y.retired)
  BY DEF RetirementVerdict
<1> HIDE DEF g1, a, note, v, verdict
<1>6. GateOk(g1, Ids(y.retired), last) /\ Armed(g1) = Armed(y.gate)
  BY <1>2, <1>3, OkKept, ArmsSame DEF Frame
<1>7. ASSUME verdict # ""
      PROVE  /\ GateOk(k, Ids(y.retired) \cup {id}, last) /\ k.state \in States
             /\ k.orders = g1.orders /\ k.killEngaged = g1.killEngaged /\ \A w \in Armed(k) : w \in Armed(g1)
             /\ k.state = g1.state /\ k.scope = g1.scope /\ k.incident = g1.incident
  <2>1. CASE isSold
    <3>1. id \in DOMAIN g1.orders /\ g1.orders[id].sale # None
      BY <2>1 DEF isSale
    <3>2. LET m == RetireSale(g1, id).gate
          IN  /\ GateOk(m, Ids(y.retired) \cup {id}, last) /\ m.orders = g1.orders /\ m.state = g1.state /\ m.killEngaged = g1.killEngaged
              /\ m.scope = g1.scope /\ m.incident = g1.incident
              /\ \A w \in Armed(m) : w \in Armed(g1)
      BY <1>5, <1>6, <1>7, <3>1, OkRetired
    <3>3. k = RetireSale(g1, id).gate
      BY <2>1
    <3> HIDE DEF k
    <3> QED BY <3>2, <3>3, <1>6 DEF GateOk
  <2>2. CASE ~isSold
    <3>1. k = g1
      BY <2>2
    <3> HIDE DEF k
    <3>2. GateOk(g1, Ids(y.retired) \cup {id}, last)
      BY <1>6, OkGone
    <3> QED BY <3>1, <3>2 DEF GateOk
  <2> QED BY <2>1, <2>2
<1> HIDE DEF k
<1>8. /\ HandlerRec(h1) /\ h1.out = y.out /\ h1.retired = Append(y.retired, note) /\ h1.lastPeriod = y.lastPeriod /\ h1.gate = k
  BY <1>2 DEF HandlerRec
<1> HIDE DEF h1
<1>9. ASSUME verdict # "" PROVE Sound(h1, x, last, {}, waits)
  <2>1. IsList(h1.retired) /\ Ids(h1.retired) = Ids(y.retired) \cup {id}
    BY <1>2, <1>4, <1>8, AppendFacts, IdsAppend
  <2>2. GateOk(h1.gate, Ids(h1.retired), last)
    BY <1>7, <1>8, <1>9, <2>1
  <2>3. Grown(x.gate, h1.gate, {})
    <3>1. Grown(x.gate, y.gate, {})
      BY DEF Sound
    <3>2. /\ h1.gate.killEngaged = y.gate.killEngaged /\ Tighter(y.gate, h1.gate) /\ DOMAIN h1.gate.orders = DOMAIN y.gate.orders
          /\ \A i \in DOMAIN y.gate.orders :
              h1.gate.orders[i].tag = y.gate.orders[i].tag /\ h1.gate.orders[i].sale = y.gate.orders[i].sale
      BY <1>3, <1>7, <1>8, <1>9 DEF Frame, Kept, Tighter
    <3> QED BY <3>1, <3>2 DEF Grown, Tighter
  <2>4. ArmsOk(h1.gate, Waiting(waits, h1.out))
    <3>1. ArmsOk(y.gate, Waiting(waits, y.out))
      BY DEF Sound
    <3> QED BY <1>6, <1>7, <1>8, <1>9, <3>1 DEF ArmsOk
  <2> QED BY <1>8, <2>1, <2>2, <2>3, <2>4 DEF Sound
<1>10. Alike(h1, closed)
  BY <1>8 DEF HandlerRec, Alike
<1> HIDE DEF closed
<1>11. ASSUME verdict # "" PROVE Sound(closed, x, last, {}, waits)
  BY <1>9, <1>10, <1>11, SoundAlike
<1>12. Sound(failed, x, last, {}, waits)
  BY <1>2, AlikeFail, SoundAlike
<1> HIDE DEF failed
<1>13. Sound(a, x, last, {}, waits)
  BY <1>1, <1>9, <1>11, <1>12
<1> QED BY <1>13 DEF Answers, a

LEMMA AlikeWatch ==
    ASSUME NEW y, HandlerRec(y)
    PROVE  Alike(y, settleWatch(y)) /\ settleWatch(y).verdicts = y.verdicts /\ settleWatch(y).cleared = y.cleared
<1> DEFINE z == settleWatch(y)
           drop == [y EXCEPT !.replan = FALSE, !.cause = NoReplan]
<1>1. \/ z = y \/ z = [y EXCEPT !.watch = None] \/ z = [drop EXCEPT !.watch = None]
      \/ \E c : z = [y EXCEPT !.replan = TRUE, !.cause = c]
      \/ \E c : z = [[y EXCEPT !.replan = TRUE, !.cause = c] EXCEPT !.watch = None]
  <2> DEFINE w == y.watch
             sold == Filled(y.gate, w.id)
             own == y.cause.order = w.id
             again(cause) == [y EXCEPT !.replan = TRUE, !.cause = ReplanOf(cause, w.id, sold, w.released)]
             outcome == IF sold >= w.released THEN "filled"
                        ELSE IF w.status = "invalid" /\ Stopped(y.verdicts) THEN "stopped"
                        ELSE IF w.status = "" \/ (y.replan /\ ~own) THEN "waits"
                        ELSE IF w.status = "invalid" THEN "rejected"
                        ELSE IF sold = 0 THEN "unfilled"
                        ELSE "part-filled"
  <2>1. z = IF w = None THEN y
            ELSE CASE outcome = "filled" -> [(IF own THEN drop ELSE y) EXCEPT !.watch = None]
                   [] outcome = "stopped" -> [(IF w.side = "sell" THEN again("rejected") ELSE drop) EXCEPT !.watch = None]
                   [] outcome = "waits" -> y
                   [] OTHER -> again(outcome)
    BY DEF settleWatch
  <2> HIDE DEF z, outcome, drop, own, w, sold
  <2>2. CASE w = None
    BY <2>1, <2>2
  <2>3. CASE w # None /\ outcome = "filled"
    <3>1. z = [(IF own THEN drop ELSE y) EXCEPT !.watch = None]
      BY <2>1, <2>3
    <3> QED BY <3>1
  <2>4. CASE w # None /\ outcome = "stopped"
    <3>1. z = [(IF w.side = "sell" THEN again("rejected") ELSE drop) EXCEPT !.watch = None]
      BY <2>1, <2>4
    <3> QED BY <3>1
  <2>5. CASE w # None /\ outcome = "waits"
    BY <2>1, <2>5
  <2>6. CASE w # None /\ outcome \notin {"filled", "stopped", "waits"}
    <3>1. z = again(outcome)
      BY <2>1, <2>6
    <3> QED BY <3>1
  <2> QED BY <2>2, <2>3, <2>4, <2>5, <2>6
<1> HIDE DEF z
<1>2. Alike(y, z) /\ z.verdicts = y.verdicts /\ z.cleared = y.cleared
  BY <1>1 DEF HandlerRec, Alike
<1> QED BY <1>2 DEF z

LEMMA AlikeSwept ==
    ASSUME NEW y, HandlerRec(y)
    PROVE  /\ Alike(y, swept(y)) /\ swept(y).verdicts = y.verdicts /\ swept(y).cleared = y.cleared
           /\ Alike(y, recorded(y)) /\ recorded(y).verdicts = y.verdicts /\ recorded(y).cleared = y.cleared
<1>1. Alike(y, swept(y)) /\ swept(y).verdicts = y.verdicts /\ swept(y).cleared = y.cleared
  BY DEF HandlerRec, Alike, swept
<1> DEFINE z == swept(y)
<1> HIDE DEF z
<1>2. recorded(y) = [z EXCEPT !.withheld = NoReplan, !.stoppedRejections = <<>>]
  BY DEF recorded, z
<1>3. Alike(y, z) /\ z.verdicts = y.verdicts /\ z.cleared = y.cleared
  BY <1>1 DEF z
<1>4. Alike(y, recorded(y)) /\ recorded(y).verdicts = y.verdicts /\ recorded(y).cleared = y.cleared
  BY <1>2, <1>3 DEF HandlerRec, Alike
<1> QED BY <1>1, <1>4

LEMMA AlikeUnwatch ==
    ASSUME NEW y, HandlerRec(y)
    PROVE  Alike(y, unwatch(y)) /\ unwatch(y).verdicts = y.verdicts /\ unwatch(y).cleared = y.cleared
  BY DEF HandlerRec, Alike, unwatch

\* The order a session plans.
LEMMA BoostPlan ==
    ASSUME NilIsNoRecord, NEW tag, NEW d, NEW shares, NEW selling, NEW replan
    PROVE  LET p == PlanBoost(tag, d, shares, selling, replan)
           IN  \/ p = None
               \/ /\ p # None /\ p.side \in Sides /\ p.id = ClientOrderID(tag, p.side) /\ p.tag = tag /\ p.sale = None
<1> DEFINE delta == d.target - shares
           side == IF delta > 0 THEN "buy" ELSE "sell"
           quantity == IF delta > 0 THEN delta ELSE -delta - selling
           p == PlanBoost(tag, d, shares, selling, replan)
           new == [id |-> ClientOrderID(tag, side), tag |-> tag, side |-> side, quantity |-> quantity, held |-> shares, sale |-> None]
<1>1. p = None \/ p = new
  BY DEF PlanBoost
<1>2. side \in Sides
  BY DEF Sides
<1> HIDE DEF delta, side, quantity, p
<1>3. new # None
  BY DEF NilIsNoRecord
<1>4. new.side = side /\ new.id = ClientOrderID(tag, side) /\ new.tag = tag /\ new.sale = None
  OBVIOUS
<1> HIDE DEF new
<1>5. \/ p = None
      \/ p # None /\ p.side \in Sides /\ p.id = ClientOrderID(tag, p.side) /\ p.tag = tag /\ p.sale = None
  BY <1>1, <1>2, <1>3, <1>4
<1> QED BY <1>5 DEF p

\* The decision rewritten: nothing else is.
LEMMA SoundReplan ==
    ASSUME NEW y, NEW x, NEW last, NEW P, NEW waits, Sound(y, x, last, P, waits),
           NEW at, at \in DOMAIN y.out, NEW d, y.out[at] = [type |-> "targets.decided", decision |-> d],
           NEW x0, x0.out = <<>>, x0.gate = x.gate, x0.verdicts = x.verdicts
    PROVE  Sound(settleReplan(y, at), x0, last, P, waits)
<1> DEFINE new == [y.out[at].decision EXCEPT !.boost = settledFigures(y, @)]
           k == swept(y)
           f == Fail(k, "invalid decision")
           z == settleReplan(y, at)
           out == [y.out EXCEPT ![at].decision = new]
<1>1. Alike(y, k) /\ HandlerRec(y)
  BY AlikeSwept DEF Sound
<1>2. z = [k EXCEPT !.out[at].decision = new] \/ z = [f EXCEPT !.out[at].decision = new]
  BY DEF settleReplan
<1> HIDE DEF k
<1>3. Alike(k, f)
  BY <1>1, AlikeFail DEF Alike
<1> HIDE DEF f, new, z
<1>4. /\ HandlerRec(z) /\ z.out = out /\ z.retired = y.retired /\ z.lastPeriod = y.lastPeriod /\ z.gate = y.gate
  BY <1>1, <1>2, <1>3 DEF Alike, HandlerRec
<1>5. Len(y.out) \in Nat /\ DOMAIN y.out = 1..Len(y.out) /\ IsList(y.out) /\ Says(y.out, P)
  <2>1. Says(y.out, P)
    BY DEF Sound
  <2> QED BY <2>1, ListFacts DEF Says
<1>6. /\ DOMAIN out = DOMAIN y.out /\ out[at].type = "targets.decided"
      /\ \A i \in DOMAIN y.out : i # at => out[i] = y.out[i]
  OBVIOUS
<1>7. out = [i \in DOMAIN y.out |-> out[i]]
  OBVIOUS
<1> HIDE DEF out
<1>8. IsList(out) /\ Len(out) = Len(y.out)
  BY <1>5, <1>6, <1>7, ListOf
<1>9. y.out[at].type = "targets.decided"
  OBVIOUS
<1>10. \A i \in 1..Len(y.out) : out[i] = y.out[i] \/ (out[i].type = "targets.decided" /\ y.out[i].type = "targets.decided")
  BY <1>5, <1>6, <1>9
<1>11. Waiting(waits, out) = Waiting(waits, y.out)
  BY <1>5, <1>8, <1>10, WaitingSame
<1>12. Says(out, P)
  <2>1. CASE P = {} /\ \A i \in DOMAIN y.out : y.out[i].type # "order.released"
    BY <1>6, <1>8, <2>1 DEF Says
  <2>2. ASSUME NEW i \in DOMAIN y.out, y.out[i].type = "order.released", P = {y.out[i].order},
               \A j \in DOMAIN y.out : j # i => y.out[j].type # "order.released"
        PROVE  Says(out, P)
    <3>1. i # at
      BY <1>9, <2>2
    <3>2. out[i] = y.out[i] /\ \A j \in DOMAIN out : j # i => out[j].type # "order.released"
      BY <1>6, <2>2, <3>1
    <3> QED BY <1>6, <1>8, <2>2, <3>2 DEF Says
  <2> QED BY <1>5, <2>1, <2>2 DEF Says
<1>13. Begins(x0.out, out)
  BY DEF Begins
<1>14. Grown(x0.gate, z.gate, P) /\ \A p \in P : Allowed(x0, p)
  BY <1>4 DEF Sound, Allowed
<1>15. ArmsOk(z.gate, Waiting(waits, z.out))
  BY <1>4, <1>11 DEF Sound
<1>16. Sound(z, x0, last, P, waits)
  BY <1>4, <1>12, <1>13, <1>14, <1>15 DEF Sound
<1> QED BY <1>16 DEF z

\* A decided session: its order, and the sale when the order is a sell refused.
LEMMA SoundTrade ==
    ASSUME NilIsNoRecord, NEW y, NEW last \in Nat, NEW waits, Sound(y, y, last, {}, waits),
           Len(y.out) \in DOMAIN y.out, NEW d, y.out[Len(y.out)] = [type |-> "targets.decided", decision |-> d],
           \A side \in Sides : ClientOrderID(<<"targets-decided", last>>, side) \notin DOMAIN y.gate.orders,
           NEW x0, x0.out = <<>>, x0.gate = y.gate, x0.verdicts = y.verdicts
    PROVE  Answers(trade(y, last), x0, last, waits)
<1> DEFINE tag == <<"targets-decided", last>>
           at == Len(y.out)
           dd == y.out[at].decision
           shares == y.snapshot.positions[Instrument]
           sameTarget == y.inForce = dd.target
           plan == PlanBoost(tag, dd, shares, PendingSells(y.gate), y.replan)
           stopped == IF plan = None THEN FALSE ELSE Stopped(y.verdicts) /\ plan.side # "sell"
           p == IF stopped THEN None ELSE plan
           sells == IF p = None THEN FALSE ELSE p.side = "sell"
           afterRejection == y.replan /\ y.cause.cause = "rejected" /\ sameTarget
           h1 == [y EXCEPT !.inForce = dd.target, !.gate.decided = @ \cup {tag}, !.replan = FALSE, !.cause = NoReplan,
                           !.watch = IF @ = None THEN None ELSE IF @.status # "" THEN None ELSE @]
           lapse == IF sells THEN [gate |-> h1.gate, lapsed |-> None] ELSE LapseExitSale(h1.gate)
           h2 == [h1 EXCEPT !.gate = lapse.gate]
           h3 == lapsed(h2, lapse.lapsed)
           marked == IF y.mark = None THEN "none" ELSE IF y.mark.asOf < last THEN "none" ELSE y.mark.price
           o == order(h3, p, marked, y.snapshot.positions, last)
           again == o.reason # "" /\ o.handler.gate.state = "normal"
           h4 == [o.handler EXCEPT !.replan = again,
                                   !.cause = IF ~again THEN @ ELSE IF afterRejection THEN y.cause ELSE Refusal]
           h5 == IF o.reason # "" \/ y.mode = "dry-run" THEN h4
                 ELSE [unwatch(h4) EXCEPT
                          !.watch = [id |-> p.id, side |-> p.side, released |-> p.quantity, status |-> "", ended |-> 0,
                                     afterRejection |-> afterRejection, venue |-> FALSE],
                          !.verdicts = Release(@, p.id)]
           h6 == IF sells /\ o.reason # "" THEN sale(h5, "exit", last) ELSE h5
<1>1. trade(y, last) = settleReplan(IF p = None THEN h3 ELSE h6, at)
  BY DEF trade
<1>2. GateOk(y.gate, Ids(y.retired), last) /\ GateRec(y.gate) /\ y.gate.state \in States /\ HandlerRec(y)
  BY DEF Sound, GateOk
<1> HIDE DEF shares, sameTarget, marked, afterRejection
<1>3. \/ p = None
      \/ /\ p # None /\ p.side \in Sides /\ p.id = ClientOrderID(tag, p.side) /\ p.tag = tag /\ p.sale = None
         /\ p.side = "buy" => ~Stopped(y.verdicts)
  <2>1. \/ plan = None
        \/ /\ plan # None /\ plan.side \in Sides /\ plan.id = ClientOrderID(tag, plan.side) /\ plan.tag = tag /\ plan.sale = None
    BY BoostPlan
  <2> HIDE DEF plan
  <2>2. stopped <=> plan # None /\ Stopped(y.verdicts) /\ plan.side # "sell"
    OBVIOUS
  <2> HIDE DEF stopped
  <2> QED BY <2>1, <2>2
<1> HIDE DEF p
<1>4. /\ HandlerRec(h1) /\ h1.out = y.out /\ h1.retired = y.retired /\ h1.lastPeriod = y.lastPeriod
      /\ h1.gate = [y.gate EXCEPT !.decided = @ \cup {tag}]
  BY <1>2 DEF HandlerRec
<1>5. Frame(y.gate, [y.gate EXCEPT !.decided = @ \cup {tag}])
  BY <1>2 DEF GateRec, Frame, Kept, Tighter, SameArms
<1> HIDE DEF h1
<1>6. Sound(h1, y, last, {}, waits) /\ h1.gate.state = y.gate.state
  <2>1. h1.gate.state = y.gate.state
    BY <1>2, <1>4 DEF GateRec
  <2> QED BY <1>4, <1>5, <2>1, SoundFrame
<1>7. GateRec(h1.gate) /\ h1.gate.state \in States
  BY <1>6 DEF Sound, GateOk
<1>8. /\ Kept(h1.gate, lapse.gate) /\ lapse.gate.state = h1.gate.state
      /\ \A w \in Armed(lapse.gate) : w \in Armed(h1.gate) /\ (lapse.lapsed # None => w.id # lapse.lapsed.id)
  <2> DEFINE l == LapseExitSale(h1.gate)
  <2>1. /\ Kept(h1.gate, l.gate) /\ l.gate.state = h1.gate.state
        /\ \A w \in Armed(l.gate) : w \in Armed(h1.gate) /\ (l.lapsed # None => w.id # l.lapsed.id)
    BY <1>7, LapseFacts
  <2> HIDE DEF l
  <2>2. CASE sells
    <3>1. lapse.gate = h1.gate /\ lapse.lapsed = None
      BY <2>2
    <3> HIDE DEF lapse
    <3> QED BY <3>1 DEF Kept, Tighter
  <2>3. CASE ~sells
    <3>1. lapse = l
      BY <2>3 DEF l
    <3> QED BY <2>1, <3>1
  <2> QED BY <2>2, <2>3
<1> HIDE DEF lapse
<1>9. /\ HandlerRec(h2) /\ h2.out = h1.out /\ h2.retired = h1.retired /\ h2.lastPeriod = h1.lastPeriod /\ h2.gate = lapse.gate
  BY <1>6 DEF HandlerRec, Sound
<1> HIDE DEF h2
<1>10. Sound(h2, y, last, {}, waits)
  BY <1>6, <1>7, <1>8, <1>9, SoundGate DEF AfterAttempt
<1>11. Sound(h3, y, last, {}, waits) /\ h3.gate = lapse.gate
  BY <1>8, <1>9, <1>10, SoundLapsed
<1> HIDE DEF h3
<1>12. CASE p = None
  <2>1. trade(y, last) = settleReplan(h3, at)
    BY <1>1, <1>12
  <2>2. at \in DOMAIN h3.out /\ h3.out[at] = y.out[at]
    BY <1>11 DEF Sound, Begins
  <2> HIDE DEF at
  <2>3. Sound(settleReplan(h3, at), x0, last, {}, waits)
    BY <1>11, <2>2, SoundReplan DEF at
  <2> QED BY <2>1, <2>3 DEF Answers
<1>13. CASE p # None
  <2>1. /\ p.side \in Sides /\ p.id = ClientOrderID(tag, p.side) /\ p.tag = tag /\ p.sale = None
        /\ p.side = "buy" => ~Stopped(y.verdicts)
    BY <1>3, <1>13
  <2>2. p.id \notin DOMAIN h3.gate.orders
    <3>1. Grown(y.gate, h3.gate, {})
      BY <1>11 DEF Sound
    <3>2. DOMAIN h3.gate.orders = DOMAIN y.gate.orders
      BY <3>1 DEF Grown, Tighter
    <3> QED BY <2>1, <3>2
  <2>3. Dated(p.id, last)
    BY <2>1 DEF Dated
  <2>4. \A w \in Armed(h3.gate) : w.id # p.id
    <3>1. \A w \in Armed(h3.gate) : SaleID(w.id)
      BY <1>11 DEF Sound, ArmsOk
    <3> QED BY <2>1, <3>1, IDsApart DEF SaleID
  <2>5. Sound(o.handler, y, last, IF o.reason = "" THEN {p} ELSE {}, waits)
    BY <1>8, <1>6, <1>11, <2>1, <2>2, <2>3, <2>4, SoundOrder
  <2> HIDE DEF o, again
  <2> DEFINE P == IF o.reason = "" THEN {p} ELSE {}
  <2>6. HandlerRec(o.handler)
    BY <2>5 DEF Sound
  <2>7. Alike(o.handler, h4) /\ HandlerRec(h4)
    BY <2>6 DEF HandlerRec, Alike
  <2> HIDE DEF h4
  <2>8. Alike(h4, h5)
    <3> DEFINE u == unwatch(h4)
    <3>1. Alike(h4, u)
      BY <2>7, AlikeUnwatch
    <3> HIDE DEF u
    <3> DEFINE w == [id |-> p.id, side |-> p.side, released |-> p.quantity, status |-> "", ended |-> 0,
                     afterRejection |-> afterRejection, venue |-> FALSE]
               m == [u EXCEPT !.watch = w, !.verdicts = Release(@, p.id)]
    <3>2. h5 = h4 \/ h5 = m
      BY DEF u
    <3> HIDE DEF w
    <3>3. Alike(u, m)
      BY <3>1 DEF HandlerRec, Alike
    <3> HIDE DEF m, h5
    <3> QED BY <2>7, <3>1, <3>2, <3>3, AlikeTwice, AlikeSelf
  <2> HIDE DEF h5
  <2>9. Sound(h5, y, last, P, waits)
    BY <2>5, <2>7, <2>8, SoundAlike
  <2>10. \E Q : Sound(h6, y, last, Q, waits)
    <3>1. CASE sells /\ o.reason # ""
      <4>1. Sound(h5, y, last, {}, waits)
        BY <2>9, <3>1
      <4>2. \E Q : Sound(sale(h5, "exit", last), y, last, Q, waits)
        BY <4>1, SoundSale DEF Triggers
      <4> QED BY <3>1, <4>2
    <3>2. CASE ~(sells /\ o.reason # "")
      <4>1. h6 = h5
        BY <3>2
      <4> HIDE DEF h6
      <4> QED BY <2>9, <4>1
    <3> QED BY <3>1, <3>2
  <2> HIDE DEF h6
  <2>11. PICK Q : Sound(h6, y, last, Q, waits)
    BY <2>10
  <2>12. trade(y, last) = settleReplan(h6, at)
    BY <1>1, <1>13
  <2>13. at \in DOMAIN h6.out /\ h6.out[at] = y.out[at]
    BY <2>11 DEF Sound, Begins
  <2> HIDE DEF at
  <2>14. Sound(settleReplan(h6, at), x0, last, Q, waits)
    BY <2>11, <2>13, SoundReplan DEF at
  <2> QED BY <2>12, <2>14 DEF Answers
<1> QED BY <1>12, <1>13

LEMMA SoundFrom ==
    ASSUME NEW y, NEW x, NEW last, NEW P, NEW waits, Sound(y, x, last, P, waits),
           NEW x0, x0.out = x.out, x0.gate = x.gate, x0.verdicts = x.verdicts
    PROVE  Sound(y, x0, last, P, waits)
  BY DEF Sound, Allowed

LEMMA SoundSelf ==
    ASSUME NEW y, NEW x, NEW last, NEW waits, Sound(y, x, last, {}, waits)
    PROVE  Sound(y, y, last, {}, waits)
<1>1. Begins(y.out, y.out) /\ Grown(y.gate, y.gate, {})
  BY DEF Begins, Grown, Tighter
<1> QED BY <1>1 DEF Sound

\* A decision is written last.
Decides(y, z) == \E d : z.out = Append(y.out, [type |-> "targets.decided", decision |-> d])

LEMMA SoundTargets ==
    ASSUME NEW y, NEW x, NEW last, NEW waits, Sound(y, x, last, {}, waits), NEW b, NEW period, NEW reason
    PROVE  LET z == targets(y, b, period, reason)
           IN  /\ Sound(z, x, last, {}, waits) /\ z.gate = y.gate /\ z.verdicts = y.verdicts
               /\ Decides(y, z)
<1> DEFINE d == [outcome |-> IF reason = "" THEN "decided" ELSE "withheld", reason |-> reason, session |-> period,
                 target |-> IF reason = "" THEN Target(y.latched) ELSE 0, boost |-> b]
           e == [type |-> "targets.decided", decision |-> d]
           z == targets(y, b, period, reason)
<1>1. Adds(y, z, e)
  BY DEF targets, add, Adds
<1>2. e.type = "targets.decided" /\ HandlerRec(y)
  BY DEF Sound
<1> HIDE DEF z, d
<1>3. z.out = Append(y.out, e) /\ z.gate = y.gate /\ z.verdicts = y.verdicts
  BY <1>1, <1>2, WriteFacts
<1>4. Decides(y, z)
  BY <1>3 DEF Decides
<1> HIDE DEF e
<1>5. Sound(z, x, last, {}, waits)
  BY <1>1, <1>2, SoundAdd, NoEvent
<1> QED BY <1>3, <1>4, <1>5 DEF z

\* The orders of a later session have new IDs.
LEMMA LaterIDs ==
    ASSUME NEW g, NEW gone, NEW last \in Nat, GateOk(g, gone, last), NEW next \in Nat, last < next, NEW side \in Sides
    PROVE  ClientOrderID(<<"targets-decided", next>>, side) \notin DOMAIN g.orders
<1> DEFINE id == ClientOrderID(<<"targets-decided", next>>, side)
<1> SUFFICES ASSUME id \in DOMAIN g.orders PROVE FALSE
  OBVIOUS
<1>1. CASE g.orders[id].sale = None
  <2>1. Dated(id, last)
    BY <1>1 DEF GateOk, Placed
  <2>2. PICK p \in Nat, s \in Sides : p <= last /\ id = ClientOrderID(<<"targets-decided", p>>, s)
    BY <2>1 DEF Dated
  <2>3. p = next
    BY <2>2, DecisionIDs
  <2> QED BY <2>2, <2>3
<1>2. CASE g.orders[id].sale # None
  <2>1. Numbered(g, gone, id, g.orders[id].tag)
    BY <1>2 DEF GateOk, Placed
  <2>2. PICK n \in Nat : id = SaleAttemptClientOrderID(g.orders[id].tag, n)
    BY <2>1 DEF Numbered
  <2> QED BY <2>2, IDsApart
<1> QED BY <1>1, <1>2

LEMMA SoundSession ==
    ASSUME NilIsNoRecord, NEW y, y.lastPeriod \in Nat, y.out = <<>>, NEW waits, Sound(y, y, y.lastPeriod, {}, waits),
           NEW s, s.period \in Nat
    PROVE  \E last \in Nat : Answers(applySession(y, s), y, last, waits)
<1> DEFINE last == s.period
           y0 == [y EXCEPT !.started = TRUE, !.lastPeriod = s.period]
           h1 == settleWatch(y0)
           quiet == s.period <= y.quietUntil
           missed == [h1 EXCEPT !.gap = Append(@, s.period)]
           b0 == [recordRejections(missed, boostFigures(missed, missed.latched)) EXCEPT !.missing = TRUE]
           read == [h1 EXCEPT !.latched = NextLatch(@, s.reading), !.gap = <<>>]
           b1 == [recordRejections(read, boostFigures(read, h1.latched)) EXCEPT !.gaps = h1.gap]
           stale == h1.snapshot = None \/ h1.snapshot.asOf # s.period
           decided == targets(recorded(read), b1, s.period, "")
           cleared == [h1 EXCEPT !.gap = <<>>]
           short == h1.snapshot.positions[Instrument] < 0
           unplanned == Fail(h1, "planned against a short")
           a == applySession(y, s)
<1>1. a = IF s.period <= y.lastPeriod THEN Fail(y, "session out of order")
          ELSE IF ~s.bar THEN IF quiet THEN missed ELSE targets(recorded(missed), b0, s.period, "missing-bars")
          ELSE IF quiet THEN cleared
          ELSE IF stale THEN targets(recorded(read), b1, s.period, "stale-account-snapshot")
          ELSE IF short THEN unplanned
          ELSE trade(decided, s.period)
  BY DEF applySession
<1>2. HandlerRec(y) /\ GateOk(y.gate, Ids(y.retired), y.lastPeriod)
  BY DEF Sound
<1>3. CASE s.period <= y.lastPeriod
  <2>1. a = Fail(y, "session out of order")
    BY <1>1, <1>3
  <2>2. Sound(Fail(y, "session out of order"), y, y.lastPeriod, {}, waits)
    BY <1>2, AlikeFail, SoundAlike
  <2> HIDE DEF a
  <2>3. Sound(a, y, y.lastPeriod, {}, waits)
    BY <2>1, <2>2
  <2> QED BY <2>3 DEF Answers, a
<1>4. CASE y.lastPeriod < last
  <2>1. /\ HandlerRec(y0) /\ y0.out = y.out /\ y0.retired = y.retired /\ y0.lastPeriod = last /\ y0.gate = y.gate
        /\ y0.verdicts = y.verdicts
    BY <1>2 DEF HandlerRec
  <2>2. y.lastPeriod <= last
    BY <1>4
  <2> HIDE DEF y0, b0, b1, quiet, stale, short, a, last
  <2>3. last \in Nat
    BY DEF last
  <2>4. Sound(y0, y, last, {}, waits)
    <3>1. GateOk(y.gate, Ids(y.retired), last)
      BY <1>2, <2>2, <2>3, OkLater
    <3> QED BY <2>1, <3>1 DEF Sound
  <2>5. Alike(y0, h1) /\ h1.verdicts = y0.verdicts
    BY <2>1, AlikeWatch
  <2> HIDE DEF h1
  <2>6. /\ Alike(h1, missed) /\ Alike(h1, read) /\ Alike(h1, cleared) /\ Alike(h1, unplanned)
        /\ missed.verdicts = h1.verdicts /\ read.verdicts = h1.verdicts
    BY <2>5, AlikeFail DEF Alike, HandlerRec
  <2> HIDE DEF missed, read, cleared, unplanned
  <2> DEFINE m == recorded(missed)
             r == recorded(read)
  <2>7. Alike(missed, m) /\ Alike(read, r) /\ r.verdicts = read.verdicts
    BY <2>6, AlikeSwept DEF Alike
  <2> HIDE DEF m, r
  <2>8. Sound(missed, y, last, {}, waits) /\ Sound(cleared, y, last, {}, waits) /\ Sound(unplanned, y, last, {}, waits)
    BY <2>4, <2>5, <2>6, SoundAlike
  <2>9. Sound(m, y, last, {}, waits) /\ Sound(r, y, last, {}, waits)
    BY <2>4, <2>5, <2>6, <2>7, SoundAlike
  <2>10. Sound(targets(m, b0, s.period, "missing-bars"), y, last, {}, waits)
    BY <2>9, SoundTargets
  <2>11. Sound(targets(r, b1, s.period, "stale-account-snapshot"), y, last, {}, waits)
    BY <2>9, SoundTargets
  <2>12. Answers(trade(decided, s.period), y, last, waits)
    <3>1. decided = targets(r, b1, s.period, "")
      BY DEF r
    <3> HIDE DEF decided
    <3>2. /\ Sound(decided, y, last, {}, waits) /\ decided.gate = r.gate /\ decided.verdicts = r.verdicts
          /\ Decides(r, decided)
      <4> DEFINE z == targets(r, b1, s.period, "")
      <4>1. /\ Sound(z, y, last, {}, waits) /\ z.gate = r.gate /\ z.verdicts = r.verdicts
            /\ Decides(r, z)
        BY <2>9, SoundTargets
      <4> HIDE DEF z
      <4>2. decided = z
        BY <3>1 DEF z
      <4> QED BY <4>1, <4>2
    <3>3. decided.gate = y.gate /\ decided.verdicts = y.verdicts /\ r.out = <<>>
      BY <2>1, <2>5, <2>6, <2>7, <3>2 DEF Alike
    <3>4. PICK d : decided.out = Append(r.out, [type |-> "targets.decided", decision |-> d])
      BY <3>2 DEF Decides
    <3>5. Len(decided.out) \in DOMAIN decided.out /\ decided.out[Len(decided.out)] = [type |-> "targets.decided", decision |-> d]
      <4> DEFINE e == [type |-> "targets.decided", decision |-> d]
      <4> HIDE DEF e
      <4>1. decided.out = Append(<<>>, e)
        BY <3>3, <3>4 DEF e
      <4>2. Append(<<>>, e) = <<e>>
        OBVIOUS
      <4>3. Len(decided.out) = 1 /\ 1 \in DOMAIN decided.out /\ decided.out[1] = e
        BY <4>1, <4>2
      <4> QED BY <4>3 DEF e
    <3>6. \A side \in Sides : ClientOrderID(<<"targets-decided", last>>, side) \notin DOMAIN decided.gate.orders
      BY <1>2, <1>4, <2>3, <3>3, LaterIDs
    <3>7. Sound(decided, decided, last, {}, waits)
      BY <3>2, SoundSelf
    <3> QED BY <2>3, <3>3, <3>5, <3>6, <3>7, SoundTrade DEF last
  <2>13. \/ a = missed \/ a = cleared \/ a = unplanned \/ a = targets(m, b0, s.period, "missing-bars")
         \/ a = targets(r, b1, s.period, "stale-account-snapshot") \/ a = trade(decided, s.period)
    <3> HIDE DEF decided
    <3>1. ~(s.period <= y.lastPeriod)
      BY <1>4 DEF last
    <3> DEFINE t0 == targets(m, b0, s.period, "missing-bars")
               t1 == targets(r, b1, s.period, "stale-account-snapshot")
               t2 == trade(decided, s.period)
    <3>2. a = IF ~s.bar THEN IF quiet THEN missed ELSE t0 ELSE IF quiet THEN cleared
              ELSE IF stale THEN t1 ELSE IF short THEN unplanned ELSE t2
      BY <1>1, <3>1 DEF m, r
    <3> HIDE DEF t0, t1, t2
    <3>3. a = missed \/ a = cleared \/ a = unplanned \/ a = t0 \/ a = t1 \/ a = t2
      BY <3>2
    <3> QED BY <3>3 DEF t0, t1, t2
  <2>14. Answers(a, y, last, waits)
    <3> HIDE DEF decided
    <3> QED BY <2>8, <2>10, <2>11, <2>12, <2>13 DEF Answers
  <2> QED BY <2>3, <2>14 DEF a
<1> QED BY <1>3, <1>4

----------------------------------------------------------------------------
(* The start of a run *)

LEMMA RestoreNone == ASSUME NEW st PROVE RestoreAll(st, <<>>) = st
<1> DEFINE step(acc, r) == [ok |-> acc.ok /\ checkRestored(acc.gate, r, FALSE), gate |-> applyReleased(acc.gate, r)]
           body(g) == [s \in SUBSET {} |-> IF s = {} THEN st ELSE step(g[s \ {Max(s)}], <<>>[Max(s)])]
           fold == CHOOSE g : g = body(g)
           one == [s \in SUBSET {} |-> st]
<1>1. one = body(one)
  OBVIOUS
<1>2. fold = body(fold)
  BY <1>1
<1>3. fold[{}] = st
  BY <1>2
<1>4. RestoreAll(st, <<>>) = fold[{}]
  BY DEF RestoreAll, FoldLeft, MapThenFoldSet
<1> QED BY <1>3, <1>4

\* A gate without orders, whose attempts are counted.
Fresh(g) ==
    /\ GateRec(g) /\ g.state \in States /\ g.orders = <<>> /\ g.exitWithheld = None /\ g.urgentWithheld = None
    /\ Shaped(g) /\ ~g.killEngaged

LEMMA FreshOk ==
    ASSUME NEW g, Fresh(g), NEW gone, NEW last
    PROVE  GateOk(g, gone, last) /\ Armed(g) = {}
  BY DEF Fresh, GateOk, Placed, Armed

LEMMA FreshRecovery ==
    ASSUME NEW g, Fresh(g), {"attempts", "restored", "retiredSales"} \subseteq DOMAIN g, g.retiredSales = <<>>, g.attempts = <<>>,
           NEW a, a.retired \in Nat
    PROVE  Fresh(RestoreRecovery(g, [released |-> <<>>, attempt |-> [incident |-> a.incident, attempted |-> a.attempted, retired |-> a.retired],
                                     retiredSales |-> {}, own |-> None, working |-> <<>>]).gate)
<1> DEFINE attempt == [incident |-> a.incident, attempted |-> a.attempted, retired |-> a.retired]
           rec == [released |-> <<>>, attempt |-> attempt, retiredSales |-> {}, own |-> None, working |-> <<>>]
           st == [ok |-> TRUE, gate |-> g]
           s1 == restoreAttempt(st, attempt)
           s2 == restoreRetired(s1, {})
<1>1. /\ rec.released = <<>> /\ rec.attempt = attempt /\ rec.retiredSales = {} /\ rec.own = None /\ rec.working = <<>>
      /\ attempt.incident = a.incident /\ attempt.retired = a.retired
  OBVIOUS
<1>2. RestoreRecovery(g, rec) = RestoreAll(restoreOwn(restoreRetired(restoreAttempt(RestoreAll(st, rec.released), rec.attempt), rec.retiredSales), rec.own), rec.working)
  BY DEF RestoreRecovery
<1> DEFINE new == [earlier |-> attempt.attempted, retired |-> attempt.retired, own |-> FALSE]
           known == With(st.gate.attempts, attempt.incident, new)
           k1 == [st.gate EXCEPT !.attempts = known, !.restored = attempt.incident]
<1>3. st.gate = g /\ (s1.gate = g \/ s1.gate = k1)
  <2>1. st.gate = g /\ "gate" \in DOMAIN st
    OBVIOUS
  <2> HIDE DEF st
  <2>3. s1 = st \/ s1 = [st EXCEPT !.gate = k1]
    BY DEF restoreAttempt
  <2> HIDE DEF new, attempt, s1, k1
  <2> QED BY <2>1, <2>3
<1> HIDE DEF rec
<1>4. RestoreRecovery(g, rec) = s2
  <2> HIDE DEF st, attempt
  <2>1. RestoreAll(st, <<>>) = st /\ RestoreAll(s2, <<>>) = s2
    BY RestoreNone
  <2> HIDE DEF s2
  <2>2. restoreOwn(s2, None) = s2
    BY DEF restoreOwn
  <2> QED BY <1>1, <1>2, <2>1, <2>2 DEF s2
<1>5. new.retired \in Nat /\ {"retired", "own"} \subseteq DOMAIN new
  BY <1>1
<1> HIDE DEF new, attempt, st
<1>6. Fresh(k1) /\ k1.retiredSales = <<>> /\ {"attempts", "restored", "retiredSales"} \subseteq DOMAIN k1
  <2>0. /\ GateRec(st.gate) /\ {"attempts", "restored", "retiredSales"} \subseteq DOMAIN st.gate
        /\ st.gate = g
    BY <1>3 DEF Fresh
  <2>1. /\ DOMAIN k1 = DOMAIN g /\ k1.state = g.state /\ k1.orders = g.orders /\ k1.exitWithheld = g.exitWithheld
        /\ k1.urgentWithheld = g.urgentWithheld /\ k1.killEngaged = g.killEngaged /\ k1.retiredSales = g.retiredSales
        /\ k1.attempts = With(g.attempts, attempt.incident, new)
    BY <2>0 DEF GateRec
  <2>2. DOMAIN g.attempts = {}
    OBVIOUS
  <2>3. \A t \in DOMAIN k1.attempts : k1.attempts[t] = new
    BY <2>1, <2>2 DEF With
  <2>4. Shaped(k1)
    <3> HIDE DEF k1
    <3>1. DOMAIN k1.orders = {} /\ DOMAIN k1.retiredSales = {}
      BY <2>1 DEF Fresh
    <3> QED BY <1>5, <2>3, <3>1 DEF Shaped
  <2> HIDE DEF k1
  <2> QED BY <2>1, <2>4 DEF Fresh, GateRec
<1> HIDE DEF k1, s1
<1>7. Fresh(s1.gate) /\ s1.gate.retiredSales = <<>>
  BY <1>3, <1>6
<1>8. Fresh(s2.gate)
  <2> DEFINE tags == {r.tag : r \in {}}
             count(tag) == Max({0} \cup {r.attempt - restoredRetired(s1.gate, tag) : r \in {q \in {} : q.tag = tag}})
  <2>1. s2 = [s1 EXCEPT !.gate.retiredSales = [t \in DOMAIN @ \cup tags |-> IF t \in tags THEN count(t) ELSE @[t]]]
    BY DEF restoreRetired
  <2>2. tags = {}
    OBVIOUS
  <2> HIDE DEF tags, count, s2
  <2> DEFINE none == [t \in DOMAIN s1.gate.retiredSales \cup tags |-> IF t \in tags THEN count(t) ELSE s1.gate.retiredSales[t]]
             k2 == [s1.gate EXCEPT !.retiredSales = none]
  <2>3. DOMAIN none = {}
    BY <1>7, <2>2
  <2>4. s2 = [s1 EXCEPT !.gate = k2]
    BY <2>1
  <2>5. Fresh(k2)
    <3> HIDE DEF none
    <3>1. /\ DOMAIN k2 = DOMAIN s1.gate /\ k2.state = s1.gate.state /\ k2.orders = s1.gate.orders /\ k2.exitWithheld = s1.gate.exitWithheld
          /\ k2.urgentWithheld = s1.gate.urgentWithheld /\ k2.killEngaged = s1.gate.killEngaged /\ k2.retiredSales = none
          /\ k2.attempts = s1.gate.attempts
      BY <1>7 DEF Fresh, GateRec
    <3> HIDE DEF k2
    <3>2. Shaped(k2)
      BY <1>7, <2>3, <3>1 DEF Fresh, Shaped
    <3> QED BY <1>7, <3>1, <3>2 DEF Fresh, GateRec
  <2>6. "gate" \in DOMAIN s1
    BY DEF s1, restoreAttempt, st
  <2> QED BY <2>4, <2>5, <2>6
<1>9. Fresh(RestoreRecovery(g, rec).gate)
  BY <1>4, <1>8
<1> QED BY <1>9 DEF rec, attempt

LEMMA FreshGate ==
    ASSUME NEW mode
    PROVE  /\ Fresh(NewGate(mode)) /\ {"attempts", "restored", "retiredSales"} \subseteq DOMAIN NewGate(mode)
           /\ NewGate(mode).retiredSales = <<>> /\ NewGate(mode).attempts = <<>>
  BY DEF NewGate, Fresh, GateRec, States, Shaped

\* The owner's approval of a fresh run.
LEMMA FreshApproval ==
    ASSUME NEW mode, NEW a, a.retired \in Nat, a.incident # NoTag => a.state \in {"degraded", "halted"}
    PROVE  LET z == applyApproval(New(mode), a)
           IN  /\ HandlerRec(z) /\ z.out = <<>> /\ z.retired = <<>> /\ z.lastPeriod = 0 /\ Fresh(z.gate)
               /\ z.verdicts = NoVerdicts /\ z.mode = mode /\ z.cleared = <<>>
<1> DEFINE y == New(mode)
           rec == [released |-> <<>>, attempt |-> [incident |-> a.incident, attempted |-> a.attempted, retired |-> a.retired],
                   retiredSales |-> {}, own |-> None, working |-> <<>>]
           g == RestoreRecovery(y.gate, rec).gate
           k == IF a.incident = NoTag THEN y.gate ELSE tighten(g, a.incident, a.state, a.scope)
           z == applyApproval(y, a)
<1>1. /\ HandlerRec(y) /\ y.out = <<>> /\ y.retired = <<>> /\ y.lastPeriod = 0 /\ y.gate = NewGate(mode)
      /\ ~y.approved /\ ~y.recovered /\ ~y.started /\ y.verdicts = NoVerdicts /\ y.mode = mode /\ y.cleared = <<>>
  BY DEF New, HandlerRec
<1>2. z = [y EXCEPT !.approved = TRUE, !.latched = a.latched, !.gate = k]
  <2> HIDE DEF y
  <2> QED BY <1>1 DEF applyApproval
<1> HIDE DEF y
<1>3. Fresh(y.gate) /\ Fresh(g)
  BY <1>1, FreshGate, FreshRecovery
<1> HIDE DEF g
<1>4. Fresh(k)
  <2>1. CASE a.incident = NoTag
    BY <1>3, <2>1
  <2>2. CASE a.incident # NoTag
    <3> DEFINE m == tighten(g, a.incident, a.state, a.scope)
    <3>1. Frame(g, m)
      BY <1>3, <2>2, FrameTighten DEF Fresh, States
    <3>2. m.orders = g.orders
      BY <1>3 DEF tighten, Fresh, GateRec
    <3> HIDE DEF m
    <3>3. Shaped(m)
      <4>1. DOMAIN m.orders = {}
        BY <1>3, <3>2 DEF Fresh
      <4> QED BY <1>3, <3>1, <4>1 DEF Fresh, Shaped, Frame, Kept
    <3>4. Fresh(m)
      BY <1>3, <3>1, <3>2, <3>3, FrameRec DEF Fresh, Frame, Kept, Tighter, SameArms
    <3> QED BY <2>2, <3>4 DEF m
  <2> QED BY <2>1, <2>2
<1> HIDE DEF k, z
<1>5. /\ HandlerRec(z) /\ z.out = <<>> /\ z.retired = <<>> /\ z.lastPeriod = 0 /\ z.gate = k
      /\ z.verdicts = NoVerdicts /\ z.mode = mode /\ z.cleared = <<>>
  BY <1>1, <1>2 DEF HandlerRec
<1> QED BY <1>4, <1>5 DEF z, y

----------------------------------------------------------------------------
(* One step of the run *)

\* What a step reads of the run's next state: its answer a, journalled in j.
Read(a, j) == h.fault = "" /\ h' = [a EXCEPT !.out = <<>>] /\ journal' = Journalled(j, a)

Closed(y, k) == Apply(IF k.price = "none" THEN y ELSE Apply(y, markRecorded(k.price)), sessionClosed(k))

\* A step leaves the run and its journal alone, but for what no release depends on, or is
\* one input.
LEMMA StepCases ==
    ASSUME Next
    PROVE  \/ UNCHANGED <<h, journal>>
           \/ h' = h /\ journal' = [journal EXCEPT !.byHand = TRUE]
           \/ h' = h /\ journal' = [journal EXCEPT !.fresh = FALSE]
           \/ Read(Apply(h, accountSnapshot), journal)
           \/ \E k \in SessionKinds : Read(Closed(h, k), [journal EXCEPT !.sessions = Append(@, sessionClosed(k).session)])
           \/ \E r \in Reads : Read(Apply(h, brokerSnapshot(r)), [journal EXCEPT !.end = ReadListing(@, IF r.named THEN Listed ELSE {})])
           \/ \E m \in mail : Read(Apply(h, Report(m)), Heard(m))
           \/ \E o \in DOMAIN venue : Read(Apply(h, orderRetired(o)), [journal EXCEPT !.end = ReadRetirement(@, orderRetired(o).retirement)])
           \/ \E o \in DOMAIN venue : Read(Apply(h, rebalanceCleared(o)), journal)
           \/ \E engaged \in BOOLEAN :
                  Read(Apply(h, killSwitch(engaged)), [journal EXCEPT !.kill = killSwitch(engaged).kill, !.end = ReadKillSwitch(@, killSwitch(engaged).kill)])
           \/ \E read \in BOOLEAN : Read(Apply(h, reconciliation(read)), journal)
           \/ \E kind \in {"dividend", "other"} : Read(Apply(h, corporateAction(kind)), journal)
<1> DEFINE closed(x, k) == Apply(IF k.price = "none" THEN x ELSE Apply(x, markRecorded(k.price)), sessionClosed(k))
<1>1. \/ Tick
      \/ AccountSnapshot(Apply(h, accountSnapshot), Apply(twin, accountSnapshot))
      \/ \E k \in SessionKinds : CloseSession(k, closed(h, k), closed(twin, k))
      \/ \E r \in Reads : BrokerSnapshot(r, Apply(h, brokerSnapshot(r)), Apply(twin, brokerSnapshot(r)))
      \/ Accept \/ Update \/ Reject \/ Execute \/ Cancel
      \/ \E m \in mail, again \in BOOLEAN : Deliver(m, again, Apply(h, Report(m)), Apply(twin, Report(m)))
      \/ \E o \in DOMAIN venue : Retire(o, Apply(h, orderRetired(o)), Apply(twin, orderRetired(o)))
      \/ \E o \in DOMAIN venue : ClearOrder(o, Apply(h, rebalanceCleared(o)), Apply(twin, rebalanceCleared(o)))
      \/ \E engaged \in BOOLEAN : KillSwitch(engaged, Apply(h, killSwitch(engaged)), Apply(twin, killSwitch(engaged)))
      \/ HandTrade
      \/ \E read \in BOOLEAN : ReconcileAccount(Apply(h, reconciliation(read)), Apply(twin, reconciliation(read)))
      \/ \E kind \in {"dividend", "other"} : CorporateAction(Apply(h, corporateAction(kind)), Apply(twin, corporateAction(kind)))
      \/ Restart(FoldLeft(Apply, New(h.mode), Replayed))
  BY Zenon DEF Next, Driven
<1>2. ASSUME NEW a, NEW b, NEW about, NEW v, NEW j, Input(a, b, about, v, j) PROVE Read(a, j)
  BY <1>2 DEF Input, Read
<1>3. CASE Tick
  BY <1>3 DEF Tick
<1>4. CASE Accept \/ Update \/ Reject \/ Execute \/ Cancel
  BY <1>4 DEF Accept, Update, Reject, Execute, Cancel
<1>5. CASE HandTrade
  BY <1>5 DEF HandTrade
<1>6. ASSUME NEW restarted, Restart(restarted) PROVE h' = h /\ journal' = [journal EXCEPT !.fresh = FALSE]
  BY <1>6 DEF Restart
<1>7. ASSUME NEW a, NEW b, AccountSnapshot(a, b) PROVE Read(a, journal)
  BY <1>2, <1>7 DEF AccountSnapshot
<1>8. ASSUME NEW k, NEW a, NEW b, CloseSession(k, a, b) PROVE Read(a, [journal EXCEPT !.sessions = Append(@, sessionClosed(k).session)])
  BY <1>2, <1>8 DEF CloseSession
<1>9. ASSUME NEW r, NEW a, NEW b, BrokerSnapshot(r, a, b)
      PROVE  Read(a, [journal EXCEPT !.end = ReadListing(@, IF r.named THEN Listed ELSE {})])
  BY <1>2, <1>9 DEF BrokerSnapshot
<1>10. ASSUME NEW m, NEW again, NEW a, NEW b, Deliver(m, again, a, b) PROVE Read(a, Heard(m))
  BY <1>2, <1>10 DEF Deliver
<1>11. ASSUME NEW o, NEW a, NEW b, Retire(o, a, b)
       PROVE  Read(a, [journal EXCEPT !.end = ReadRetirement(@, orderRetired(o).retirement)])
  BY <1>2, <1>11 DEF Retire
<1>12. ASSUME NEW o, NEW a, NEW b, ClearOrder(o, a, b) PROVE Read(a, journal)
  BY <1>2, <1>12 DEF ClearOrder
<1>13. ASSUME NEW engaged, NEW a, NEW b, KillSwitch(engaged, a, b)
       PROVE  Read(a, [journal EXCEPT !.kill = killSwitch(engaged).kill, !.end = ReadKillSwitch(@, killSwitch(engaged).kill)])
  BY <1>2, <1>13 DEF KillSwitch
<1>14. ASSUME NEW a, NEW b, ReconcileAccount(a, b) PROVE Read(a, journal)
  BY <1>2, <1>14 DEF ReconcileAccount
<1>15. ASSUME NEW a, NEW b, CorporateAction(a, b) PROVE Read(a, journal)
  BY <1>2, <1>15 DEF CorporateAction
<1> HIDE DEF closed
<1> QED BY <1>1, <1>3, <1>4, <1>5, <1>6, <1>7, <1>8, <1>9, <1>10, <1>11, <1>12, <1>13, <1>14, <1>15 DEF Closed, closed

LEMMA ClockStep == Next => clock' = clock \/ clock' = clock + 1
<1> SUFFICES ASSUME Next PROVE clock' = clock \/ clock' = clock + 1
  OBVIOUS
<1> DEFINE closed(x, k) == Apply(IF k.price = "none" THEN x ELSE Apply(x, markRecorded(k.price)), sessionClosed(k))
<1>1. \/ Tick
      \/ \E a, b : AccountSnapshot(a, b) \/ ReconcileAccount(a, b) \/ CorporateAction(a, b)
      \/ \E k, a, b : CloseSession(k, a, b) \/ BrokerSnapshot(k, a, b) \/ Retire(k, a, b) \/ ClearOrder(k, a, b) \/ KillSwitch(k, a, b)
      \/ Accept \/ Update \/ Reject \/ Execute \/ Cancel
      \/ \E m, again, a, b : Deliver(m, again, a, b)
      \/ HandTrade
      \/ \E r : Restart(r)
  BY Zenon DEF Next, Driven
<1>2. CASE Tick
  BY <1>2 DEF Tick
<1>3. ASSUME NEW a, NEW b, AccountSnapshot(a, b) \/ ReconcileAccount(a, b) \/ CorporateAction(a, b) PROVE clock' = clock
  BY <1>3 DEF AccountSnapshot, ReconcileAccount, CorporateAction
<1>4. ASSUME NEW k, NEW a, NEW b, CloseSession(k, a, b) \/ BrokerSnapshot(k, a, b) \/ Retire(k, a, b) \/ ClearOrder(k, a, b) \/ KillSwitch(k, a, b)
      PROVE  clock' = clock
  BY <1>4 DEF CloseSession, BrokerSnapshot, Retire, ClearOrder, KillSwitch
<1>5. CASE Accept \/ Update \/ Reject \/ Execute \/ Cancel \/ HandTrade
  BY <1>5 DEF Accept, Update, Reject, Execute, Cancel, HandTrade
<1>6. ASSUME NEW m, NEW again, NEW a, NEW b, Deliver(m, again, a, b) PROVE clock' = clock
  BY <1>6 DEF Deliver
<1>7. ASSUME NEW r, Restart(r) PROVE clock' = clock
  BY <1>7 DEF Restart
<1> QED BY <1>1, <1>2, <1>3, <1>4, <1>5, <1>6, <1>7

----------------------------------------------------------------------------
(* The inputs, by their events *)

LEMMA ApplyCases ==
    ASSUME NEW y, NEW in
    PROVE  /\ in.event = "kill.switch" => Apply(y, in) = applyKillSwitch(y, in.kill)
           /\ in.event = "broker.snapshot" => Apply(y, in) = applyBrokerSnapshot(y, in.snapshot)
           /\ in.event = "account.snapshot" => Apply(y, in) = applySnapshot(y, in.snapshot)
           /\ in.event = "mark.recorded" => Apply(y, in) = applyMark(y, in.mark)
           /\ in.event = "session.closed" => Apply(y, in) = applySession(y, in.session)
           /\ in.event = "fill" => Apply(y, in) = applyFill(y, in.fill)
           /\ in.event = "order.lifecycle" => Apply(y, in) = applyLifecycle(y, in.report)
           /\ in.event = "reconciliation" => Apply(y, in) = applyReconciliation(y, in.id, in.observed)
           /\ in.event = "corporate.action" => Apply(y, in) = applyCorporateAction(y, in.action)
           /\ in.event = "rebalance.cleared" => Apply(y, in) = applyClearance(y, in.clearance)
           /\ in.event = "order.retired" => Apply(y, in) = applyRetired(y, in.retirement)
<1>1. in.event = "kill.switch" => Apply(y, in) = applyKillSwitch(y, in.kill)
  BY DEF Apply
<1>2. in.event = "broker.snapshot" => Apply(y, in) = applyBrokerSnapshot(y, in.snapshot)
  BY DEF Apply
<1>3. in.event = "account.snapshot" => Apply(y, in) = applySnapshot(y, in.snapshot)
  BY DEF Apply
<1>4. in.event = "mark.recorded" => Apply(y, in) = applyMark(y, in.mark)
  BY DEF Apply
<1>5. in.event = "session.closed" => Apply(y, in) = applySession(y, in.session)
  BY DEF Apply
<1>6. in.event = "fill" => Apply(y, in) = applyFill(y, in.fill)
  BY DEF Apply
<1>7. in.event = "order.lifecycle" => Apply(y, in) = applyLifecycle(y, in.report)
  BY DEF Apply
<1>8. in.event = "reconciliation" => Apply(y, in) = applyReconciliation(y, in.id, in.observed)
  BY DEF Apply
<1>9. in.event = "corporate.action" => Apply(y, in) = applyCorporateAction(y, in.action)
  BY DEF Apply
<1>10. in.event = "rebalance.cleared" => Apply(y, in) = applyClearance(y, in.clearance)
  BY DEF Apply
<1>11. in.event = "order.retired" => Apply(y, in) = applyRetired(y, in.retirement)
  BY DEF Apply
<1> QED BY <1>1, <1>2, <1>3, <1>4, <1>5, <1>6, <1>7, <1>8, <1>9, <1>10, <1>11

LEMMA EventNames ==
    /\ accountSnapshot.event = "account.snapshot"
    /\ \A k : sessionClosed(k).event = "session.closed" /\ sessionClosed(k).session.period = clock
    /\ \A price : markRecorded(price).event = "mark.recorded"
    /\ \A r : brokerSnapshot(r).event = "broker.snapshot"
    /\ \A m : Report(m).event \in {"fill", "order.lifecycle"}
    /\ \A o : orderRetired(o).event = "order.retired"
    /\ \A o : rebalanceCleared(o).event = "rebalance.cleared"
    /\ \A e : /\ killSwitch(e).event = "kill.switch" /\ killSwitch(e).kill.engaged = e
    /\ \A read : reconciliation(read).event = "reconciliation"
    /\ \A kind : corporateAction(kind).event = "corporate.action"
<1>1. accountSnapshot.event = "account.snapshot"
  BY DEF accountSnapshot
<1>2. \A k : sessionClosed(k).event = "session.closed" /\ sessionClosed(k).session.period = clock
  BY DEF sessionClosed
<1>3. \A price : markRecorded(price).event = "mark.recorded"
  BY DEF markRecorded
<1>4. \A r : brokerSnapshot(r).event = "broker.snapshot"
  BY DEF brokerSnapshot
<1>5. \A m : Report(m).event \in {"fill", "order.lifecycle"}
  BY DEF Report
<1>6. \A o : orderRetired(o).event = "order.retired"
  BY DEF orderRetired
<1>7. \A o : rebalanceCleared(o).event = "rebalance.cleared"
  BY DEF rebalanceCleared
<1>8. \A e : /\ killSwitch(e).event = "kill.switch" /\ killSwitch(e).kill.engaged = e
  BY DEF killSwitch
<1>9. \A read : reconciliation(read).event = "reconciliation"
  BY DEF reconciliation
<1>10. \A kind : corporateAction(kind).event = "corporate.action"
  BY DEF corporateAction
<1> QED BY <1>1, <1>2, <1>3, <1>4, <1>5, <1>6, <1>7, <1>8, <1>9, <1>10

----------------------------------------------------------------------------
(* What is journalled of an answer *)

LEMMA JournalEntry ==
    ASSUME NEW e
    PROVE  LET r == releaseOf(e)
           IN  /\ r.id = e.order.id /\ r.tag = e.order.tag /\ r.side = e.order.side
               /\ r.sale <=> e.order.sale # None
<1> DEFINE sold == e.order.sale # None
<1>1. releaseOf(e) = [id |-> e.order.id, tag |-> e.order.tag, side |-> e.order.side, sale |-> sold]
  BY DEF releaseOf
<1> HIDE DEF sold
<1>2. releaseOf(e).id = e.order.id /\ releaseOf(e).tag = e.order.tag /\ releaseOf(e).side = e.order.side
  BY <1>1
<1>3. releaseOf(e).sale = sold
  BY <1>1
<1>4. sold <=> e.order.sale # None
  BY DEF sold
<1> QED BY <1>2, <1>3, <1>4

LEMMA JoinNone ==
    ASSUME NEW s, IsList(s)
    PROVE  s \o <<>> = s
<1>1. s \in Seq({s[i] : i \in DOMAIN s})
  BY DEF IsList
<1> QED BY <1>1

LEMMA JoinOne ==
    ASSUME NEW s, IsList(s), NEW e
    PROVE  s \o <<e>> = Append(s, e)
<1> DEFINE E == {s[i] : i \in DOMAIN s} \cup {e}
<1>1. s \in [1..Len(s) -> E]
  BY ListFacts
<1>2. s \in Seq(E) /\ e \in E
  BY <1>1, ListFacts
<1> HIDE DEF E
<1> QED BY <1>2

LEMMA JournalFields ==
    ASSUME NEW j, {"releases", "waiting", "kill", "words"} \subseteq DOMAIN j, NEW a
    PROVE  LET J == Journalled(j, a)
           IN  /\ DOMAIN J = DOMAIN j /\ J.waiting = Waiting(j.waiting, a.out) /\ J.kill = j.kill /\ J.words = j.words
               /\ J.releases = j.releases \o Each(Wrote(a.out, "order.released"), releaseOf)
<1> DEFINE more == Each(Wrote(a.out, "order.released"), releaseOf)
           says == Each(Wrote(a.out, "engine.state"), LAMBDA e : e.state)
           end == FoldLeft(ReadDecision, j.end, a.out)
           decisions == Wrote(a.out, "targets.decided")
           some == decisions # <<>>
           last == IF decisions = <<>> THEN j.decision ELSE decisions[1].decision
           J == Journalled(j, a)
<1>1. J = [j EXCEPT !.releases = @ \o more, !.waiting = Waiting(@, a.out), !.decision = last, !.fresh = some,
                    !.end = end, !.states = @ \o says]
  BY Zenon DEF Journalled
<1> HIDE DEF more, says, end, decisions, some, last, J
<1>2. DOMAIN J = DOMAIN j /\ J.waiting = Waiting(j.waiting, a.out) /\ J.kill = j.kill /\ J.releases = j.releases \o more /\ J.words = j.words
  BY <1>1
<1> QED BY <1>2 DEF J, more

\* The releases T are R, or R and the one order of P.
Extends(R, T, P) == (P = {} /\ T = R) \/ \E e : P = {e.order} /\ T = Append(R, releaseOf(e))

LEMMA JournalGrows ==
    ASSUME NEW j, {"releases", "waiting", "kill", "words"} \subseteq DOMAIN j, IsList(j.releases), NEW a, NEW P, Says(a.out, P)
    PROVE  Extends(j.releases, Journalled(j, a).releases, P)
<1>1. Journalled(j, a).releases = j.releases \o Each(Wrote(a.out, "order.released"), releaseOf)
  BY JournalFields
<1>2. CASE P = {} /\ \A i \in DOMAIN a.out : a.out[i].type # "order.released"
  <2>1. Wrote(a.out, "order.released") = <<>>
    BY <1>2, WroteNone
  <2>2. Each(<<>>, releaseOf) = <<>>
    BY DEF Each
  <2>3. j.releases \o <<>> = j.releases
    BY JoinNone
  <2>4. P = {} /\ Journalled(j, a).releases = j.releases
    BY <1>1, <1>2, <2>1, <2>2, <2>3
  <2> QED BY <2>4 DEF Extends
<1>3. ASSUME NEW i \in DOMAIN a.out, a.out[i].type = "order.released", P = {a.out[i].order},
             \A k \in DOMAIN a.out : k # i => a.out[k].type # "order.released"
      PROVE  \E e : P = {e.order} /\ Journalled(j, a).releases = Append(j.releases, releaseOf(e))
  <2>1. i \in DOMAIN a.out \cap Nat
    BY ListFacts DEF Says
  <2>2. Wrote(a.out, "order.released") = <<a.out[i]>>
    BY <1>3, <2>1, WroteOne
  <2>3. Each(<<a.out[i]>>, releaseOf) = <<releaseOf(a.out[i])>>
    <3> DEFINE e == a.out[i]
    <3> HIDE DEF e
    <3>1. DOMAIN <<e>> = {1} /\ <<e>>[1] = e /\ DOMAIN <<releaseOf(e)>> = {1} /\ <<releaseOf(e)>>[1] = releaseOf(e)
      OBVIOUS
    <3>2. Each(<<e>>, releaseOf) = [k \in DOMAIN <<e>> |-> releaseOf(<<e>>[k])]
      BY DEF Each
    <3>3. Each(<<e>>, releaseOf) = [k \in {1} |-> releaseOf(e)]
      BY <3>1, <3>2
    <3>4. <<releaseOf(e)>> = [k \in {1} |-> releaseOf(e)]
      OBVIOUS
    <3> QED BY <3>3, <3>4 DEF e
  <2>4. j.releases \o <<releaseOf(a.out[i])>> = Append(j.releases, releaseOf(a.out[i]))
    BY JoinOne
  <2> QED BY <1>1, <1>3, <2>2, <2>3, <2>4
<1> QED BY <1>2, <1>3 DEF Says, Extends

----------------------------------------------------------------------------
(* The run between two steps *)

Journal(j) == {"releases", "waiting", "kill", "words"} \subseteq DOMAIN j

\* The orders journalled as released are orders of the gate, each once.
Backed(R, g) ==
    /\ IsList(R)
    /\ \A i \in DOMAIN R :
        /\ R[i].id \in DOMAIN g.orders /\ R[i].tag = g.orders[R[i].id].tag
        /\ R[i].sale <=> g.orders[R[i].id].sale # None
    /\ \A i, k \in DOMAIN R : R[i].id = R[k].id => i = k

\* Between two steps nothing is being written, no order is missing from the gate, and every
\* sale armed waits in the journal.
RunOk ==
    /\ clock \in Nat /\ h.lastPeriod \in Nat /\ h.out = <<>> /\ Sound(h, h, h.lastPeriod, {}, journal.waiting)
    /\ Journal(journal) /\ Backed(journal.releases, h.gate)

\* The gate knows the kill switch the journal tells of.
KillKnown == h.fault = "" => (KillEngaged <=> h.gate.killEngaged)

LEMMA BackedGrown ==
    ASSUME NEW R, NEW g, Backed(R, g), NEW k, NEW P, Grown(g, k, P)
    PROVE  Backed(R, k)
  BY DEF Backed, Grown

LEMMA BackedOne ==
    ASSUME NEW R, NEW g, Backed(R, g), NEW k, NEW e, Grown(g, k, {e.order})
    PROVE  Backed(Append(R, releaseOf(e)), k)
<1> DEFINE r == releaseOf(e)
           T == Append(R, r)
<1>1. /\ r.id = e.order.id /\ r.tag = e.order.tag
      /\ r.sale <=> e.order.sale # None
  BY JournalEntry
<1>2. /\ IsList(R) /\ IsList(T) /\ DOMAIN T = 1..(Len(R) + 1) /\ T[Len(R) + 1] = r /\ DOMAIN R = 1..Len(R) /\ Len(R) \in Nat
      /\ \A i \in 1..Len(R) : T[i] = R[i]
  BY AppendFacts, ListFacts DEF Backed
<1> HIDE DEF r, T
<1>3. Backed(R, k)
  BY BackedGrown
<1>4. r.id \notin DOMAIN g.orders /\ r.id \in DOMAIN k.orders /\ k.orders[r.id].tag = r.tag /\ k.orders[r.id].sale = e.order.sale
  BY <1>1 DEF Grown, Tighter
<1>5. \A i \in DOMAIN T : (i \in DOMAIN R /\ T[i] = R[i]) \/ (i = Len(R) + 1 /\ T[i] = r)
  BY <1>2
<1>6. ASSUME NEW i \in DOMAIN T
      PROVE  /\ T[i].id \in DOMAIN k.orders /\ T[i].tag = k.orders[T[i].id].tag
             /\ T[i].sale <=> k.orders[T[i].id].sale # None
  BY <1>1, <1>3, <1>4, <1>5 DEF Backed
<1>7. ASSUME NEW i \in DOMAIN T, NEW m \in DOMAIN T, T[i].id = T[m].id
      PROVE  i = m
  <2>1. \A n \in DOMAIN R : R[n].id # r.id
    BY <1>4 DEF Backed
  <2> QED BY <1>5, <1>7, <2>1 DEF Backed
<1>8. Backed(T, k)
  BY <1>2, <1>6, <1>7 DEF Backed
<1> QED BY <1>8 DEF T, r

\* An answer journalled: the run is as it should be again, and only what nothing bars was
\* bought.
LEMMA AnswerOk ==
    ASSUME clock \in Nat, clock' \in Nat, h.out = <<>>, NEW j, Journal(j), j.waiting = journal.waiting, Backed(j.releases, h.gate),
           j.releases = journal.releases,
           NEW a, NEW last \in Nat, Answers(a, h, last, journal.waiting), Read(a, j)
    PROVE  /\ RunOk' /\ h'.gate.killEngaged = h.gate.killEngaged /\ h'.fault = a.fault /\ journal'.kill = j.kill
           /\ Tighter(h.gate, h'.gate)
           /\ BuysOf(journal') # BuysOf(journal) => h.gate.state = "normal" /\ ~h.gate.killEngaged /\ ~Stopped(h.verdicts)
<1>1. PICK P : Sound(a, h, last, P, journal.waiting)
  BY DEF Answers
<1>2. HandlerRec(a) /\ Says(a.out, P) /\ Grown(h.gate, a.gate, P) /\ \A p \in P : Allowed(h, p)
  BY <1>1 DEF Sound
<1>3. /\ HandlerRec(h') /\ h'.out = <<>> /\ h'.retired = a.retired /\ h'.lastPeriod = a.lastPeriod /\ h'.gate = a.gate
      /\ h'.fault = a.fault
  BY <1>2 DEF Read, HandlerRec
<1> DEFINE J == Journalled(j, a)
<1>4. journal' = J
  BY DEF Read
<1>5. DOMAIN J = DOMAIN j /\ J.waiting = Waiting(journal.waiting, a.out) /\ J.kill = j.kill
  BY JournalFields DEF Journal
<1>6. Extends(j.releases, J.releases, P)
  <2>1. {"releases", "waiting", "kill", "words"} \subseteq DOMAIN j /\ IsList(j.releases)
    BY DEF Journal, Backed
  <2> QED BY <1>2, <2>1, JournalGrows
<1> HIDE DEF J
<1>7. Backed(J.releases, a.gate)
  <2>1. CASE P = {} /\ J.releases = j.releases
    BY <1>2, <2>1, BackedGrown
  <2>2. ASSUME NEW e, P = {e.order}, J.releases = Append(j.releases, releaseOf(e)) PROVE Backed(J.releases, a.gate)
    BY <1>2, <2>2, BackedOne
  <2> QED BY <1>6, <2>1, <2>2 DEF Extends
<1>8. ArmsOk(h'.gate, Waiting(journal'.waiting, h'.out))
  <2>1. Waiting(J.waiting, <<>>) = J.waiting
    BY WaitingNone
  <2> QED BY <1>1, <1>3, <1>4, <1>5, <2>1 DEF Sound
<1>9. Sound(h', h', last, {}, journal'.waiting)
  <2>1. Says(<<>>, {}) /\ Begins(<<>>, <<>>)
    <3>1. IsList(<<>>)
      BY DEF IsList
    <3>2. DOMAIN <<>> = {}
      OBVIOUS
    <3> QED BY <3>1, <3>2 DEF Says, Begins
  <2>2. Grown(h'.gate, h'.gate, {})
    BY DEF Grown, Tighter
  <2> QED BY <1>1, <1>3, <1>8, <2>1, <2>2 DEF Sound
<1>10. RunOk'
  <2>1. h'.lastPeriod = last
    BY <1>1, <1>3 DEF Sound
  <2> QED BY <1>3, <1>4, <1>5, <1>7, <1>9, <2>1 DEF RunOk, Journal
<1>11. h'.gate.killEngaged = h.gate.killEngaged /\ Tighter(h.gate, h'.gate)
  BY <1>2, <1>3 DEF Grown, Tighter
<1>12. ASSUME BuysOf(journal') # BuysOf(journal)
       PROVE  h.gate.state = "normal" /\ ~h.gate.killEngaged /\ ~Stopped(h.verdicts)
  <2>1. CASE P = {} /\ J.releases = j.releases
    BY <1>4, <1>12, <2>1 DEF BuysOf
  <2>2. ASSUME NEW e, P = {e.order}, J.releases = Append(j.releases, releaseOf(e))
        PROVE  h.gate.state = "normal" /\ ~h.gate.killEngaged /\ ~Stopped(h.verdicts)
    <3> DEFINE r == releaseOf(e)
               R == j.releases
               T == Append(R, r)
    <3>1. r.side = e.order.side
      BY JournalEntry
    <3>2. /\ DOMAIN T = 1..(Len(R) + 1) /\ T[Len(R) + 1] = r /\ DOMAIN R = 1..Len(R) /\ Len(R) \in Nat
          /\ \A i \in 1..Len(R) : T[i] = R[i]
      BY AppendFacts, ListFacts DEF Backed
    <3>3. J.releases = T
      BY <2>2
    <3> HIDE DEF r, T
    <3>4. CASE r.side = "buy"
      BY <1>2, <2>2, <3>1, <3>4 DEF Allowed
    <3>5. CASE r.side # "buy"
      <4>1. {i \in DOMAIN T : T[i].side = "buy"} = {i \in DOMAIN R : R[i].side = "buy"}
        BY <3>2, <3>5
      <4> QED BY <1>4, <1>12, <3>3, <4>1 DEF BuysOf
    <3> QED BY <3>4, <3>5
  <2> QED BY <1>6, <2>1, <2>2 DEF Extends
<1> QED BY <1>3, <1>4, <1>5, <1>10, <1>11, <1>12

\* The session's mark changes neither the gate nor the verdicts.
LEMMA MarkFacts ==
    ASSUME NEW y, HandlerRec(y), NEW m
    PROVE  Alike(y, applyMark(y, m)) /\ applyMark(y, m).verdicts = y.verdicts /\ applyMark(y, m).cleared = y.cleared
<1>1. CASE applyMark(y, m) = Fail(y, "mark out of order")
  BY <1>1, AlikeFail
<1>2. CASE applyMark(y, m) = [y EXCEPT !.mark = m]
  BY <1>2 DEF Alike, HandlerRec
<1> QED BY <1>1, <1>2 DEF applyMark

LEMMA SoundClosed ==
    ASSUME NilIsNoRecord, RunOk, NEW k
    PROVE  \E last \in Nat : Answers(Closed(h, k), h, last, journal.waiting)
<1> DEFINE W == journal.waiting
           s == sessionClosed(k).session
           y == IF k.price = "none" THEN h ELSE applyMark(h, markRecorded(k.price).mark)
<1>1. Sound(h, h, h.lastPeriod, {}, W) /\ HandlerRec(h) /\ clock \in Nat /\ h.lastPeriod \in Nat /\ h.out = <<>>
  BY DEF RunOk, Sound
<1>2. s.period \in Nat
  BY <1>1, EventNames
<1>3. Closed(h, k) = applySession(y, s)
  BY ApplyCases, EventNames DEF Closed
<1>4. Alike(h, y) /\ y.verdicts = h.verdicts
  BY <1>1, MarkFacts, AlikeSelf
<1> HIDE DEF y, s, W
<1>5. Sound(y, h, h.lastPeriod, {}, W)
  BY <1>1, <1>4, SoundAlike
<1>6. Sound(y, y, y.lastPeriod, {}, W)
  BY <1>4, <1>5, SoundSelf DEF Alike
<1>7. PICK last \in Nat : Answers(applySession(y, s), y, last, W)
  BY <1>1, <1>2, <1>4, <1>6, SoundSession DEF Alike
<1>8. Answers(applySession(y, s), h, last, W)
  BY <1>4, <1>7, SoundFrom DEF Answers, Alike
<1> QED BY <1>3, <1>8 DEF W

\* Whatever is read but the kill switch and a session's close.
LEMMA SoundInput ==
    ASSUME NilIsNoRecord, RunOk, NEW in,
           in.event \in {"broker.snapshot", "account.snapshot", "fill", "order.lifecycle", "reconciliation", "corporate.action",
                         "rebalance.cleared", "order.retired"}
    PROVE  Answers(Apply(h, in), h, h.lastPeriod, journal.waiting)
<1>1. Sound(h, h, h.lastPeriod, {}, journal.waiting)
  BY DEF RunOk
<1>2. CASE in.event = "broker.snapshot"
  BY <1>1, <1>2, ApplyCases, SoundBroker
<1>3. CASE in.event = "account.snapshot"
  BY <1>1, <1>3, ApplyCases, SoundSnapshot
<1>4. CASE in.event = "fill"
  BY <1>1, <1>4, ApplyCases, SoundFill
<1>5. CASE in.event = "order.lifecycle"
  BY <1>1, <1>5, ApplyCases, SoundLifecycle
<1>6. CASE in.event = "reconciliation"
  BY <1>1, <1>6, ApplyCases, SoundReconciliation
<1>7. CASE in.event = "corporate.action"
  BY <1>1, <1>7, ApplyCases, SoundCorporate
<1>8. CASE in.event = "rebalance.cleared"
  BY <1>1, <1>8, ApplyCases, SoundClearance
<1>9. CASE in.event = "order.retired"
  BY <1>1, <1>9, ApplyCases, SoundRetired
<1> QED BY <1>2, <1>3, <1>4, <1>5, <1>6, <1>7, <1>8, <1>9

\* The kill switch: read, or refused with an error.
LEMMA KillOk ==
    ASSUME RunOk, NEW k
    PROVE  LET a == applyKillSwitch(h, k)
           IN  /\ Sound(a, a, h.lastPeriod, {}, journal.waiting) /\ a.gate.orders = h.gate.orders /\ a.out = <<>>
               /\ Tighter(h.gate, a.gate)
               /\ a.fault = "" => a.gate.killEngaged = k.engaged
<1> DEFINE a == applyKillSwitch(h, k)
           last == h.lastPeriod
           W == journal.waiting
<1>1. Sound(h, h, last, {}, W) /\ HandlerRec(h) /\ h.out = <<>> /\ GateOk(h.gate, Ids(h.retired), last)
  BY DEF RunOk, Sound
<1>2. CASE a = Fail(h, "kill switch out of order")
  <2>1. Alike(h, a)
    BY <1>1, <1>2, AlikeFail
  <2>2. a.fault # ""
    BY <1>1, <1>2 DEF Fail, HandlerRec
  <2> HIDE DEF a, last, W
  <2>3. Sound(a, h, last, {}, W)
    BY <1>1, <2>1, SoundAlike
  <2>4. Sound(a, a, last, {}, W)
    BY <2>3, SoundSelf
  <2> QED BY <1>1, <2>1, <2>2, <2>4 DEF Alike, Tighter, a, last, W
<1>3. CASE a = [h EXCEPT !.gate = SetKillSwitch(h.gate, k.id, k)]
  <2> DEFINE m == SetKillSwitch(h.gate, k.id, k)
  <2>1. /\ GateOk(m, Ids(h.retired), last) /\ m.orders = h.gate.orders /\ SameArms(h.gate, m) /\ m.killEngaged = k.engaged
        /\ Tighter(h.gate, m)
    BY <1>1, OkKillSwitch DEF Tighter
  <2> HIDE DEF m
  <2>2. HandlerRec(a) /\ a.gate = m /\ a.out = h.out /\ a.retired = h.retired /\ a.lastPeriod = last
    BY <1>1, <1>3 DEF HandlerRec, m
  <2> HIDE DEF a, last, W
  <2>3. Armed(m) = Armed(h.gate)
    BY <2>1, ArmsSame
  <2>4. Grown(a.gate, a.gate, {})
    BY DEF Grown, Tighter
  <2>5. Sound(a, a, last, {}, W)
    BY <1>1, <2>1, <2>2, <2>3, <2>4 DEF Sound, ArmsOk
  <2> QED BY <1>1, <2>1, <2>2, <2>5 DEF a, last, W
<1> QED BY <1>2, <1>3 DEF applyKillSwitch

\* What a step does: the run stays as it should be, its gate no looser, and only what nothing
\* bars is bought.
StepOk ==
    /\ RunOk' /\ KillKnown' /\ Tighter(h.gate, h'.gate)
    /\ BuysOf(journal') # BuysOf(journal) => h.gate.state = "normal" /\ ~KillEngaged /\ ~Stopped(h.verdicts)

\* j differs from the journal in nothing the releases, the waiting sales, the kill switch and
\* the words depend on.
SameJournal(j) == DOMAIN j = DOMAIN journal /\ j.releases = journal.releases /\ j.waiting = journal.waiting /\ j.kill = journal.kill

LEMMA ReadOk ==
    ASSUME RunOk, KillKnown, clock' \in Nat, NEW j, SameJournal(j), NEW a, NEW last \in Nat,
           Answers(a, h, last, journal.waiting), Read(a, j)
    PROVE  StepOk
<1>1. /\ clock \in Nat /\ h.out = <<>> /\ Journal(j) /\ Backed(j.releases, h.gate) /\ j.waiting = journal.waiting
      /\ j.releases = journal.releases /\ j.kill = journal.kill
  BY DEF RunOk, SameJournal, Journal
<1>2. /\ RunOk' /\ h'.gate.killEngaged = h.gate.killEngaged /\ h'.fault = a.fault /\ journal'.kill = journal.kill
      /\ Tighter(h.gate, h'.gate)
      /\ BuysOf(journal') # BuysOf(journal) => h.gate.state = "normal" /\ ~h.gate.killEngaged /\ ~Stopped(h.verdicts)
  BY <1>1, AnswerOk
<1>3. h.fault = "" /\ (KillEngaged <=> h.gate.killEngaged)
  BY DEF Read, KillKnown
<1>4. KillEngaged' <=> KillEngaged
  BY <1>2 DEF KillEngaged
<1>5. KillKnown'
  BY <1>2, <1>3, <1>4 DEF KillKnown
<1> QED BY <1>2, <1>3, <1>5 DEF StepOk

LEMMA KillStep ==
    ASSUME NilIsNoRecord, RunOk, KillKnown, clock' \in Nat, NEW engaged,
           Read(Apply(h, killSwitch(engaged)), [journal EXCEPT !.kill = killSwitch(engaged).kill, !.end = ReadKillSwitch(@, killSwitch(engaged).kill)])
    PROVE  StepOk
<1> DEFINE k == killSwitch(engaged).kill
           a == applyKillSwitch(h, k)
           end == ReadKillSwitch(journal.end, k)
           j == [journal EXCEPT !.kill = k, !.end = end]
           J == Journalled(j, a)
<1>1. Apply(h, killSwitch(engaged)) = a /\ k.engaged = engaged
  BY ApplyCases, EventNames
<1>2. k # None
  <2>1. ASSUME NEW r, r = [x \in DOMAIN r |-> r[x]] PROVE r # None
    BY <2>1 DEF NilIsNoRecord
  <2>2. k = [id |-> <<"kill-switch", budget.left>>, asOf |-> clock, engaged |-> engaged]
    BY DEF killSwitch
  <2>3. k = [x \in DOMAIN k |-> k[x]]
    BY <2>2
  <2> HIDE DEF k
  <2> QED BY <2>1, <2>3
<1>3. Read(a, j)
  BY <1>1
<1> HIDE DEF k
<1>4. /\ Sound(a, a, h.lastPeriod, {}, journal.waiting) /\ a.gate.orders = h.gate.orders /\ a.out = <<>>
      /\ Tighter(h.gate, a.gate)
      /\ a.fault = "" => a.gate.killEngaged = k.engaged
  BY KillOk
<1> HIDE DEF a, end
<1>5. /\ {"releases", "waiting", "kill", "words"} \subseteq DOMAIN j /\ j.releases = journal.releases /\ j.waiting = journal.waiting /\ j.kill = k
      /\ Backed(journal.releases, h.gate) /\ IsList(journal.releases)
  BY DEF RunOk, Journal, Backed
<1> HIDE DEF j
<1>6. DOMAIN J = DOMAIN j /\ J.waiting = Waiting(journal.waiting, a.out) /\ J.kill = k
  BY <1>5, JournalFields
<1>7. J.releases = journal.releases
  <2>1. Says(a.out, {}) /\ IsList(j.releases)
    BY <1>4, <1>5 DEF Sound
  <2>2. Extends(j.releases, J.releases, {})
    BY <1>5, <2>1, JournalGrows
  <2> QED BY <1>5, <2>2 DEF Extends
<1> HIDE DEF J
<1>8. Waiting(journal.waiting, <<>>) = journal.waiting
  BY WaitingNone
<1>9. HandlerRec(a)
  BY <1>4 DEF Sound
<1>10. h' = [a EXCEPT !.out = <<>>] /\ journal' = J
  BY <1>3 DEF Read, J
<1>11. HandlerRec(h') /\ h'.out = a.out /\ h'.retired = a.retired /\ h'.lastPeriod = a.lastPeriod /\ h'.gate = a.gate /\ h'.fault = a.fault
  BY <1>4, <1>9, <1>10 DEF HandlerRec
<1>12. Sound(h', h', h.lastPeriod, {}, journal.waiting)
  <2>1. Sound(h', a, h.lastPeriod, {}, journal.waiting)
    BY <1>4, <1>11, SoundSame
  <2> QED BY <2>1, SoundSelf
<1>13. RunOk'
  <2>1. Backed(journal.releases, h'.gate)
    <3>1. h'.gate.orders = h.gate.orders
      BY <1>4, <1>11
    <3> DEFINE R == journal.releases
               g == h.gate
               k2 == h'.gate
    <3> HIDE DEF R, g, k2
    <3>2. Backed(R, g) /\ k2.orders = g.orders
      BY <1>5, <3>1 DEF R, g, k2
    <3>3. Backed(R, k2)
      BY <3>2 DEF Backed
    <3> QED BY <3>3 DEF R, k2
  <2>2. h'.lastPeriod = h.lastPeriod
    BY <1>4, <1>11 DEF Sound
  <2>3. journal'.waiting = journal.waiting /\ journal'.releases = journal.releases /\ Journal(journal')
    BY <1>4, <1>5, <1>6, <1>7, <1>8, <1>10 DEF Journal
  <2> QED BY <1>4, <1>11, <1>12, <2>1, <2>2, <2>3 DEF RunOk
<1>14. KillKnown'
  BY <1>2, <1>4, <1>6, <1>10, <1>11 DEF KillKnown, KillEngaged
<1>15. BuysOf(journal') = BuysOf(journal)
  BY <1>7, <1>10 DEF BuysOf
<1> QED BY <1>4, <1>11, <1>13, <1>14, <1>15 DEF StepOk

LEMMA NextOk ==
    ASSUME NilIsNoRecord, RunOk, KillKnown, Next
    PROVE  StepOk
<1>1. clock' \in Nat
  BY ClockStep DEF RunOk
<1>2. Journal(journal) /\ h.lastPeriod \in Nat
  BY DEF RunOk
<1>3. ASSUME h' = h, SameJournal(journal') PROVE StepOk
  BY <1>1, <1>3 DEF StepOk, RunOk, KillKnown, KillEngaged, SameJournal, Journal, BuysOf, Tighter
<1>4. ASSUME NEW in, NEW j, SameJournal(j), Read(Apply(h, in), j),
             in.event \in {"broker.snapshot", "account.snapshot", "fill", "order.lifecycle", "reconciliation", "corporate.action",
                           "rebalance.cleared", "order.retired"}
      PROVE  StepOk
  <2>1. Answers(Apply(h, in), h, h.lastPeriod, journal.waiting)
    BY <1>4, SoundInput
  <2> QED BY <1>1, <1>2, <1>4, <2>1, ReadOk
<1>5. SameJournal(journal)
  BY DEF SameJournal
<1>6. CASE UNCHANGED <<h, journal>>
  BY <1>3, <1>5, <1>6 DEF SameJournal
<1>7. CASE h' = h /\ journal' = [journal EXCEPT !.byHand = TRUE]
  <2>1. SameJournal(journal')
    BY <1>2, <1>7 DEF SameJournal, Journal
  <2> QED BY <1>3, <1>7, <2>1
<1>8. CASE h' = h /\ journal' = [journal EXCEPT !.fresh = FALSE]
  <2>1. SameJournal(journal')
    BY <1>2, <1>8 DEF SameJournal, Journal
  <2> QED BY <1>3, <1>8, <2>1
<1>9. CASE Read(Apply(h, accountSnapshot), journal)
  BY <1>4, <1>5, <1>9, EventNames
<1>10. ASSUME NEW k, Read(Closed(h, k), [journal EXCEPT !.sessions = Append(@, sessionClosed(k).session)]) PROVE StepOk
  <2> DEFINE j == [journal EXCEPT !.sessions = Append(@, sessionClosed(k).session)]
  <2>1. SameJournal(j)
    BY <1>2 DEF SameJournal, Journal
  <2>2. PICK last \in Nat : Answers(Closed(h, k), h, last, journal.waiting)
    BY SoundClosed
  <2> HIDE DEF j
  <2>3. Read(Closed(h, k), j)
    BY <1>10 DEF j
  <2> QED BY <1>1, <2>1, <2>2, <2>3, ReadOk
<1>11. ASSUME NEW in, NEW end, Read(Apply(h, in), [journal EXCEPT !.end = end]),
              in.event \in {"broker.snapshot", "order.retired"}
       PROVE  StepOk
  <2> DEFINE j == [journal EXCEPT !.end = end]
  <2>1. SameJournal(j)
    BY <1>2 DEF SameJournal, Journal
  <2> HIDE DEF j
  <2>2. Read(Apply(h, in), j)
    BY <1>11 DEF j
  <2> QED BY <1>4, <1>11, <2>1, <2>2
<1>12. ASSUME NEW r, Read(Apply(h, brokerSnapshot(r)), [journal EXCEPT !.end = ReadListing(@, IF r.named THEN Listed ELSE {})])
       PROVE  StepOk
  <2> DEFINE end == ReadListing(journal.end, IF r.named THEN Listed ELSE {})
  <2>1. Read(Apply(h, brokerSnapshot(r)), [journal EXCEPT !.end = end])
    BY <1>12
  <2> HIDE DEF end
  <2> QED BY <1>11, <2>1, EventNames
<1>13. ASSUME NEW m, Read(Apply(h, Report(m)), Heard(m)) PROVE StepOk
  <2>1. SameJournal(Heard(m))
    BY <1>2 DEF SameJournal, Journal, Heard
  <2> QED BY <1>4, <1>13, <2>1, EventNames
<1>14. ASSUME NEW o, Read(Apply(h, orderRetired(o)), [journal EXCEPT !.end = ReadRetirement(@, orderRetired(o).retirement)])
       PROVE  StepOk
  <2> DEFINE end == ReadRetirement(journal.end, orderRetired(o).retirement)
  <2>1. Read(Apply(h, orderRetired(o)), [journal EXCEPT !.end = end])
    BY <1>14
  <2> HIDE DEF end
  <2> QED BY <1>11, <2>1, EventNames
<1>15. ASSUME NEW o, Read(Apply(h, rebalanceCleared(o)), journal) PROVE StepOk
  BY <1>4, <1>5, <1>15, EventNames
<1>16. ASSUME NEW read, Read(Apply(h, reconciliation(read)), journal) PROVE StepOk
  BY <1>4, <1>5, <1>16, EventNames
<1>17. ASSUME NEW kind, Read(Apply(h, corporateAction(kind)), journal) PROVE StepOk
  BY <1>4, <1>5, <1>17, EventNames
<1>18. ASSUME NEW engaged,
              Read(Apply(h, killSwitch(engaged)), [journal EXCEPT !.kill = killSwitch(engaged).kill, !.end = ReadKillSwitch(@, killSwitch(engaged).kill)])
       PROVE  StepOk
  BY <1>1, <1>18, KillStep
<1> QED BY StepCases, <1>6, <1>7, <1>8, <1>9, <1>10, <1>12, <1>13, <1>14, <1>15, <1>16, <1>17, <1>18

LEMMA InitOk == ASSUME Init PROVE RunOk /\ KillKnown
<1>1. PICK s \in Starts :
          /\ h = applyApproval(New(s.mode), s.approval) /\ clock = 1
          /\ journal = [NoJournal EXCEPT !.end = AtStart(s.mode, s.approval),
                                         !.states = IF s.approval.incident = NoTag THEN <<>>
                                                    ELSE <<[id |-> s.approval.incident, state |-> s.approval.state, scope |-> s.approval.scope]>>]
  BY DEF Init
<1>2. s.approval.retired \in Nat /\ (s.approval.incident # NoTag => s.approval.state \in {"degraded", "halted"})
  BY RunAssumption
<1>3. HandlerRec(h) /\ h.out = <<>> /\ h.retired = <<>> /\ h.lastPeriod = 0 /\ Fresh(h.gate)
  <2> DEFINE z == applyApproval(New(s.mode), s.approval)
  <2>1. HandlerRec(z) /\ z.out = <<>> /\ z.retired = <<>> /\ z.lastPeriod = 0 /\ Fresh(z.gate)
    BY <1>2, FreshApproval
  <2> HIDE DEF z
  <2> QED BY <1>1, <2>1 DEF z
<1>4. Journal(journal) /\ journal.releases = <<>> /\ journal.waiting = {} /\ journal.kill = None
  BY <1>1 DEF Journal, NoJournal
<1>5. IsList(<<>>) /\ DOMAIN <<>> = {}
  BY DEF IsList
<1>6. GateOk(h.gate, Ids(h.retired), 0) /\ Armed(h.gate) = {} /\ ~h.gate.killEngaged
  BY <1>3, FreshOk DEF Fresh
<1>7. Sound(h, h, 0, {}, {})
  <2>1. Says(<<>>, {}) /\ Begins(<<>>, <<>>) /\ Grown(h.gate, h.gate, {})
    BY <1>5 DEF Says, Begins, Grown, Tighter
  <2>2. ArmsOk(h.gate, Waiting({}, <<>>))
    BY <1>6 DEF ArmsOk
  <2> QED BY <1>3, <1>5, <1>6, <2>1, <2>2 DEF Sound
<1>8. Backed(<<>>, h.gate)
  BY <1>5 DEF Backed
<1>9. RunOk
  <2>1. Sound(h, h, h.lastPeriod, {}, journal.waiting) /\ Backed(journal.releases, h.gate)
    BY <1>3, <1>4, <1>7, <1>8
  <2>2. clock \in Nat /\ h.lastPeriod \in Nat
    BY <1>1, <1>3
  <2> QED BY <1>3, <1>4, <2>1, <2>2 DEF RunOk
<1>10. KillKnown
  BY <1>4, <1>6 DEF KillKnown, KillEngaged
<1> QED BY <1>9, <1>10

----------------------------------------------------------------------------
(* What follows of it *)

LEMMA OneOfEach ==
    ASSUME NEW R, IsList(R), \A i, k \in DOMAIN R : R[i].id = R[k].id => i = k
    PROVE  Distinct(R)
<1> DEFINE f == [i \in 1..Len(R) |-> R[i].id]
<1>1. Len(R) \in Nat /\ DOMAIN R = 1..Len(R)
  BY ListFacts
<1>2. Ids(R) = {R[i].id : i \in 1..Len(R)}
  BY <1>1 DEF Ids
<1>3. f \in Injection(1..Len(R), Ids(R))
  BY <1>1, <1>2 DEF Injection, IsInjective
<1>4. f \in Surjection(1..Len(R), Ids(R))
  BY <1>2 DEF Surjection
<1>5. ExistsBijection(1..Len(R), Ids(R))
  BY <1>3, <1>4 DEF ExistsBijection, Bijection
<1>6. Cardinality(Ids(R)) = Len(R)
  BY <1>1, <1>5, FS_CountingElements
<1> QED BY <1>6 DEF Distinct

LEMMA RunSellsOnce == RunOk => SaleOnce
<1> SUFFICES ASSUME RunOk PROVE SaleOnce
  OBVIOUS
<1> DEFINE R == journal.releases
           of(tag) == {i \in DOMAIN R : R[i].sale /\ R[i].tag = tag}
           live(tag) == {i \in of(tag) : R[i].id \notin Ids(h.retired)}
<1>1. Backed(R, h.gate) /\ GateOk(h.gate, Ids(h.retired), h.lastPeriod)
  BY DEF RunOk, Sound
<1>2. Distinct(R)
  BY <1>1, OneOfEach DEF Backed
<1> HIDE DEF R
<1>3. ASSUME NEW tag, NEW i \in live(tag), NEW k \in live(tag) PROVE i = k
  <2>1. ASSUME NEW n \in live(tag)
        PROVE  n \in DOMAIN R /\ R[n].id = SaleAttemptClientOrderID(tag, retiredCount(h.gate, tag))
    <3>1. n \in DOMAIN R /\ R[n].sale /\ R[n].tag = tag /\ R[n].id \notin Ids(h.retired)
      OBVIOUS
    <3>2. R[n].id \in DOMAIN h.gate.orders /\ h.gate.orders[R[n].id].tag = tag /\ h.gate.orders[R[n].id].sale # None
      BY <1>1, <3>1 DEF Backed
    <3>3. Numbered(h.gate, Ids(h.retired), R[n].id, tag)
      BY <1>1, <3>2 DEF GateOk, Placed
    <3> QED BY <3>1, <3>3 DEF Numbered
  <2> HIDE DEF live
  <2>2. R[i].id = R[k].id /\ i \in DOMAIN R /\ k \in DOMAIN R
    BY <2>1
  <2> QED BY <1>1, <2>2 DEF Backed
<1>4. ASSUME NEW tag PROVE Cardinality(live(tag)) <= 1
  <2> HIDE DEF live
  <2>1. CASE live(tag) = {}
    BY <2>1, FS_EmptySet
  <2>2. CASE live(tag) # {}
    <3>1. PICK i : i \in live(tag)
      BY <2>2
    <3>2. live(tag) = {i}
      BY <1>3, <3>1
    <3>3. Cardinality({i}) = 1
      BY FS_Singleton
    <3> QED BY <3>2, <3>3
  <2> QED BY <2>1, <2>2
<1> QED BY <1>2, <1>4 DEF SaleOnce, R

LEMMA RunWaits == RunOk => ArmedSaleWaits
<1> SUFFICES ASSUME RunOk PROVE ArmedSaleWaits
  OBVIOUS
<1>1. ArmsOk(h.gate, Waiting(journal.waiting, <<>>))
  BY DEF RunOk, Sound
<1>2. Waiting(journal.waiting, <<>>) = journal.waiting
  BY WaitingNone
<1> QED BY <1>1, <1>2 DEF ArmsOk, ArmedSaleWaits

LEMMA Inductive ==
    ASSUME NilIsNoRecord
    PROVE  Spec => [](RunOk /\ KillKnown)
<1>1. Init => RunOk /\ KillKnown
  BY InitOk
<1>2. RunOk /\ KillKnown /\ [Next]_vars => (RunOk /\ KillKnown)'
  <2> SUFFICES ASSUME RunOk, KillKnown, [Next]_vars PROVE (RunOk /\ KillKnown)'
    OBVIOUS
  <2>1. CASE Next
    BY <2>1, NextOk DEF StepOk
  <2>2. CASE UNCHANGED vars
    BY <2>2 DEF vars, RunOk, KillKnown, KillEngaged
  <2> QED BY <2>1, <2>2
<1> QED BY <1>1, <1>2, PTL DEF Spec

\* However sessions, reports, retirements and restored states follow each other, a second
\* sale of the same incident, engagement or alarm is released only when the first was
\* retired as never sent, and no client order ID is used twice (Sale of states.go numbers
\* the sale by the retirements of its tag, order of handler.go releases it).
THEOREM SellsOnce ==
    ASSUME NilIsNoRecord
    PROVE  Spec => []SaleOnce
<1>1. Spec => [](RunOk /\ KillKnown)
  BY Inductive
<1>2. RunOk => SaleOnce
  BY RunSellsOnce
<1> QED BY <1>1, <1>2, PTL

\* Whatever a snapshot, a session or a retirement does to a sale held back, one the gate
\* would fire again at the next snapshot still waits in the journal: what rearms it
\* (RetireSale) or drops it (lapseExit, ObserveBroker) was journalled before (states.go).
THEOREM ArmedWaits ==
    ASSUME NilIsNoRecord
    PROVE  Spec => []ArmedSaleWaits
<1>1. Spec => [](RunOk /\ KillKnown)
  BY Inductive
<1>2. RunOk => ArmedSaleWaits
  BY RunWaits
<1> QED BY <1>1, <1>2, PTL

\* Whatever is reconciled, checked or reported, a run never goes back to a looser state: it
\* leaves neither the incident that began it nor an instrument of its scope (tighten, halt
\* and degrade of risklimit; the gate has nothing that loosens it).
THEOREM LoosensNever ==
    ASSUME NilIsNoRecord
    PROVE  Spec => NeverLoosens
<1>1. Spec => [](RunOk /\ KillKnown)
  BY Inductive
<1>2. RunOk /\ KillKnown /\ [Next]_vars => [NoLooser(h.gate, h'.gate)]_vars
  <2> SUFFICES ASSUME RunOk, KillKnown, Next PROVE NoLooser(h.gate, h'.gate)
    OBVIOUS
  <2>1. Tighter(h.gate, h'.gate) /\ RunOk'
    BY NextOk DEF StepOk
  <2>2. h.gate.state \in States /\ h'.gate.state \in States
    BY <2>1 DEF RunOk, Sound, GateOk
  <2> QED BY <2>1, <2>2 DEF NoLooser, Tighter, States, Rank
<1> QED BY <1>1, <1>2, PTL DEF Spec, NeverLoosens
=============================================================================
