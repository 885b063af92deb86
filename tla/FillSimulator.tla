---------------------------- MODULE FillSimulator ----------------------------
(***************************************************************************)
(* internal/fills: the simulated broker of a backtest.  It learns its book *)
(* of resting orders from the reducer's decisions alone (fills.go), prices *)
(* them against a bar (price.go) and keeps the account it states after     *)
(* every session (account.go).                                             *)
(***************************************************************************)
EXTENDS Integers, Sequences, SequencesExt, FiniteSetsExt, TLC, TurtleConfig, Sizing

SimOk(sim)        == [sim |-> sim, err |-> "none"]
SimFail(sim, why) == [sim |-> sim, err |-> why]

\* The price an order created during a bar is measured from; otherwise its open.
noReference == [bar |-> 0, price |-> 0]

rangeFor(ref, bar) ==
  [reference |-> IF ref.bar = bar.periodEnd THEN ref.price ELSE bar.open,
   high |-> bar.high, low |-> bar.low]

emptyBook == [campaign |-> None, entry |-> None, add |-> None, exit |-> None]

\* New and OpenAccount.
NewSimulator(cash) ==
  [books |-> <<>>,
   account |-> [cash |-> cash, otherEquity |-> Max({0, Config.startingEquity - cash}),
                holdings |-> <<>>, closes |-> <<>>, pending |-> None]]

bookFor(sim, id) == IF id \in DOMAIN sim.books THEN sim.books[id] ELSE emptyBook

withBook(sim, id, b) == [sim EXCEPT !.books = (id :> b) @@ @]

heldOf(account, id) == IF id \in DOMAIN account.holdings THEN account.holdings[id] ELSE 0

withHolding(account, id, quantity) == [account EXCEPT !.holdings = (id :> quantity) @@ @]

unitAt(campaign, index) == {i \in DOMAIN campaign.units : campaign.units[i].index = index}

\* An emission that names a campaign must name the one the book holds.
openFor(b, e) == IF b.campaign = None THEN FALSE ELSE b.campaign.id = e.campaignID

-----------------------------------------------------------------------------
\* What each decision does to the book and the account.

restingBuy(e, level, n, ref) ==
  [kind |-> IF e.type = "TradeProposal" THEN "entry" ELSE "add", proposalID |-> e.decision,
   campaignID |-> IF e.type = "TradeProposal" THEN None ELSE e.campaignID,
   level |-> level, quantity |-> e.quantity, n |-> n, priceCap |-> e.priceCap, ref |-> ref]

\* buyPriceCap
capRefused(e, level) ==
  IF e.orderType = "stop_limit" THEN e.priceCap <= 0 \/ e.priceCap < level ELSE e.priceCap # 0

observeTradeProposal(sim, e, ref) ==
  IF capRefused(e, e.entryLevel) THEN SimFail(sim, "unusable price cap")
  ELSE SimOk(withBook(sim, e.id, [bookFor(sim, e.id) EXCEPT !.entry = restingBuy(e, e.entryLevel, e.n, ref)]))

observeAddProposal(sim, e, ref) ==
  IF capRefused(e, e.level) THEN SimFail(sim, "unusable price cap")
  ELSE SimOk(withBook(sim, e.id, [bookFor(sim, e.id) EXCEPT
         !.add = restingBuy(e, e.level, IF e.addN # 0 THEN e.addN ELSE e.campaignN, ref)]))

observeExitProposal(sim, e) ==
  IF ~ openFor(bookFor(sim, e.id), e) THEN SimFail(sim, "exit proposal without a campaign")
  ELSE SimOk(withBook(sim, e.id, [bookFor(sim, e.id) EXCEPT
         !.exit = [proposalID |-> e.decision, campaignID |-> e.campaignID, level |-> e.level]]))

bookUnit(index, fillID, quantity) ==
  [index |-> index, openingFillID |-> fillID, quantity |-> quantity,
   exitLevel |-> 0, exitSource |-> "none", ref |-> noReference]

observeCampaignOpened(sim, e) ==
  SimOk(withBook(sim, e.id, [bookFor(sim, e.id) EXCEPT !.entry = None,
    !.campaign = [id |-> e.campaignID, n |-> e.campaignN,
                  units |-> <<bookUnit(1, e.fillID, e.filledQuantity)>>]]))

observeUnitAdded(sim, e) ==
  IF ~ openFor(bookFor(sim, e.id), e) THEN SimFail(sim, "unit added without a campaign")
  ELSE SimOk(withBook(sim, e.id, [bookFor(sim, e.id) EXCEPT !.add = None,
         !.campaign.units = Append(@, bookUnit(e.unitIndex, e.fillID, e.quantity))]))

observeProtectiveStopSet(sim, e) ==
  LET b == bookFor(sim, e.id) IN
  IF ~ openFor(b, e) THEN SimFail(sim, "stop without a campaign")
  ELSE IF unitAt(b.campaign, e.unitIndex) = {} THEN SimFail(sim, "stop of a unit not held")
  ELSE SimOk(sim)

\* A unit's one sell order is placed or moved.
observeExitOrderSet(sim, e, ref) ==
  LET b  == bookFor(sim, e.id)
      at == unitAt(b.campaign, e.unitIndex)
      i  == CHOOSE k \in at : TRUE
  IN  IF ~ openFor(b, e) THEN SimFail(sim, "exit order without a campaign")
      ELSE IF at = {} THEN SimFail(sim, "exit order of a unit not held")
      ELSE IF e.quantity # b.campaign.units[i].quantity THEN SimFail(sim, "exit order of another quantity")
      ELSE IF e.source = "exit_channel" /\ b.exit = None THEN SimFail(sim, "exit order without a proposal")
      ELSE IF e.source = "exit_channel" /\ (b.exit.campaignID # e.campaignID \/ b.exit.level # e.level)
        THEN SimFail(sim, "exit order off its proposal")
      ELSE SimOk(withBook(sim, e.id, [b EXCEPT !.campaign.units[i] =
             [@ EXCEPT !.exitLevel = e.level, !.exitSource = e.source, !.ref = ref]]))

observeUnitsStopped(sim, e) ==
  LET b == bookFor(sim, e.id) IN
  IF ~ openFor(b, e) THEN SimFail(sim, "units stopped without a campaign")
  ELSE SimOk(withBook(sim, e.id, [b EXCEPT !.campaign.units =
         SelectSeq(@, LAMBDA u : u.index \notin ToSet(e.unitIndexes))]))

\* The account is paid for a delisted holding at its last close.
delist(account, id) ==
  IF heldOf(account, id) = 0 THEN account
  ELSE [account EXCEPT !.cash = @ + account.holdings[id] * account.closes[id] * Config.dollarsPerPoint,
                       !.holdings = [k \in DOMAIN @ \ {id} |-> @[k]]]

observeCampaignExited(sim, e) ==
  LET sim1 == withBook(sim, e.id, [bookFor(sim, e.id) EXCEPT !.campaign = None, !.add = None, !.exit = None])
  IN  IF e.reason # "delisting" THEN SimOk(sim1)
      ELSE IF heldOf(sim.account, e.id) # 0 /\ e.id \notin DOMAIN sim.account.closes
        THEN SimFail(sim, "delisted without a close")
      ELSE SimOk([sim1 EXCEPT !.account = delist(@, e.id)])

observeCashInLieu(sim, e) ==
  LET b == bookFor(sim, e.id)
      lost == e.quantityBefore - e.quantityAfter
      reductionOf(u) == {k \in DOMAIN e.reductions : e.reductions[k].unitIndex = u.index}
      shrink(u) == IF reductionOf(u) = {} THEN u
                   ELSE [u EXCEPT !.quantity = e.reductions[CHOOSE k \in reductionOf(u) : TRUE].quantityAfter]
  IN  IF ~ openFor(b, e) THEN SimFail(sim, "cash in lieu without a campaign")
      ELSE IF \E k \in DOMAIN e.reductions :
                \A i \in DOMAIN b.campaign.units :
                  \/ b.campaign.units[i].index # e.reductions[k].unitIndex
                  \/ b.campaign.units[i].quantity # e.reductions[k].quantityBefore
        THEN SimFail(sim, "cash in lieu off the book")
      ELSE IF heldOf(sim.account, e.id) # e.quantityBefore THEN SimFail(sim, "cash in lieu off the holding")
      ELSE SimOk(withBook([sim EXCEPT !.account = [withHolding(@, e.id, heldOf(@, e.id) - lost) EXCEPT
                                                     !.cash = @ + e.cashInLieu]], e.id,
                          [b EXCEPT !.campaign.units = [i \in DOMAIN @ |-> shrink(@[i])]]))

observeDividend(sim, e) == SimOk([sim EXCEPT !.account.cash = @ + e.cashAmount])

\* renameInstrument: a key of a map moves.
rekey(f, old, new) ==
  IF old \notin DOMAIN f THEN f
  ELSE [k \in (DOMAIN f \ {old}) \union {new} |-> IF k = new THEN f[old] ELSE f[k]]

observeSymbolChanged(sim, e) ==
  IF e.newID \in DOMAIN sim.account.holdings THEN SimFail(sim, "rename merges two holdings")
  ELSE SimOk([sim EXCEPT !.books = rekey(@, e.id, e.newID),
                         !.account.holdings = rekey(@, e.id, e.newID),
                         !.account.closes = rekey(@, e.id, e.newID)])

\* Mutant of observeProposalExpired: only an entry's expiry is heard.
MutantHearsEntries(sim, e) ==
  LET b == bookFor(sim, e.id) IN
  IF b.entry = None THEN SimOk(sim)
  ELSE IF b.entry.proposalID = e.proposalID THEN SimOk(withBook(sim, e.id, [b EXCEPT !.entry = None]))
  ELSE SimOk(sim)

observeProposalExpired(sim, e) ==
  LET drop(slot) == IF slot = None THEN None
                    ELSE IF slot.proposalID = e.proposalID THEN None ELSE slot
  IN  SimOk(withBook(sim, e.id, [bookFor(sim, e.id) EXCEPT !.entry = drop(@), !.add = drop(@), !.exit = drop(@)]))

\* Decisions known to leave the book alone; the universe's are not among them.
withoutEffect ==
  {"WatchlistPublished", "SetupEvaluated", "Signal", "ProposalDeclined", "CampaignEvaluated",
   "DrawdownStepApplied", "NotionalAccountRebased", "NotionalAccountRecovered", "NotionalAccountCashAdjusted"}

\* An unknown decision is refused, never skipped.
observe(sim, e, ref) ==
  CASE e.type = "TradeProposal"        -> observeTradeProposal(sim, e, ref)
    [] e.type = "AddProposal"          -> observeAddProposal(sim, e, ref)
    [] e.type = "ExitProposal"         -> observeExitProposal(sim, e)
    [] e.type = "CampaignOpened"       -> observeCampaignOpened(sim, e)
    [] e.type = "CampaignUnitAdded"    -> observeUnitAdded(sim, e)
    [] e.type = "ProtectiveStopSet"    -> observeProtectiveStopSet(sim, e)
    [] e.type = "ExitOrderSet"         -> observeExitOrderSet(sim, e, ref)
    [] e.type = "CampaignUnitsStopped" -> observeUnitsStopped(sim, e)
    [] e.type = "CampaignExited"       -> observeCampaignExited(sim, e)
    [] e.type = "ProposalExpired"      -> observeProposalExpired(sim, e)
    [] e.type = "CampaignCashInLieu"   -> observeCashInLieu(sim, e)
    [] e.type = "CampaignDividend"     -> observeDividend(sim, e)
    [] e.type = "InstrumentSymbolChanged" -> observeSymbolChanged(sim, e)
    [] e.type \in withoutEffect        -> SimOk(sim)
    [] OTHER                           -> SimFail(sim, "decision not recognised")

-----------------------------------------------------------------------------
\* Prices: a level is reached by the bar's range, and slippage goes against the
\* trader.  A buy that gaps over its level, or a sell under it, executes at the
\* reference.

Execute(side, level, rg, slippage) ==
  LET buy   == side = "buy"
      price == IF buy THEN Max({level, rg.reference}) + slippage
               ELSE Min({level, rg.reference}) - slippage
  IN  [filled |-> IF buy THEN rg.high >= level ELSE rg.low <= level, price |-> price,
       atReference |-> IF buy THEN rg.reference > level ELSE rg.reference < level]

\* Above its cap a stop-limit waits for the price to come back to the cap.
ExecuteStopLimit(level, priceCap, rg, slippage) ==
  LET unlimited == Execute("buy", level, rg, slippage)
  IN  IF ~ unlimited.filled \/ rg.reference <= priceCap THEN unlimited
      ELSE [filled |-> rg.low <= priceCap, price |-> priceCap + slippage, atReference |-> FALSE]

Charge(quantity, price) == Commission(quantity, price, Config.dollarsPerPoint, Config.commission)

slippageOf(n) == Product(Config.slippageN, n)

priceBuy(o, bar) ==
  LET rg == rangeFor(o.ref, bar)
      x  == IF Config.buyOrderType = "stop_limit"
            THEN ExecuteStopLimit(o.level, o.priceCap, rg, slippageOf(o.n))
            ELSE Execute("buy", o.level, rg, slippageOf(o.n))
  IN  [filled |-> x.filled, price |-> x.price, atReference |-> x.atReference, kind |-> o.kind,
       proposalID |-> o.proposalID, campaignID |-> o.campaignID, level |-> o.level,
       quantity |-> o.quantity, n |-> o.n, unitIDs |-> <<>>, commission |-> Charge(o.quantity, x.price)]

priceStop(campaign, u, bar) ==
  LET x == Execute("sell", u.exitLevel, rangeFor(u.ref, bar), slippageOf(campaign.n))
  IN  [filled |-> x.filled, price |-> x.price, atReference |-> x.atReference, kind |-> "stop",
       proposalID |-> None, campaignID |-> campaign.id, level |-> u.exitLevel,
       quantity |-> u.quantity, n |-> campaign.n, unitIDs |-> <<u.openingFillID>>,
       commission |-> Charge(u.quantity, x.price)]

\* The whole campaign leaves at the channel as one execution, each unit's order
\* charged for itself.
exitAtChannel(campaign, proposal, atExit, bar) ==
  LET x == Execute("sell", proposal.level, rangeFor(atExit[1].ref, bar), slippageOf(campaign.n))
      sum(op(_)) == FoldLeft(LAMBDA acc, u : acc + op(u), 0, atExit)
  IN  [filled |-> x.filled, price |-> x.price, atReference |-> x.atReference, kind |-> "exit",
       proposalID |-> proposal.proposalID, campaignID |-> campaign.id, level |-> proposal.level,
       quantity |-> sum(LAMBDA u : u.quantity), n |-> campaign.n, unitIDs |-> <<>>,
       commission |-> sum(LAMBDA u : Charge(u.quantity, x.price))]

\* covered and coveredExitOrders: what the bar reaches, buys before sells, or why
\* the book cannot be priced.
covered(sim, bar) ==
  LET b     == bookFor(sim, bar.id)
      order(slot) == IF slot = None THEN <<>> ELSE <<priceBuy(slot, bar)>>
      filled(s)   == SelectSeq(s, LAMBDA x : x.filled)
      buys  == SortSeq(filled(order(b.entry) \o order(b.add)), LAMBDA x, y : x.level < y.level)
      c     == b.campaign
      resting == SelectSeq(c.units, LAMBDA u : u.exitLevel > 0)
      atStop  == SelectSeq(resting, LAMBDA u : u.exitSource # "exit_channel")
      atExit  == SelectSeq(resting, LAMBDA u : u.exitSource = "exit_channel")
      stops == SortSeq(filled([i \in DOMAIN atStop |-> priceStop(c, atStop[i], bar)]),
                       LAMBDA x, y : x.price < y.price)
      exit  == exitAtChannel(c, b.exit, atExit, bar)
      result(err, sells) == [err |-> err, candidates |-> buys \o sells]
  IN  IF c = None THEN result("none", <<>>)
      ELSE IF \E i \in DOMAIN stops : stops[i].price <= 0 THEN result("no price left", <<>>)
      ELSE IF stops # <<>> \/ atExit = <<>> THEN result("none", stops)
      ELSE IF b.exit = None THEN result("exit without a proposal", <<>>)
      ELSE IF b.exit.campaignID # c.id THEN result("exit without a proposal", <<>>)
      ELSE IF \E i \in DOMAIN atExit : \/ atExit[i].exitLevel # b.exit.level
                                       \/ rangeFor(atExit[i].ref, bar) # rangeFor(atExit[1].ref, bar)
        THEN result("units off the one exit", <<>>)
      ELSE IF ~ exit.filled THEN result("none", <<>>)
      ELSE IF exit.price <= 0 THEN result("no price left", <<>>)
      ELSE IF Len(atExit) # Len(c.units) THEN result("not every unit rests at the exit", <<>>)
      ELSE result("none", <<exit>>)

\* pick: the first one, or in the gap pass the first that executes at the open.
pick(candidates, onlyGapped) ==
  LET eligible == SelectSeq(candidates, LAMBDA x : onlyGapped => x.atReference)
  IN  IF eligible = <<>> THEN None ELSE Head(eligible)

fillEnvelopeFor(bar, x, n) ==
  [fillID |-> <<bar.id, bar.periodEnd, n>>, id |-> bar.id, kind |-> x.kind,
   proposalID |-> x.proposalID, campaignID |-> x.campaignID, quantity |-> x.quantity,
   price |-> x.price, filledAt |-> bar.periodEnd, unitIDs |-> x.unitIDs, level |-> x.level,
   slippage |-> slippageOf(x.n), commission |-> x.commission]

-----------------------------------------------------------------------------
\* The account.

recordFill(sim, fill) ==
  LET a     == sim.account
      value == fill.quantity * fill.price * Config.dollarsPerPoint
  IN  IF fill.kind \in {"entry", "add"}
      THEN SimOk([sim EXCEPT !.account = [withHolding(a, fill.id, heldOf(a, fill.id) + fill.quantity)
                                            EXCEPT !.cash = @ - value - fill.commission]])
      ELSE IF fill.quantity > heldOf(a, fill.id) THEN SimFail(sim, "sells more than it holds")
      ELSE SimOk([sim EXCEPT !.account = [withHolding(a, fill.id, heldOf(a, fill.id) - fill.quantity)
                                            EXCEPT !.cash = @ + value - fill.commission]])

recordMovement(sim, m) == SimOk([sim EXCEPT !.account.cash = @ + m.amount])

recordClose(sim, bar) == [sim EXCEPT !.account.closes = (bar.id :> bar.close) @@ @]

equity(a) ==
  FoldSet(LAMBDA id, sum : sum + (IF a.holdings[id] = 0 THEN 0
                                  ELSE a.holdings[id] * a.closes[id] * Config.dollarsPerPoint),
          a.cash + a.otherEquity, DOMAIN a.holdings)

\* closeOf: the statement the next session delivers.
closeOf(sim, periodEnd) ==
  LET a == sim.account IN
  IF \E id \in DOMAIN a.holdings : a.holdings[id] # 0 /\ id \notin DOMAIN a.closes
  THEN SimFail(sim, "holding without a close")
  ELSE IF a.cash < 0 \/ equity(a) <= 0 THEN SimFail(sim, "spent cash it did not hold")
  ELSE SimOk([sim EXCEPT !.account.pending =
                [asOf |-> periodEnd, equity |-> equity(a), availableCash |-> a.cash]])
=============================================================================
