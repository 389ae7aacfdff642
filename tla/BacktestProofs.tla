--------------------------- MODULE BacktestProofs ---------------------------
(***************************************************************************)
(* Theorems about Backtest, for any strategy, assets, prices, deposits and *)
(* commission: the orders and their locks, the thread of the inference     *)
(* loop, and that the trades explain the balances.                         *)
(***************************************************************************)
EXTENDS Backtest, FiniteSetTheorems, SequenceTheorems, WellFoundedInduction, TLAPS

-----------------------------------------------------------------------------
(* Type correctness: no balance, lock or commission is negative *)

LEMMA DivisionBounds ==
  ASSUME NEW a \in Nat, NEW k \in Nat \ {0}
  PROVE  a \div k \in 0..a
OBVIOUS

LEMMA NetType ==
  ASSUME NEW g \in Nat
  PROVE  Commission(g) \in Nat /\ Net(g) \in Nat
<1>1. g \div CommissionPart \in 0..g
  BY DivisionBounds, BacktestAssumption
<1> QED BY <1>1 DEF Commission, Net

LEMMA ExchangedType ==
  ASSUME NEW side \in {"BUY", "SELL"}, NEW qty \in Nat, NEW price \in Prices
  PROVE  Exchanged(side, qty, price) \in Nat
<1>1. price \in Nat \ {0}
  BY BacktestAssumption
<1>2. qty \div price \in Nat
  BY <1>1, DivisionBounds
<1>3. qty * price \in Nat
  BY <1>1
<1> QED BY <1>2, <1>3 DEF Exchanged

LEMMA WalletType ==
  ASSUME NEW side \in {"BUY", "SELL"}, NEW base \in Bases, NEW price \in Prices, NEW qty \in Nat
  PROVE  /\ From(side, base) \in Assets /\ To(side, base) \in Assets
         /\ ToLock(side, price, qty) \in Nat
<1>1. price \in Nat
  BY BacktestAssumption
<1>2. price * qty \in Nat
  BY <1>1
<1> QED BY <1>2 DEF From, To, ToLock, Assets

LEMMA InitType == Init => TypeOK
<1> SUFFICES ASSUME Init PROVE TypeOK
  OBVIOUS
<1>1. /\ configured \in BOOLEAN /\ main \in Working /\ error \in Errors
      /\ events \in 0..NumEvents /\ mid_prices \in [Bases -> Prices]
  BY BacktestAssumption DEF Init, Working, Errors
<1>2. /\ orders \in Seq(Order) /\ Len(orders) <= MaxOrders /\ trades \in Seq(Trade)
      /\ staged \in 0..Len(orders) /\ cursor \in 1..(staged + 1)
  <2>1. <<>> \in Seq(Order) /\ <<>> \in Seq(Trade) /\ Len(<<>>) = 0
    BY EmptySeq
  <2> QED BY <2>1, BacktestAssumption DEF Init
<1>3. balance \in [Assets -> Nat] /\ locked \subseteq Lock
  BY BacktestAssumption DEF Init
<1>4. /\ deployed \in BOOLEAN /\ thread = "none" /\ is_running \in BOOLEAN
      /\ latest \in Results /\ inference_results \subseteq Results /\ used \subseteq Results
  <2>1. 0 \in Results
    BY BacktestAssumption DEF Results
  <2> QED BY <2>1 DEF Init
<1> QED BY <1>1, <1>2, <1>3, <1>4 DEF TypeOK

LEMMA ThreadType ==
  ASSUME TypeOK, ThreadStep
  PROVE  TypeOK'
<1>1. UNCHANGED <<loopVars, orderVars, moneyVars, used, deployed, is_running>>
  BY DEF ThreadStep, LoopTop, MakeRequest, AppendResult, OnlyInference
<1>2. /\ thread' \in {"none", "loop", "request", "record", "ended"}
      /\ latest' \in Results /\ inference_results' \subseteq Results
  <2>1. NextResult \in Results /\ 0 \in Results
    BY BacktestAssumption DEF NextResult, Results, TypeOK
  <2> QED BY <2>1 DEF ThreadStep, LoopTop, MakeRequest, AppendResult, Recorded, TypeOK
<1> QED BY <1>1, <1>2 DEF TypeOK, loopVars, orderVars, moneyVars

(* The steps of the loop that leave the orders and the money alone.        *)
LEMMA LoopType ==
  ASSUME TypeOK,
         \/ Deploy \/ StartInference \/ AwaitFirstResult \/ NextEvent \/ Predict \/ StageOrders
         \/ EndUpdate \/ EndOfData \/ JoinThread \/ StopJoins \/ Interrupt
  PROVE  TypeOK'
<1>1. /\ main' \in Working \cup {"stop"} \cup Ended /\ error' \in Errors
      /\ configured' = configured
  BY DEF Deploy, StartInference, AwaitFirstResult, NextEvent, Predict, StageOrders, EndUpdate,
         EndOfData, JoinThread, StopJoins, Interrupt, Raise, KeepsOrders, Working, Ended, Errors,
         TypeOK
<1>2. events' \in 0..NumEvents /\ mid_prices' \in [Bases -> Prices]
  BY BacktestAssumption
  DEF Deploy, StartInference, AwaitFirstResult, NextEvent, Predict, StageOrders, EndUpdate,
      EndOfData, JoinThread, StopJoins, Interrupt, KeepsOrders, TypeOK
<1>3. /\ UNCHANGED <<orders, trades, balance, locked>>
      /\ staged' \in 0..Len(orders) /\ cursor' \in 1..(staged' + 1)
  <2>1. Len(orders) \in Nat
    BY LenProperties DEF TypeOK
  <2> QED BY <2>1 DEF Deploy, StartInference, AwaitFirstResult, NextEvent, Predict, StageOrders,
                      EndUpdate, EndOfData, JoinThread, StopJoins, Interrupt, KeepsOrders,
                      orderVars, moneyVars, TypeOK
<1>4. /\ deployed' \in BOOLEAN /\ thread' \in {thread, "loop"} /\ is_running' \in BOOLEAN
      /\ UNCHANGED <<latest, inference_results>> /\ used' \subseteq used \cup {latest}
  BY DEF Deploy, StartInference, AwaitFirstResult, NextEvent, Predict, StageOrders, EndUpdate,
         EndOfData, JoinThread, StopJoins, Interrupt, StopInference, inferVars, TypeOK
<1> QED BY <1>1, <1>2, <1>3, <1>4 DEF TypeOK

LEMMA MakeOrderType ==
  ASSUME TypeOK, NEW side \in {"BUY", "SELL"}, NEW type \in {"MARKET", "LIMIT"},
         NEW base \in Bases, NEW price \in Prices, NEW qty \in Quantities,
         MakeOrder(side, type, base, price, qty)
  PROVE  TypeOK'
<1> DEFINE wallet == From(side, base)
           amount == ToLock(side, price, qty)
           i      == Len(orders) + 1
           new    == [side |-> side, type |-> type, base |-> base, price |-> price,
                      quantity |-> qty, status |-> "OPEN"]
<1>1. wallet \in Assets /\ amount \in Nat /\ qty \in Nat
  BY WalletType, BacktestAssumption
<1>2. /\ i \in 1..MaxOrders /\ Len(orders) \in Nat
  BY LenProperties, BacktestAssumption DEF MakeOrder, TypeOK
<1>3. UNCHANGED <<configured, events, mid_prices, staged, cursor, trades, inferVars, used>>
  BY DEF MakeOrder
<1>4. CASE Raise("ValueError") /\ UNCHANGED <<orders, moneyVars>>
  BY <1>3, <1>4 DEF Raise, TypeOK, Ended, Errors, moneyVars, inferVars
<1>5. CASE /\ Affordable(amount, wallet)
           /\ locked' = locked \cup {[wallet |-> wallet, order |-> i, qty |-> amount]}
           /\ balance' = [balance EXCEPT ![wallet] = @ - amount]
           /\ orders' = Append(orders, new)
           /\ UNCHANGED <<main, error>>
  <2>1. new \in Order
    BY DEF Order
  <2> HIDE DEF new
  <2>2. /\ orders' \in Seq(Order) /\ Len(orders') = Len(orders) + 1
    BY <1>5, <2>1, AppendProperties DEF TypeOK
  <2>3. balance' \in [Assets -> Nat]
    <3>1. balance[wallet] - amount \in Nat
      BY <1>1, <1>5 DEF Affordable, TypeOK
    <3> HIDE DEF wallet, amount
    <3> QED BY <1>1, <1>5, <3>1 DEF TypeOK
  <2>4. locked' \subseteq Lock
    BY <1>1, <1>2, <1>5 DEF Lock, TypeOK
  <2>5. staged' \in 0..Len(orders') /\ cursor' \in 1..(staged' + 1) /\ Len(orders') <= MaxOrders
    BY <1>2, <1>3, <2>2 DEF TypeOK
  <2> QED BY <1>3, <1>5, <2>2, <2>3, <2>4, <2>5 DEF TypeOK, inferVars
<1> QED BY <1>4, <1>5 DEF MakeOrder

LEMMA StagedOrder ==
  ASSUME TypeOK, cursor <= staged
  PROVE  /\ cursor \in DOMAIN orders /\ cursor \in 1..Len(orders) /\ cursor \in 1..MaxOrders
         /\ orders[cursor] \in Order /\ mid_prices[orders[cursor].base] \in Prices
         /\ From(orders[cursor].side, orders[cursor].base) \in Assets
         /\ To(orders[cursor].side, orders[cursor].base) \in Assets
<1>1. Len(orders) \in Nat /\ DOMAIN orders = 1..Len(orders)
  BY LenProperties DEF TypeOK
<1>2. cursor \in 1..Len(orders) /\ cursor \in 1..MaxOrders
  BY <1>1, BacktestAssumption DEF TypeOK
<1>3. orders[cursor] \in Order
  BY <1>1, <1>2, ElementOfSeq DEF TypeOK
<1> QED BY <1>1, <1>2, <1>3 DEF Order, From, To, Assets, TypeOK

LEMMA FillType ==
  ASSUME TypeOK, NEW i \in DOMAIN orders
  PROVE  /\ [orders EXCEPT ![i].status = "FILLED"] \in Seq(Order)
         /\ Len([orders EXCEPT ![i].status = "FILLED"]) = Len(orders)
<1>1. orders \in Seq(Order) /\ i \in 1..Len(orders) /\ orders[i] \in Order
  BY LenProperties, ElementOfSeq DEF TypeOK
<1> DEFINE new == [orders[i] EXCEPT !.status = "FILLED"]
<1>2. new \in Order
  BY <1>1 DEF Order
<1>3. [orders EXCEPT ![i].status = "FILLED"] = [orders EXCEPT ![i] = new]
  OBVIOUS
<1> HIDE DEF new
<1>4. [orders EXCEPT ![i] = new] \in Seq(Order) /\ Len([orders EXCEPT ![i] = new]) = Len(orders)
  BY <1>1, <1>2, ExceptSeq
<1> QED BY <1>3, <1>4

LEMMA ExecuteType ==
  ASSUME TypeOK, ExecuteNext
  PROVE  TypeOK'
<1> DEFINE o == orders[cursor]
<1>1. /\ cursor <= staged /\ cursor' = cursor + 1
      /\ UNCHANGED <<configured, events, mid_prices, staged, inferVars, used>>
  BY DEF ExecuteNext
<1>2. /\ cursor' \in 1..(staged + 1)
  BY <1>1 DEF TypeOK
<1>3. CASE UNCHANGED <<orders, trades, moneyVars, main, error>>
  BY <1>1, <1>2, <1>3 DEF TypeOK, moneyVars, inferVars
<1>4. CASE Raise("ValueError") /\ UNCHANGED <<orders, trades, moneyVars>>
  BY <1>1, <1>2, <1>4 DEF Raise, TypeOK, Ended, Errors, moneyVars, inferVars
<1>5. ASSUME NEW l \in locked,
             locked' = Unlocked(l),
             balance' = [balance EXCEPT ![To(o.side, o.base)] =
                           @ + Net(Exchanged(o.side, l.qty, mid_prices[o.base]))],
             trades' = Append(trades,
               [order |-> cursor, price |-> mid_prices[o.base],
                commission |-> Commission(Exchanged(o.side, l.qty, mid_prices[o.base])),
                quantity |-> IF o.side = "BUY"
                               THEN Net(Exchanged(o.side, l.qty, mid_prices[o.base]))
                               ELSE l.qty]),
             orders' = [orders EXCEPT ![cursor].status = "FILLED"],
             UNCHANGED <<main, error>>
      PROVE  TypeOK'
  <2> DEFINE gross == Exchanged(o.side, l.qty, mid_prices[o.base])
             new   == [order |-> cursor, price |-> mid_prices[o.base],
                       commission |-> Commission(gross),
                       quantity |-> IF o.side = "BUY" THEN Net(gross) ELSE l.qty]
  <2>1. /\ cursor \in DOMAIN orders /\ cursor \in 1..MaxOrders /\ o \in Order
        /\ mid_prices[o.base] \in Prices /\ To(o.side, o.base) \in Assets
    BY <1>1, StagedOrder
  <2>2. l.qty \in Nat /\ o.side \in {"BUY", "SELL"}
    BY <2>1 DEF TypeOK, Lock, Order
  <2>3. gross \in Nat
    BY <2>1, <2>2, ExchangedType
  <2>4. Net(gross) \in Nat /\ Commission(gross) \in Nat
    BY <2>3, NetType
  <2>5. new \in Trade
    BY <2>1, <2>2, <2>4 DEF Trade
  <2>6. trades' = Append(trades, new)
    BY <1>5
  <2>7. balance' = [balance EXCEPT ![To(o.side, o.base)] = @ + Net(gross)]
    BY <1>5
  <2> HIDE DEF gross, new
  <2>8. trades' \in Seq(Trade)
    BY <2>5, <2>6, AppendProperties DEF TypeOK
  <2>9. balance' \in [Assets -> Nat]
    <3> DEFINE to == To(o.side, o.base)
    <3>1. to \in Assets /\ balance' = [balance EXCEPT ![to] = @ + Net(gross)]
      BY <2>1, <2>7
    <3> HIDE DEF to, o
    <3> QED BY <2>4, <3>1 DEF TypeOK
  <2>10. orders' \in Seq(Order) /\ Len(orders') = Len(orders)
    BY <1>5, <2>1, FillType
  <2>11. locked' \subseteq Lock
    BY <1>5 DEF Unlocked, TypeOK
  <2> QED BY <1>1, <1>2, <1>5, <2>8, <2>9, <2>10, <2>11 DEF TypeOK, inferVars
<1> QED BY <1>3, <1>4, <1>5 DEF ExecuteNext, ExecuteOrder

LEMMA StepType ==
  ASSUME TypeOK, [Next]_vars
  PROVE  TypeOK'
<1>1. CASE UNCHANGED vars
  BY <1>1 DEF vars, TypeOK, loopVars, orderVars, moneyVars, inferVars
<1> QED BY <1>1, ThreadType, LoopType, MakeOrderType, ExecuteType DEF Next, MainStep, MakesOrder

(* Whatever a strategy orders, and at whatever prices it is executed, no   *)
(* wallet goes below zero and every record of a backtest is well-formed.   *)
THEOREM TypeCorrect == Spec => []TypeOK
<1> QED BY InitType, StepType, PTL DEF Spec

-----------------------------------------------------------------------------
(* Locks and trades belong to orders that were made.                       *)

LockOf(i)   == [wallet |-> From(orders[i].side, orders[i].base), order |-> i,
                qty |-> ToLock(orders[i].side, orders[i].price, orders[i].quantity)]
LocksOf(i)  == {l \in locked : l.order = i}
TradesOf(i) == {n \in DOMAIN trades : trades[n].order = i}

OrderOK(i) ==
  \/ orders[i].status = "OPEN"   /\ LocksOf(i) = {LockOf(i)} /\ TradesOf(i) = {}
  \/ orders[i].status = "FILLED" /\ LocksOf(i) = {} /\ \E n : TradesOf(i) = {n}

OrderInv ==
  /\ \A l \in locked : l.order \in DOMAIN orders
  /\ \A n \in DOMAIN trades : trades[n].order \in DOMAIN orders
  /\ \A i \in DOMAIN orders : OrderOK(i)

LEMMA OrdersStay ==
  ASSUME OrderInv, UNCHANGED <<orders, trades, locked>>
  PROVE  OrderInv'
BY DEF OrderInv, OrderOK, LocksOf, TradesOf, LockOf

LEMMA MakeOrderCounts ==
  ASSUME TypeOK, OrderInv, NEW side \in {"BUY", "SELL"}, NEW type \in {"MARKET", "LIMIT"},
         NEW base \in Bases, NEW price \in Prices, NEW qty \in Quantities,
         MakeOrder(side, type, base, price, qty)
  PROVE  OrderInv'
<1> SUFFICES ASSUME NEW k, k = Len(orders) + 1 PROVE OrderInv'
  OBVIOUS
<1> DEFINE new == [side |-> side, type |-> type, base |-> base, price |-> price,
                   quantity |-> qty, status |-> "OPEN"]
           lock == [wallet |-> From(side, base), order |-> k, qty |-> ToLock(side, price, qty)]
<1>1. trades' = trades
  BY DEF MakeOrder
<1>2. CASE UNCHANGED <<orders, moneyVars>>
  BY <1>1, <1>2, OrdersStay DEF moneyVars
<1>3. CASE locked' = locked \cup {lock} /\ orders' = Append(orders, new)
  <2>1. new \in Order /\ new.side = side /\ new.base = base /\ new.price = price
        /\ new.quantity = qty /\ new.status = "OPEN" /\ lock.order = k
    BY DEF Order
  <2>2. lock = [wallet |-> From(new.side, new.base), order |-> k,
                qty |-> ToLock(new.side, new.price, new.quantity)]
    BY <2>1
  <2> HIDE DEF new, lock
  <2>3. /\ Len(orders) \in Nat /\ DOMAIN orders = 1..Len(orders)
        /\ DOMAIN orders' = 1..k /\ orders'[k] = new
        /\ \A i \in 1..Len(orders) : orders'[i] = orders[i]
    BY <1>3, <2>1, AppendProperties, LenProperties DEF TypeOK
  <2>4. k \notin DOMAIN orders /\ \A i \in 1..k : i \in DOMAIN orders \/ i = k
    BY <2>3
  <2>5. \A i \in DOMAIN orders : LocksOf(i)' = LocksOf(i) /\ TradesOf(i)' = TradesOf(i)
    BY <1>1, <1>3, <2>1, <2>4 DEF LocksOf, TradesOf
  <2>6. \A i \in DOMAIN orders : OrderOK(i)'
    BY <2>3, <2>5 DEF OrderInv, OrderOK, LockOf
  <2>7. LocksOf(k)' = {lock} /\ TradesOf(k)' = {}
    BY <1>1, <1>3, <2>1, <2>4 DEF LocksOf, TradesOf, OrderInv
  <2>8. LockOf(k)' = lock
    BY <2>2, <2>3 DEF LockOf
  <2>9. OrderOK(k)'
    BY <2>1, <2>3, <2>7, <2>8 DEF OrderOK
  <2>10. \A i \in DOMAIN orders' : OrderOK(i)'
    BY <2>3, <2>4, <2>6, <2>9
  <2>11. /\ \A l \in locked' : l.order \in DOMAIN orders'
         /\ \A n \in DOMAIN trades' : trades'[n].order \in DOMAIN orders'
    <3>1. DOMAIN orders \subseteq DOMAIN orders' /\ k \in DOMAIN orders'
      BY <2>3
    <3> QED BY <1>1, <1>3, <2>1, <3>1 DEF OrderInv
  <2> QED BY <2>10, <2>11 DEF OrderInv
<1> QED BY <1>2, <1>3 DEF MakeOrder

LEMMA ExecuteCounts ==
  ASSUME TypeOK, OrderInv, ExecuteNext
  PROVE  OrderInv'
<1> SUFFICES ASSUME NEW k, k = cursor, NEW o, o = orders[k] PROVE OrderInv'
  OBVIOUS
<1>1. k \in DOMAIN orders /\ k \in 1..Len(orders)
  BY StagedOrder DEF ExecuteNext
<1>2. CASE UNCHANGED <<orders, trades, moneyVars>>
  BY <1>2, OrdersStay DEF moneyVars
<1>3. ASSUME NEW l \in locked, l.order = k, NEW t, t \in Trade, t.order = k,
             o.status = "OPEN", locked' = locked \ {l}, trades' = Append(trades, t),
             orders' = [orders EXCEPT ![k].status = "FILLED"]
      PROVE  OrderInv'
  <2>1. /\ LocksOf(k) = {LockOf(k)} /\ TradesOf(k) = {}
    BY <1>1, <1>3 DEF OrderInv, OrderOK
  <2>2. LocksOf(k) = {l}
    BY <1>3, <2>1 DEF LocksOf
  <2>3. /\ Len(trades) \in Nat /\ DOMAIN trades = 1..Len(trades)
        /\ DOMAIN trades' = 1..(Len(trades) + 1) /\ trades'[Len(trades) + 1] = t
        /\ \A n \in 1..Len(trades) : trades'[n] = trades[n]
    BY <1>3, AppendProperties, LenProperties DEF TypeOK
  <2>4. \A n \in DOMAIN trades' : n \in DOMAIN trades \/ n = Len(trades) + 1
    BY <2>3
  <2>5. orders \in Seq(Order) /\ DOMAIN orders = 1..Len(orders) /\ o \in Order
    BY <1>1, LenProperties, ElementOfSeq DEF TypeOK
  <2>6. /\ DOMAIN orders' = DOMAIN orders /\ orders'[k].status = "FILLED"
        /\ \A i \in DOMAIN orders : i # k => orders'[i] = orders[i]
    <3>1. o \in [side: {"BUY", "SELL"}, type: {"MARKET", "LIMIT"}, base: Bases, price: Prices,
                 quantity: Quantities, status: {"OPEN", "FILLED"}]
      BY <2>5 DEF Order
    <3> QED BY <1>1, <1>3, <2>5, <3>1
  <2>7. ASSUME NEW i \in DOMAIN orders, i # k
        PROVE  OrderOK(i)'
    <3>1. LocksOf(i)' = LocksOf(i)
      BY <1>3, <2>7 DEF LocksOf
    <3>2. TradesOf(i)' = TradesOf(i)
      BY <1>3, <2>3, <2>4, <2>7 DEF TradesOf
    <3>3. LockOf(i)' = LockOf(i) /\ orders'[i] = orders[i]
      BY <2>6, <2>7 DEF LockOf
    <3>4. OrderOK(i)
      BY DEF OrderInv
    <3> QED BY <3>1, <3>2, <3>3, <3>4 DEF OrderOK
  <2>8. OrderOK(k)'
    <3>1. LocksOf(k)' = {}
      BY <1>3, <2>2 DEF LocksOf
    <3>2. TradesOf(k)' = {Len(trades) + 1}
      <4>1. \A n \in DOMAIN trades : trades[n].order # k
        BY <2>1 DEF TradesOf
      <4>2. \A n \in DOMAIN trades' : trades'[n].order = k <=> n = Len(trades) + 1
        BY <1>3, <2>3, <2>4, <4>1
      <4> QED BY <2>3, <4>2 DEF TradesOf
    <3> QED BY <2>6, <3>1, <3>2 DEF OrderOK
  <2>9. \A i \in DOMAIN orders' : OrderOK(i)'
    BY <2>6, <2>7, <2>8
  <2>10. /\ \A m \in locked' : m.order \in DOMAIN orders'
         /\ \A n \in DOMAIN trades' : trades'[n].order \in DOMAIN orders'
    BY <1>1, <1>3, <2>3, <2>4, <2>6 DEF OrderInv
  <2> QED BY <2>9, <2>10 DEF OrderInv
<1>4. CASE Executable(o) /\ ~UNCHANGED <<orders, trades, moneyVars>>
  <2> DEFINE gross(l) == Exchanged(o.side, l.qty, mid_prices[o.base])
             trade(l) == [order |-> k, price |-> mid_prices[o.base],
                          commission |-> Commission(gross(l)),
                          quantity |-> IF o.side = "BUY" THEN Net(gross(l)) ELSE l.qty]
  <2>1. PICK l \in locked :
          /\ l.order = k /\ locked' = Unlocked(l)
          /\ trades' = Append(trades, trade(l))
          /\ orders' = [orders EXCEPT ![k].status = "FILLED"]
    BY <1>4 DEF ExecuteNext, ExecuteOrder, Raise
  <2>2. trade(l) \in Trade /\ trade(l).order = k
    <3>1. /\ o \in Order /\ mid_prices[o.base] \in Prices /\ k \in 1..MaxOrders
      BY StagedOrder DEF ExecuteNext
    <3>2. l.qty \in Nat /\ o.side \in {"BUY", "SELL"}
      BY <3>1 DEF TypeOK, Lock, Order
    <3>3. Net(gross(l)) \in Nat /\ Commission(gross(l)) \in Nat
      BY <3>1, <3>2, ExchangedType, NetType
    <3> QED BY <3>1, <3>2, <3>3 DEF Trade
  <2>3. o.status = "OPEN"
    BY <1>4 DEF Executable
  <2> HIDE DEF trade
  <2> QED BY <1>3, <2>1, <2>2, <2>3 DEF Unlocked
<1> QED BY <1>2, <1>4 DEF ExecuteNext

LEMMA StepOrders ==
  ASSUME TypeOK, OrderInv, [Next]_vars
  PROVE  OrderInv'
<1>1. UNCHANGED <<orders, trades, locked>> \/ MakesOrder \/ ExecuteNext
  BY DEF Next, MainStep, ThreadStep, LoopTop, MakeRequest, AppendResult, OnlyInference, Deploy,
         StartInference, AwaitFirstResult, NextEvent, Predict, StageOrders, EndUpdate, EndOfData,
         JoinThread, StopJoins, Interrupt, KeepsOrders, orderVars, moneyVars, vars
<1> QED BY <1>1, OrdersStay, MakeOrderCounts, ExecuteCounts DEF MakesOrder

(* An open order has its lock in the wallet it pays from, and only there;  *)
(* an executed one has no lock left and one trade.                         *)
THEOREM EveryOrderAccounted == Spec => []OrdersAccounted
<1>1. Init => OrderInv
  BY EmptySeq, LenProperties DEF Init, OrderInv
<1>2. TypeOK /\ OrderInv => OrdersAccounted
  <2> SUFFICES ASSUME TypeOK, OrderInv, NEW i \in DOMAIN orders
               PROVE  /\ LocksOf(i) = IF orders[i].status = "OPEN" THEN {LockOf(i)} ELSE {}
                      /\ Cardinality(TradesOf(i)) = IF orders[i].status = "OPEN" THEN 0 ELSE 1
    BY DEF OrdersAccounted, LocksOf, LockOf, TradesOf
  <2>1. OrderOK(i)
    BY DEF OrderInv
  <2> QED BY <2>1, FS_EmptySet, FS_Singleton DEF OrderOK
<1> QED BY <1>1, <1>2, InitType, StepType, StepOrders, PTL DEF Spec

-----------------------------------------------------------------------------
(* Market orders: before the strategy is asked none is open, and the       *)
(* execution simulator has done those it has passed.                       *)

MarketDone(i) == orders[i].type = "MARKET" => orders[i].status = "FILLED"

MarketInv ==
  /\ main \in {"deploy", "start", "warmup", "data", "predict"} =>
       \A i \in DOMAIN orders : MarketDone(i)
  /\ main = "execute" =>
       staged = Len(orders) /\ \A i \in DOMAIN orders : i < cursor => MarketDone(i)

LEMMA ExecuteMarket ==
  ASSUME TypeOK, MarketInv, ExecuteNext
  PROVE  MarketInv'
<1> SUFFICES ASSUME NEW k, k = cursor, main' = "execute" PROVE MarketInv'
  BY DEF ExecuteNext, ExecuteOrder, Raise, MarketInv
<1>1. /\ main = "execute" /\ cursor' = k + 1 /\ staged' = staged /\ staged = Len(orders)
      /\ \A i \in DOMAIN orders : i < k => MarketDone(i)
  BY DEF ExecuteNext, MarketInv
<1>2. /\ k \in DOMAIN orders /\ orders[k] \in Order /\ orders \in Seq(Order)
      /\ DOMAIN orders = 1..Len(orders) /\ Len(orders) \in Nat
  BY StagedOrder, LenProperties DEF ExecuteNext, TypeOK
<1>3. \A i \in DOMAIN orders : i < k + 1 => i < k \/ i = k
  BY <1>2
<1>4. CASE ~Executable(orders[k])
  <2>1. orders' = orders
    BY <1>4 DEF ExecuteNext
  <2>2. MarketDone(k)
    BY <1>2, <1>4 DEF Executable, MarketDone, Order
  <2>3. \A i \in DOMAIN orders : i < k + 1 => MarketDone(i)
    BY <1>1, <1>3, <2>2
  <2> QED BY <1>1, <2>1, <2>3 DEF MarketInv, MarketDone
<1>5. CASE Executable(orders[k])
  <2>1. orders' = [orders EXCEPT ![k].status = "FILLED"]
    BY <1>1, <1>5 DEF ExecuteNext, ExecuteOrder, Raise
  <2>2. /\ DOMAIN orders' = DOMAIN orders /\ Len(orders') = Len(orders)
        /\ orders'[k].status = "FILLED" /\ \A i \in DOMAIN orders : i # k => orders'[i] = orders[i]
    <3>1. orders[k] \in [side: {"BUY", "SELL"}, type: {"MARKET", "LIMIT"}, base: Bases,
                         price: Prices, quantity: Quantities, status: {"OPEN", "FILLED"}]
      BY <1>2 DEF Order
    <3>2. Len(orders') = Len(orders)
      BY <1>2, <2>1, FillType
    <3> QED BY <1>2, <2>1, <3>1, <3>2
  <2>3. \A i \in DOMAIN orders : i < k + 1 => MarketDone(i)'
    BY <1>1, <1>3, <2>2 DEF MarketDone
  <2> QED BY <1>1, <2>2, <2>3 DEF MarketInv
<1> QED BY <1>4, <1>5

LEMMA StepMarket ==
  ASSUME TypeOK, MarketInv, [Next]_vars
  PROVE  MarketInv'
<1>1. Len(orders) \in Nat /\ DOMAIN orders = 1..Len(orders)
  BY LenProperties DEF TypeOK
<1>2. CASE EndUpdate
  <2>1. \A i \in DOMAIN orders : MarketDone(i)
    <3>1. /\ cursor \in Nat /\ cursor > Len(orders)
          /\ \A i \in DOMAIN orders : i < cursor => MarketDone(i)
      BY <1>2 DEF EndUpdate, MarketInv, TypeOK
    <3> QED BY <1>1, <3>1
  <2> QED BY <1>2, <2>1 DEF EndUpdate, MarketInv, MarketDone, KeepsOrders, orderVars
<1>3. CASE StageOrders
  <2>1. /\ cursor' = 1 /\ staged' = Len(orders) /\ UNCHANGED orders /\ main' = "execute"
    BY <1>3 DEF StageOrders
  <2>2. \A i \in DOMAIN orders : ~(i < 1)
    BY <1>1
  <2> QED BY <2>1, <2>2 DEF MarketInv
<1>4. CASE MakesOrder
  <2>1. main' \notin {"deploy", "start", "warmup", "data", "predict", "execute"}
    BY <1>4 DEF MakesOrder, MakeOrder, Raise
  <2> QED BY <2>1 DEF MarketInv
<1>5. CASE UNCHANGED <<orders, staged, cursor, main>>
  BY <1>5 DEF MarketInv, MarketDone
<1>6. CASE /\ main \in {"deploy", "start", "warmup", "data", "predict"}
           /\ main' # "execute" /\ UNCHANGED orders
  BY <1>6 DEF MarketInv, MarketDone
<1>7. CASE main' \notin {"deploy", "start", "warmup", "data", "predict", "execute"}
  BY <1>7 DEF MarketInv
<1>8. ThreadStep \/ UNCHANGED vars => UNCHANGED <<orders, staged, cursor, main>>
  BY DEF ThreadStep, LoopTop, MakeRequest, AppendResult, OnlyInference, loopVars, orderVars, vars
<1>9. Deploy \/ StartInference \/ AwaitFirstResult \/ NextEvent \/ Predict =>
        /\ main \in {"deploy", "start", "warmup", "data", "predict"}
        /\ main' # "execute" /\ UNCHANGED orders
  BY DEF Deploy, StartInference, AwaitFirstResult, NextEvent, Predict, Raise, KeepsOrders, orderVars
<1>10. EndOfData \/ JoinThread \/ StopJoins \/ Interrupt =>
         main' \notin {"deploy", "start", "warmup", "data", "predict", "execute"}
  BY DEF EndOfData, JoinThread, StopJoins, Interrupt, Raise
<1> QED BY <1>2, <1>3, <1>4, <1>5, <1>6, <1>7, <1>8, <1>9, <1>10, ExecuteMarket DEF Next, MainStep

(* The loop never takes an event while a market order of an earlier one is *)
(* open.                                                                   *)
THEOREM NoMarketOrderWaits == Spec => []MarketOrdersDone
<1>1. Init => MarketInv
  BY EmptySeq, LenProperties DEF Init, MarketInv
<1>2. MarketInv => MarketOrdersDone
  BY DEF MarketInv, MarketDone, MarketOrdersDone
<1> QED BY <1>1, <1>2, InitType, StepType, StepMarket, PTL DEF Spec

-----------------------------------------------------------------------------
(* The thread of the inference loop: who has told it to stop, and when it  *)
(* has recorded what it published.                                         *)

ThreadInv ==
  /\ ~configured => /\ thread = "none" /\ ~is_running
                    /\ main \notin {"deploy", "start", "warmup", "predict", "join", "returned"}
  /\ main \in {"deploy", "start"} => thread = "none"
  /\ main \in {"join", "stop", "returned", "stopped"} => ~is_running
  /\ main \in {"returned", "stopped"} => (configured => thread = "ended")
  /\ main = "stopped" => ~deployed

RecordInv ==
  /\ used \subseteq inference_results \cup (IF thread = "record" THEN {latest} ELSE {})
  /\ thread # "record" /\ latest # 0 => latest \in inference_results

LEMMA StepThread ==
  ASSUME ThreadInv, RecordInv, [Next]_vars
  PROVE  ThreadInv' /\ RecordInv'
<1>1. CASE ThreadStep
  BY <1>1 DEF ThreadStep, LoopTop, MakeRequest, AppendResult, Recorded, OnlyInference, loopVars,
              ThreadInv, RecordInv
<1>2. CASE /\ UNCHANGED <<configured, thread, is_running, deployed, latest, inference_results>>
           /\ main' \in {main, "raised", "execute", "data", "strategy"}
           /\ used' = used
  BY <1>2 DEF ThreadInv, RecordInv
<1>7. UNCHANGED vars \/ MakesOrder \/ ExecuteNext \/ StageOrders \/ EndUpdate \/ AwaitFirstResult =>
        /\ UNCHANGED <<configured, thread, is_running, deployed, latest, inference_results>>
        /\ main' \in {main, "raised", "execute", "data", "strategy"}
        /\ used' = used
  <2>1. MakesOrder => /\ UNCHANGED <<inferVars, used, configured>>
                      /\ main' \in {main, "raised"}
    BY DEF MakesOrder, MakeOrder, Raise
  <2>2. ExecuteNext => /\ UNCHANGED <<inferVars, used, configured>>
                       /\ main' \in {main, "raised"}
    BY DEF ExecuteNext, ExecuteOrder, Raise
  <2>3. UNCHANGED vars \/ StageOrders \/ EndUpdate \/ AwaitFirstResult =>
          /\ UNCHANGED <<inferVars, used, configured>>
          /\ main' \in {main, "raised", "execute", "data"}
    BY DEF StageOrders, EndUpdate, AwaitFirstResult, Raise, KeepsOrders, vars, loopVars
  <2> QED BY <2>1, <2>2, <2>3 DEF inferVars
<1>8. CASE NextEvent
  <2>1. /\ UNCHANGED <<configured, thread, is_running, deployed, latest, inference_results, used>>
        /\ main' \in {main, "strategy"} \/ (main' = "predict" /\ configured)
    BY <1>8 DEF NextEvent, inferVars
  <2> QED BY <2>1 DEF ThreadInv, RecordInv
<1>9. CASE Predict
  <2>1. /\ UNCHANGED <<configured, thread, is_running, deployed, latest, inference_results>>
        /\ main' \in {"raised", "strategy"}
        /\ used' = used \/ (used' = used \cup {latest} /\ latest # 0)
    BY <1>9 DEF Predict, Raise, KeepsOrders, inferVars
  <2> QED BY <2>1 DEF ThreadInv, RecordInv
<1>3. CASE Deploy \/ StartInference
  BY <1>3 DEF Deploy, StartInference, KeepsOrders, ThreadInv, RecordInv
<1>4. CASE EndOfData \/ Interrupt
  <2>1. UNCHANGED <<configured, thread, deployed, latest, inference_results, used>>
    BY <1>4 DEF EndOfData, Interrupt, KeepsOrders
  <2>2. /\ main' \in {"raised", "stop"} \/ (main' = "join" /\ configured)
        /\ main' \in {"stop", "join"} => ~is_running'
        /\ is_running' => is_running
    BY <1>4 DEF EndOfData, Interrupt, StopInference, Raise
  <2> QED BY <2>1, <2>2 DEF ThreadInv, RecordInv
<1>5. CASE JoinThread
  BY <1>5 DEF JoinThread, Joined, KeepsOrders, inferVars, ThreadInv, RecordInv
<1>6. CASE StopJoins
  BY <1>6 DEF StopJoins, Joined, KeepsOrders, ThreadInv, RecordInv
<1> QED BY <1>1, <1>2, <1>3, <1>4, <1>5, <1>6, <1>7, <1>8, <1>9 DEF Next, MainStep

LEMMA InitThread == Init => ThreadInv /\ RecordInv
BY DEF Init, ThreadInv, RecordInv

(* When a backtest has returned or was stopped, no thread is left and,     *)
(* stopped, no predictor is served.                                        *)
THEOREM ThreadJoined == Spec => []NothingLeftRunning
<1>1. ThreadInv => NothingLeftRunning
  BY DEF ThreadInv, NothingLeftRunning
<1> QED BY <1>1, InitThread, StepThread, PTL DEF Spec

(* The result of a backtest has every prediction that its strategy used.   *)
THEOREM PredictionsReported == Spec => []UsedPredictionsReported
<1>1. ThreadInv /\ RecordInv => UsedPredictionsReported
  BY DEF ThreadInv, RecordInv, UsedPredictionsReported
<1> QED BY <1>1, InitThread, StepThread, PTL DEF Spec

-----------------------------------------------------------------------------
(* Sums over finite sets: the library's SumFunction adds the values of a   *)
(* function in some order; the order does not matter, so a value more is   *)
(* the sum of the others and that value.                                   *)

(* The least element of a set of natural numbers                           *)
LEMMA LeastNat ==
  ASSUME NEW T \in SUBSET Nat, T # {}
  PROVE  \E n \in T : \A m \in T : n <= m
<1>1. \E n \in T : \A m \in T : ~(<<m, n>> \in OpToRel(<, Nat))
  BY NatLessThanWellFounded, WFMin
<1>2. PICK n \in T : \A m \in T : ~(<<m, n>> \in OpToRel(<, Nat))
  BY <1>1
<1>3. \A m \in T : ~(m < n)
  BY <1>2 DEF OpToRel
<1> QED BY <1>3

(* Induction over the natural numbers, and over the subsets of a finite    *)
(* set, for what holds of the members of a set                             *)
LEMMA NatsByInduction ==
  ASSUME NEW G, 0 \in G, \A n \in Nat : n \in G => n + 1 \in G
  PROVE  \A n \in Nat : n \in G
<1> DEFINE T == {n \in Nat : n \notin G}
<1> SUFFICES ASSUME T # {} PROVE FALSE
  OBVIOUS
<1>1. PICK n \in T : \A m \in T : n <= m
  BY LeastNat
<1>2. n \in Nat /\ n # 0 /\ n - 1 \in Nat /\ n - 1 \notin T /\ (n - 1) + 1 = n
  BY <1>1
<1> QED BY <1>2

LEMMA SubsetsByInduction ==
  ASSUME NEW S, IsFiniteSet(S), NEW G, {} \in G,
         \A s \in SUBSET S : s # {} /\ (\A x \in s : s \ {x} \in G) => s \in G
  PROVE  \A s \in SUBSET S : s \in G
<1> DEFINE T == {n \in Nat : \E s \in SUBSET S : Cardinality(s) = n /\ s \notin G}
<1> SUFFICES ASSUME NEW t \in SUBSET S, t \notin G PROVE FALSE
  OBVIOUS
<1>1. \A s \in SUBSET S : IsFiniteSet(s) /\ Cardinality(s) \in Nat
  BY FS_Subset, FS_CardinalityType
<1>2. PICK n \in T : \A m \in T : n <= m
  <2>1. Cardinality(t) \in T
    BY <1>1
  <2> HIDE DEF T
  <2>2. T \in SUBSET Nat
    BY DEF T
  <2> QED BY <2>1, <2>2, LeastNat
<1>3. PICK s \in SUBSET S : Cardinality(s) = n /\ s \notin G
  OBVIOUS
<1>4. ASSUME NEW x \in s
      PROVE  s \ {x} \in G
  <2>1. Cardinality(s \ {x}) = n - 1 /\ n \in Nat /\ s \ {x} \in SUBSET S /\ Cardinality(s \ {x}) \in Nat
    BY <1>1, <1>3, FS_RemoveElement
  <2>2. n - 1 \notin T
    BY <1>2, <2>1
  <2> QED BY <2>1, <2>2
<1> QED BY <1>3, <1>4

(* The sums over the subsets of a finite set, the way SumFunction adds     *)
Pick(s) == CHOOSE x \in s : TRUE

AddsUp(F, S, g) == g = [s \in SUBSET S |-> IF s = {} THEN 0 ELSE F[Pick(s)] + g[s \ {Pick(s)}]]
SumsOf(F, S) == CHOOSE g : AddsUp(F, S, g)

LEMMA SumUnfold == \A F, S : SumFunctionOnSet(F, S) = SumsOf(F, S)[S]
BY DEF SumFunctionOnSet, FoldFunctionOnSet, MapThenFoldSet, SumsOf, AddsUp, Pick

LEMMA PickIn == \A s : s # {} => Pick(s) \in s
BY DEF Pick

LEMMA SumsExist ==
  ASSUME NEW S, IsFiniteSet(S), NEW F \in [S -> Int]
  PROVE  AddsUp(F, S, SumsOf(F, S))
<1> DEFINE Upto(n) == {s \in SUBSET S : Cardinality(s) <= n}
           Sums(n, g) == /\ g \in [Upto(n) -> Int]
                         /\ \A s \in Upto(n) : g[s] = IF s = {} THEN 0 ELSE F[Pick(s)] + g[s \ {Pick(s)}]
           G == {n \in Nat : \E g : Sums(n, g)}
<1>1. \A s \in SUBSET S : IsFiniteSet(s) /\ Cardinality(s) \in Nat /\ Cardinality(s) <= Cardinality(S)
  BY FS_Subset, FS_CardinalityType
<1>2. \A s \in SUBSET S : Cardinality(s) = 0 <=> s = {}
  BY <1>1, FS_EmptySet
<1>3. 0 \in G
  <2>1. Upto(0) = {{}}
    BY <1>1, <1>2
  <2>2. Sums(0, [s \in Upto(0) |-> 0])
    BY <2>1
  <2> QED BY <2>2
<1>4. ASSUME NEW n \in Nat, n \in G
      PROVE  n + 1 \in G
  <2>1. PICK g : Sums(n, g)
    BY <1>4
  <2> DEFINE h == [s \in Upto(n + 1) |-> IF s = {} THEN 0 ELSE F[Pick(s)] + g[s \ {Pick(s)}]]
  <2>2. ASSUME NEW s \in Upto(n + 1), s # {}
        PROVE  s \ {Pick(s)} \in Upto(n) /\ F[Pick(s)] \in Int
    <3>1. Pick(s) \in s
      BY <2>2, PickIn
    <3>2. Cardinality(s \ {Pick(s)}) = Cardinality(s) - 1
      BY <1>1, <3>1, FS_RemoveElement
    <3> QED BY <1>1, <3>1, <3>2
  <2>3. \A s \in Upto(n) : s \in Upto(n + 1) /\ h[s] = g[s]
    <3>1. \A s \in Upto(n) : s \in Upto(n + 1)
      BY <1>1
    <3> QED BY <2>1, <3>1
  <2>4. h \in [Upto(n + 1) -> Int]
    BY <2>1, <2>2
  <2>5. \A s \in Upto(n + 1) : h[s] = IF s = {} THEN 0 ELSE F[Pick(s)] + h[s \ {Pick(s)}]
    BY <2>2, <2>3
  <2> HIDE DEF h, Upto
  <2> QED BY <2>4, <2>5
<1>5. Cardinality(S) \in G
  <2> HIDE DEF G
  <2> QED BY <1>1, <1>3, <1>4, NatsByInduction
<1>6. PICK g : Sums(Cardinality(S), g)
  BY <1>5
<1>7. Upto(Cardinality(S)) = SUBSET S
  BY <1>1
<1>8. AddsUp(F, S, g)
  BY <1>6, <1>7 DEF AddsUp
<1> QED BY <1>8 DEF SumsOf

LEMMA SumsAreInts ==
  ASSUME NEW S, IsFiniteSet(S), NEW F \in [S -> Int], NEW g, AddsUp(F, S, g)
  PROVE  \A s \in SUBSET S : g[s] \in Int
<1> DEFINE G == {s \in SUBSET S : g[s] \in Int}
<1>1. {} \in G
  BY DEF AddsUp
<1>2. ASSUME NEW s \in SUBSET S, s # {}, \A x \in s : s \ {x} \in G
      PROVE  s \in G
  <2>1. Pick(s) \in s
    BY <1>2, PickIn
  <2>2. g[s] = F[Pick(s)] + g[s \ {Pick(s)}]
    BY <1>2 DEF AddsUp
  <2>3. F[Pick(s)] \in Int /\ g[s \ {Pick(s)}] \in Int
    BY <1>2, <2>1
  <2> QED BY <2>2, <2>3
<1> HIDE DEF G
<1>3. \A s \in SUBSET S : s \in G
  BY <1>1, <1>2, SubsetsByInduction
<1> QED BY <1>3 DEF G

(* The order in which the values are added does not matter.                *)
LEMMA AnyOrder ==
  ASSUME NEW S, IsFiniteSet(S), NEW F \in [S -> Int], NEW g, AddsUp(F, S, g)
  PROVE  \A s \in SUBSET S : \A x \in s : g[s] = F[x] + g[s \ {x}]
<1> DEFINE G == {s \in SUBSET S : \A x \in s : g[s] = F[x] + g[s \ {x}]}
<1>1. {} \in G
  OBVIOUS
<1>2. ASSUME NEW s \in SUBSET S, s # {}, \A x \in s : s \ {x} \in G
      PROVE  s \in G
  <2> SUFFICES ASSUME NEW x \in s PROVE g[s] = F[x] + g[s \ {x}]
    OBVIOUS
  <2> DEFINE y == Pick(s)
  <2>1. y \in s /\ g[s] = F[y] + g[s \ {y}]
    BY <1>2, PickIn DEF AddsUp
  <2> HIDE DEF y
  <2>2. CASE x = y
    BY <2>1, <2>2
  <2>3. CASE x # y
    <3>1. g[s \ {y}] = F[x] + g[(s \ {y}) \ {x}] /\ g[s \ {x}] = F[y] + g[(s \ {x}) \ {y}]
      BY <1>2, <2>1, <2>3
    <3>2. (s \ {y}) \ {x} = (s \ {x}) \ {y}
      OBVIOUS
    <3>3. F[x] \in Int /\ F[y] \in Int /\ g[(s \ {x}) \ {y}] \in Int
      BY <2>1, SumsAreInts
    <3>4. \A i, j, k \in Int : i + (j + k) = j + (i + k)
      OBVIOUS
    <3>5. g[s] = F[y] + (F[x] + g[(s \ {x}) \ {y}])
      BY <2>1, <3>1, <3>2
    <3>6. F[y] + (F[x] + g[(s \ {x}) \ {y}]) = F[x] + (F[y] + g[(s \ {x}) \ {y}])
      BY <3>3, <3>4
    <3> QED BY <3>1, <3>5, <3>6
  <2> QED BY <2>2, <2>3
<1> HIDE DEF G
<1>3. \A s \in SUBSET S : s \in G
  BY <1>1, <1>2, SubsetsByInduction
<1> QED BY <1>3 DEF G

(* Equal values have equal sums.                                           *)
LEMMA SameSums ==
  ASSUME NEW S, IsFiniteSet(S), NEW F \in [S -> Int], NEW g, AddsUp(F, S, g),
         NEW R, IsFiniteSet(R), NEW E \in [R -> Int], NEW h, AddsUp(E, R, h),
         R \subseteq S, \A x \in R : E[x] = F[x]
  PROVE  \A s \in SUBSET R : h[s] = g[s]
<1> DEFINE G == {s \in SUBSET R : h[s] = g[s]}
<1>1. {} \in G
  BY DEF AddsUp
<1>2. ASSUME NEW s \in SUBSET R, s # {}, \A x \in s : s \ {x} \in G
      PROVE  s \in G
  <2>1. Pick(s) \in s
    BY <1>2, PickIn
  <2>2. h[s] = E[Pick(s)] + h[s \ {Pick(s)}] /\ g[s] = F[Pick(s)] + g[s \ {Pick(s)}]
    BY <1>2 DEF AddsUp
  <2> QED BY <1>2, <2>1, <2>2
<1> HIDE DEF G
<1>3. \A s \in SUBSET R : s \in G
  BY <1>1, <1>2, SubsetsByInduction
<1> QED BY <1>3 DEF G

(* The sum of the values of a function                                     *)
LEMMA SumType ==
  ASSUME NEW S, IsFiniteSet(S), NEW F \in [S -> Int]
  PROVE  SumFunction(F) \in Int /\ (S = {} => SumFunction(F) = 0)
<1>1. SumFunction(F) = SumsOf(F, S)[S] /\ AddsUp(F, S, SumsOf(F, S))
  BY SumUnfold, SumsExist DEF SumFunction
<1>2. SumsOf(F, S)[S] \in Int
  BY <1>1, SumsAreInts
<1>3. SumsOf(F, S)[{}] = 0
  BY <1>1 DEF AddsUp
<1> QED BY <1>1, <1>2, <1>3

LEMMA SumRemove ==
  \A S, F, x, E :
    (/\ IsFiniteSet(S) /\ x \in S /\ F \in [S -> Int] /\ E \in [S \ {x} -> Int]
     /\ \A y \in S \ {x} : E[y] = F[y]) => SumFunction(F) = F[x] + SumFunction(E)
<1> SUFFICES ASSUME NEW S, IsFiniteSet(S), NEW F \in [S -> Int], NEW x \in S,
                    NEW E \in [S \ {x} -> Int], \A y \in S \ {x} : E[y] = F[y]
             PROVE  SumFunction(F) = F[x] + SumFunction(E)
  OBVIOUS
<1> DEFINE R == S \ {x}
<1>1. IsFiniteSet(R) /\ R \subseteq S
  BY FS_Subset
<1>2. /\ SumFunction(F) = SumsOf(F, S)[S] /\ AddsUp(F, S, SumsOf(F, S))
      /\ SumFunction(E) = SumsOf(E, R)[R] /\ AddsUp(E, R, SumsOf(E, R))
  BY <1>1, SumUnfold, SumsExist DEF SumFunction
<1>3. SumsOf(F, S)[S] = F[x] + SumsOf(F, S)[R]
  BY <1>2, AnyOrder
<1>4. SumsOf(E, R)[R] = SumsOf(F, S)[R]
  BY <1>1, <1>2, SameSums
<1> QED BY <1>2, <1>3, <1>4

LEMMA SumAdd ==
  \A S, F, x, E :
    (/\ IsFiniteSet(S) /\ x \notin S /\ F \in [S -> Int] /\ E \in [S \cup {x} -> Int]
     /\ \A y \in S : E[y] = F[y]) => SumFunction(E) = E[x] + SumFunction(F)
<1> SUFFICES ASSUME NEW S, IsFiniteSet(S), NEW F \in [S -> Int], NEW x, x \notin S,
                    NEW E \in [S \cup {x} -> Int], \A y \in S : E[y] = F[y]
             PROVE  SumFunction(E) = E[x] + SumFunction(F)
  OBVIOUS
<1> DEFINE R == S \cup {x}
<1>1. IsFiniteSet(R) /\ R \ {x} = S /\ x \in R
  BY FS_AddElement
<1> HIDE DEF R
<1> QED BY <1>1, SumRemove DEF R

-----------------------------------------------------------------------------
(* The money of a backtest: what is locked in a wallet, and what the       *)
(* trades have moved.                                                      *)

LockSum(a)  == SumFunction([l \in LocksIn(a) |-> l.qty])
TradeSum(a) == SumFunction([n \in DOMAIN trades |-> MovedBy(n, a)])

BalanceInv ==
  /\ IsFiniteSet(locked)
  /\ \A a \in Assets : balance[a] + LockSum(a) = Deposits[a] + TradeSum(a)

LEMMA MovedType ==
  ASSUME NEW o \in Order, NEW t \in Trade, NEW a \in Assets
  PROVE  Moved(o, t, a) \in Int
<1>1. o.price \in Nat /\ o.quantity \in Nat /\ t.quantity \in Nat /\ t.price \in Nat /\ t.commission \in Nat
  BY BacktestAssumption DEF Order, Trade
<1>2. o.price * o.quantity \in Int /\ t.quantity * t.price \in Int
  BY <1>1
<1>3. /\ t.quantity \in Int /\ - t.quantity \in Int /\ - (o.price * o.quantity) \in Int
      /\ t.quantity * t.price - t.commission \in Int
  BY <1>1, <1>2
<1> QED BY <1>3 DEF Moved

LEMMA SumTypes ==
  ASSUME TypeOK, OrderInv, IsFiniteSet(locked), NEW a \in Assets
  PROVE  /\ IsFiniteSet(LocksIn(a)) /\ [l \in LocksIn(a) |-> l.qty] \in [LocksIn(a) -> Int]
         /\ IsFiniteSet(DOMAIN trades)
         /\ [n \in DOMAIN trades |-> MovedBy(n, a)] \in [DOMAIN trades -> Int]
         /\ LockSum(a) \in Int /\ TradeSum(a) \in Int
         /\ balance[a] \in Nat /\ Deposits[a] \in Nat
<1>1. IsFiniteSet(LocksIn(a))
  BY FS_Subset DEF LocksIn
<1>2. [l \in LocksIn(a) |-> l.qty] \in [LocksIn(a) -> Int]
  BY DEF LocksIn, TypeOK, Lock
<1>3. DOMAIN trades = 1..Len(trades) /\ Len(trades) \in Nat /\ \A n \in DOMAIN trades : trades[n] \in Trade
  BY LenProperties, ElementOfSeq DEF TypeOK
<1>4. IsFiniteSet(DOMAIN trades)
  BY <1>3, FS_Interval
<1>5. [n \in DOMAIN trades |-> MovedBy(n, a)] \in [DOMAIN trades -> Int]
  <2>1. \A n \in DOMAIN trades : orders[trades[n].order] \in Order
    BY LenProperties, ElementOfSeq DEF OrderInv, TypeOK
  <2> QED BY <1>3, <2>1, MovedType DEF MovedBy
<1>6. LockSum(a) \in Int /\ TradeSum(a) \in Int
  BY <1>1, <1>2, <1>4, <1>5, SumType DEF LockSum, TradeSum
<1> QED BY <1>1, <1>2, <1>4, <1>5, <1>6, BacktestAssumption DEF TypeOK

LEMMA MoneyStays ==
  ASSUME BalanceInv, UNCHANGED <<orders, trades, moneyVars>>
  PROVE  BalanceInv'
BY DEF BalanceInv, LockSum, TradeSum, LocksIn, MovedBy, moneyVars

LEMMA MakeOrderMoney ==
  ASSUME TypeOK, OrderInv, BalanceInv, NEW side \in {"BUY", "SELL"},
         NEW type \in {"MARKET", "LIMIT"}, NEW base \in Bases, NEW price \in Prices,
         NEW qty \in Quantities, MakeOrder(side, type, base, price, qty)
  PROVE  BalanceInv'
<1> SUFFICES ASSUME NEW k, k = Len(orders) + 1, NEW wallet, wallet = From(side, base),
                    NEW amount, amount = ToLock(side, price, qty)
             PROVE  BalanceInv'
  OBVIOUS
<1> DEFINE new  == [side |-> side, type |-> type, base |-> base, price |-> price,
                    quantity |-> qty, status |-> "OPEN"]
           lock == [wallet |-> wallet, order |-> k, qty |-> amount]
<1>1. trades' = trades
  BY DEF MakeOrder
<1>2. CASE UNCHANGED <<orders, moneyVars>>
  BY <1>1, <1>2, MoneyStays
<1>3. CASE /\ locked' = locked \cup {lock} /\ orders' = Append(orders, new)
           /\ balance' = [balance EXCEPT ![wallet] = @ - amount]
  <2>1. wallet \in Assets /\ amount \in Nat
    BY WalletType, BacktestAssumption
  <2>2. new \in Order /\ lock.qty = amount /\ lock.wallet = wallet /\ lock.order = k
    BY DEF Order
  <2> HIDE DEF new, lock
  <2>3. /\ k \notin DOMAIN orders /\ \A i \in DOMAIN orders : orders'[i] = orders[i]
    BY <1>3, <2>2, AppendProperties, LenProperties DEF TypeOK
  <2>4. lock \notin locked
    BY <2>2, <2>3 DEF OrderInv
  <2>5. IsFiniteSet(locked')
    BY <1>3, FS_AddElement DEF BalanceInv
  <2> SUFFICES ASSUME NEW a \in Assets
               PROVE  balance'[a] + LockSum(a)' = Deposits[a] + TradeSum(a)'
    BY <2>5 DEF BalanceInv
  <2>6. TradeSum(a)' = TradeSum(a)
    <3>1. \A n \in DOMAIN trades : orders'[trades[n].order] = orders[trades[n].order]
      BY <2>3 DEF OrderInv
    <3> QED BY <1>1, <3>1 DEF TradeSum, MovedBy
  <2>7. balance[a] + LockSum(a) = Deposits[a] + TradeSum(a) /\ IsFiniteSet(locked)
    BY DEF BalanceInv
  <2>8. /\ LockSum(a) \in Int /\ TradeSum(a) \in Int /\ balance[a] \in Nat /\ Deposits[a] \in Nat
        /\ IsFiniteSet(LocksIn(a)) /\ [l \in LocksIn(a) |-> l.qty] \in [LocksIn(a) -> Int]
    BY <2>7, SumTypes
  <2>9. CASE a = wallet
    <3>1. LocksIn(a)' = LocksIn(a) \cup {lock} /\ lock \notin LocksIn(a)
      BY <1>3, <2>2, <2>4, <2>9 DEF LocksIn
    <3> DEFINE E == [l \in LocksIn(a) \cup {lock} |-> l.qty]
    <3>2. E \in [LocksIn(a) \cup {lock} -> Int] /\ E[lock] = amount
      BY <2>1, <2>2 DEF LocksIn, TypeOK, Lock
    <3> DEFINE F == [l \in LocksIn(a) |-> l.qty]
    <3>3. F \in [LocksIn(a) -> Int] /\ \A l \in LocksIn(a) : E[l] = F[l]
      BY <2>8
    <3>4. LockSum(a)' = SumFunction(E) /\ LockSum(a) = SumFunction(F)
      BY <3>1 DEF LockSum
    <3> HIDE DEF E, F
    <3>5. SumFunction(E) = E[lock] + SumFunction(F)
      <4>1. IsFiniteSet(LocksIn(a)) /\ lock \notin LocksIn(a)
        BY <2>8, <3>1
      <4> HIDE DEF LocksIn
      <4> QED BY <3>2, <3>3, <4>1, SumAdd
    <3>6. LockSum(a)' = amount + LockSum(a)
      BY <3>2, <3>4, <3>5
    <3>7. balance'[a] = balance[a] - amount
      BY <1>3, <2>1, <2>9 DEF TypeOK
    <3> QED BY <2>1, <2>6, <2>7, <2>8, <3>6, <3>7
  <2>10. CASE a # wallet
    <3>1. LocksIn(a)' = LocksIn(a)
      BY <1>3, <2>2, <2>10 DEF LocksIn
    <3>2. LockSum(a)' = LockSum(a) /\ balance'[a] = balance[a]
      BY <1>3, <2>1, <2>10, <3>1 DEF LockSum, TypeOK
    <3> QED BY <2>6, <2>7, <3>2
  <2> QED BY <2>9, <2>10
<1> QED BY <1>2, <1>3 DEF MakeOrder

LEMMA ExecuteMoney ==
  ASSUME TypeOK, OrderInv, BalanceInv, ExecuteNext
  PROVE  BalanceInv'
<1> SUFFICES ASSUME NEW k, k = cursor, NEW o, o = orders[k] PROVE BalanceInv'
  OBVIOUS
<1>1. /\ k \in DOMAIN orders /\ k \in 1..MaxOrders /\ o \in Order /\ mid_prices[o.base] \in Prices
  BY StagedOrder DEF ExecuteNext
<1>2. CASE UNCHANGED <<orders, trades, moneyVars>>
  BY <1>2, MoneyStays
<1>3. ASSUME NEW l \in locked, NEW from, from = From(o.side, o.base), NEW to, to = To(o.side, o.base),
             NEW net \in Nat, NEW t \in Trade,
             l.order = k, l.wallet = from, l.qty = ToLock(o.side, o.price, o.quantity),
             t.order = k,
             o.side = "BUY" => t.quantity = net,
             o.side = "SELL" => t.quantity = l.qty /\ t.quantity * t.price - t.commission = net,
             locked' = locked \ {l}, balance' = [balance EXCEPT ![to] = @ + net],
             trades' = Append(trades, t), orders' = [orders EXCEPT ![k].status = "FILLED"]
      PROVE  BalanceInv'
  <2>1. /\ o.side \in {"BUY", "SELL"} /\ o.base \in Bases /\ from \in Assets /\ to \in Assets
        /\ from # to /\ l.qty \in Nat
    BY <1>1, <1>3, BacktestAssumption DEF Order, From, To, Assets, TypeOK, Lock
  <2>2. /\ DOMAIN orders' = DOMAIN orders
        /\ \A i \in DOMAIN orders : /\ orders'[i].side = orders[i].side /\ orders'[i].base = orders[i].base
                                    /\ orders'[i].price = orders[i].price
                                    /\ orders'[i].quantity = orders[i].quantity
    <3>1. orders \in Seq(Order) /\ DOMAIN orders = 1..Len(orders)
      BY LenProperties DEF TypeOK
    <3>2. o \in [side: {"BUY", "SELL"}, type: {"MARKET", "LIMIT"}, base: Bases, price: Prices,
                 quantity: Quantities, status: {"OPEN", "FILLED"}]
      BY <1>1 DEF Order
    <3> QED BY <1>1, <1>3, <3>1, <3>2
  <2> DEFINE m == Len(trades) + 1
  <2>3. /\ m \notin DOMAIN trades /\ DOMAIN trades' = DOMAIN trades \cup {m} /\ trades'[m] = t
        /\ \A n \in DOMAIN trades : trades'[n] = trades[n]
    BY <1>3, AppendProperties, LenProperties DEF TypeOK
  <2> HIDE DEF m
  <2>4. IsFiniteSet(locked')
    BY <1>3, FS_Subset DEF BalanceInv
  <2>5. TypeOK' /\ OrderInv'
    BY ExecuteType, ExecuteCounts
  <2> SUFFICES ASSUME NEW a \in Assets
               PROVE  balance'[a] + LockSum(a)' = Deposits[a] + TradeSum(a)'
    BY <2>4 DEF BalanceInv
  <2>6. balance[a] + LockSum(a) = Deposits[a] + TradeSum(a) /\ IsFiniteSet(locked)
    BY DEF BalanceInv
  <2>7. /\ LockSum(a) \in Int /\ TradeSum(a) \in Int /\ balance[a] \in Nat /\ Deposits[a] \in Nat
        /\ IsFiniteSet(LocksIn(a)) /\ [n \in LocksIn(a) |-> n.qty] \in [LocksIn(a) -> Int]
        /\ IsFiniteSet(DOMAIN trades)
        /\ [n \in DOMAIN trades |-> MovedBy(n, a)] \in [DOMAIN trades -> Int]
    BY <2>6, SumTypes
  <2> DEFINE moved == IF a = to THEN net ELSE IF a = from THEN - l.qty ELSE 0
  <2>8. Moved(orders'[k], t, a) = moved /\ moved \in Int
    <3>1. /\ orders'[k].side = o.side /\ orders'[k].base = o.base /\ orders'[k].price = o.price
          /\ orders'[k].quantity = o.quantity
      BY <1>1, <2>2
    <3>2. moved \in Int
      BY <1>3, <2>1
    <3> QED BY <1>3, <2>1, <3>1, <3>2, BacktestAssumption DEF Moved, From, To, ToLock
  <2> HIDE DEF moved
  <2>9. TradeSum(a)' = moved + TradeSum(a)
    <3> DEFINE F == [n \in DOMAIN trades |-> MovedBy(n, a)]
    <3> DEFINE E == [n \in DOMAIN trades \cup {m} |-> Moved(orders'[trades'[n].order], trades'[n], a)]
    <3>1. \A n \in DOMAIN trades : E[n] = F[n]
      <4> SUFFICES ASSUME NEW n \in DOMAIN trades PROVE E[n] = F[n]
        OBVIOUS
      <4> DEFINE p == orders[trades[n].order]
      <4>1. /\ trades[n].order \in DOMAIN orders /\ trades'[n] = trades[n]
        BY <2>3 DEF OrderInv
      <4>2. LET q == orders'[trades[n].order]
            IN q.side = p.side /\ q.base = p.base /\ q.price = p.price /\ q.quantity = p.quantity
        BY <2>2, <4>1
      <4> QED BY <4>1, <4>2 DEF Moved, MovedBy
    <3>2. E[m] = moved
      BY <1>3, <2>3, <2>8
    <3>3. F \in [DOMAIN trades -> Int]
      BY <2>7
    <3>4. E \in [DOMAIN trades \cup {m} -> Int]
      <4> HIDE DEF F
      <4>1. \A n \in DOMAIN trades \cup {m} : E[n] \in Int
        BY <2>8, <3>1, <3>2, <3>3
      <4> QED BY <4>1
    <3>5. TradeSum(a)' = SumFunction(E) /\ TradeSum(a) = SumFunction(F)
      BY <2>3 DEF TradeSum, MovedBy
    <3> HIDE DEF E, F
    <3>6. SumFunction(E) = E[m] + SumFunction(F)
      BY <2>3, <2>7, <3>1, <3>3, <3>4, SumAdd
    <3> QED BY <3>2, <3>5, <3>6
  <2>10. LockSum(a) = (IF a = from THEN l.qty ELSE 0) + LockSum(a)' /\ LockSum(a)' \in Int
    <3>1. CASE a # from
      <4>1. LocksIn(a)' = LocksIn(a)
        BY <1>3, <3>1 DEF LocksIn
      <4>2. LockSum(a)' = LockSum(a)
        BY <4>1 DEF LockSum
      <4> QED BY <2>7, <3>1, <4>2
    <3>2. CASE a = from
      <4> DEFINE F == [n \in LocksIn(a) |-> n.qty]
                 E == [n \in LocksIn(a) \ {l} |-> n.qty]
      <4>1. LocksIn(a)' = LocksIn(a) \ {l} /\ l \in LocksIn(a)
        BY <1>3, <3>2 DEF LocksIn
      <4>2. F \in [LocksIn(a) -> Int] /\ E \in [LocksIn(a) \ {l} -> Int]
        BY <2>7
      <4>3. \A n \in LocksIn(a) \ {l} : E[n] = F[n]
        OBVIOUS
      <4>4. LockSum(a)' = SumFunction(E) /\ LockSum(a) = SumFunction(F) /\ F[l] = l.qty
        BY <4>1 DEF LockSum
      <4> HIDE DEF E, F
      <4>5. IsFiniteSet(LocksIn(a)) /\ IsFiniteSet(LocksIn(a) \ {l})
        BY <2>7, FS_RemoveElement
      <4>6. SumFunction(E) \in Int
        BY <4>2, <4>5, SumType
      <4>7. SumFunction(F) = F[l] + SumFunction(E)
        <5>1. l \in LocksIn(a) /\ IsFiniteSet(LocksIn(a))
          BY <4>1, <4>5
        <5> HIDE DEF LocksIn
        <5> QED BY <4>2, <4>3, <5>1, SumRemove
      <4> QED BY <3>2, <4>4, <4>6, <4>7
    <3> QED BY <3>1, <3>2
  <2>11. balance'[a] = IF a = to THEN balance[a] + net ELSE balance[a]
    BY <1>3, <2>1 DEF TypeOK
  <2> QED BY <2>1, <2>6, <2>7, <2>8, <2>9, <2>10, <2>11 DEF moved
<1>4. CASE Executable(o) /\ ~UNCHANGED <<orders, trades, moneyVars>>
  <2> DEFINE gross(l) == Exchanged(o.side, l.qty, mid_prices[o.base])
             trade(l) == [order |-> k, price |-> mid_prices[o.base],
                          commission |-> Commission(gross(l)),
                          quantity |-> IF o.side = "BUY" THEN Net(gross(l)) ELSE l.qty]
  <2>1. PICK l \in locked :
          /\ l.wallet = From(o.side, o.base) /\ l.order = k /\ locked' = Unlocked(l)
          /\ balance' = [balance EXCEPT ![To(o.side, o.base)] = @ + Net(gross(l))]
          /\ trades' = Append(trades, trade(l))
          /\ orders' = [orders EXCEPT ![k].status = "FILLED"]
    BY <1>4 DEF ExecuteNext, ExecuteOrder, Raise
  <2>2. l.qty \in Nat /\ o.side \in {"BUY", "SELL"} /\ o.status = "OPEN"
    BY <1>1, <1>4 DEF TypeOK, Lock, Order, Executable
  <2>3. gross(l) \in Nat /\ Net(gross(l)) \in Nat /\ Commission(gross(l)) \in Nat
    <3>1. gross(l) \in Nat
      BY <1>1, <2>2, ExchangedType
    <3> QED BY <3>1, NetType
  <2>4. trade(l) \in Trade /\ trade(l).order = k
    BY <1>1, <2>2, <2>3 DEF Trade
  <2>5. l.qty = ToLock(o.side, o.price, o.quantity)
    BY <1>1, <2>1, <2>2 DEF OrderInv, OrderOK, LocksOf, LockOf
  <2>6. o.side = "SELL" => /\ trade(l).quantity = l.qty
                           /\ trade(l).quantity * trade(l).price - trade(l).commission = Net(gross(l))
    BY <2>3 DEF Net, Exchanged
  <2>7. o.side = "BUY" => trade(l).quantity = Net(gross(l))
    OBVIOUS
  <2> HIDE DEF trade, gross
  <2> QED BY <1>3, <2>1, <2>3, <2>4, <2>5, <2>6, <2>7 DEF Unlocked
<1> QED BY <1>2, <1>4 DEF ExecuteNext

LEMMA StepMoney ==
  ASSUME TypeOK, OrderInv, BalanceInv, [Next]_vars
  PROVE  BalanceInv'
<1>1. UNCHANGED <<orders, trades, moneyVars>> \/ MakesOrder \/ ExecuteNext
  BY DEF Next, MainStep, ThreadStep, LoopTop, MakeRequest, AppendResult, OnlyInference, Deploy,
         StartInference, AwaitFirstResult, NextEvent, Predict, StageOrders, EndUpdate, EndOfData,
         JoinThread, StopJoins, Interrupt, KeepsOrders, orderVars, moneyVars, vars
<1> QED BY <1>1, MoneyStays, MakeOrderMoney, ExecuteMoney DEF MakesOrder

LEMMA InitMoney == Init => BalanceInv
<1> SUFFICES ASSUME Init PROVE BalanceInv
  OBVIOUS
<1>1. IsFiniteSet({})
  BY FS_EmptySet
<1>2. locked = {} /\ DOMAIN trades = {}
  BY EmptySeq, LenProperties DEF Init
<1> SUFFICES ASSUME NEW a \in Assets
             PROVE  balance[a] + LockSum(a) = Deposits[a] + TradeSum(a)
  BY <1>1, <1>2 DEF BalanceInv
<1> DEFINE F == [l \in LocksIn(a) |-> l.qty]
           E == [n \in DOMAIN trades |-> MovedBy(n, a)]
<1>3. F \in [{} -> Int] /\ E \in [{} -> Int]
  BY <1>2 DEF LocksIn
<1>4. LockSum(a) = SumFunction(F) /\ TradeSum(a) = SumFunction(E)
  BY DEF LockSum, TradeSum
<1> HIDE DEF E, F
<1>5. SumFunction(F) = 0 /\ SumFunction(E) = 0
  BY <1>1, <1>3, SumType
<1>6. balance[a] = Deposits[a]
  BY DEF Init
<1> QED BY <1>4, <1>5, <1>6

(* No money appears or gets lost in a backtest: for any strategy, prices,  *)
(* deposits and commission, what a wallet holds, free and locked, is what  *)
(* it began with and what the trades of the result have moved.             *)
THEOREM TradesExplainBalances == Spec => []BalancesMatchTrades
<1>1. Init => OrderInv
  BY EmptySeq, LenProperties DEF Init, OrderInv
<1>2. BalanceInv => BalancesMatchTrades
  BY DEF BalanceInv, BalancesMatchTrades, Total, LockSum, TradeSum
<1> QED BY <1>1, <1>2, InitType, StepType, StepOrders, InitMoney, StepMoney, PTL DEF Spec

=============================================================================
