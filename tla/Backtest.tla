------------------------------ MODULE Backtest ------------------------------
(***************************************************************************)
(* A local run of the backtester (backtester/loop/loop.py): the loop takes *)
(* one event after the other from the generator, asks the strategy for     *)
(* orders, and executes the orders it holds; an order locks what it pays   *)
(* with in one wallet when it is made and pays it into another when it is  *)
(* executed.  If a model is configured, a thread asks it for predictions   *)
(* all the while, and the strategy uses the latest one.  The user may      *)
(* interrupt the run.                                                      *)
(***************************************************************************)
EXTENDS Integers, Sequences, FiniteSetsExt

CONSTANTS
  Bases,          \* assets that are traded, each against Quote
  Quote,
  Deposits,       \* what a wallet holds at the beginning
  Prices,         \* mid prices and limits
  Quantities,     \* that a strategy may ask for
  NumEvents,      \* events of the generator
  CommissionPart, \* one part in so many is kept as commission; 200 in the code
  MaxOrders,      \* bound of the model: orders of a run
  MaxRequests     \* bound of the model: predictions that are told apart

Assets == Bases \cup {Quote}

ASSUME BacktestAssumption ==
  /\ Quote \notin Bases
  /\ Deposits \in [Assets -> Nat]
  /\ Prices \subseteq Nat \ {0} /\ Quantities \subseteq Nat
  /\ NumEvents \in Nat /\ MaxOrders \in Nat
  /\ CommissionPart \in Nat \ {0} /\ MaxRequests \in Nat \ {0}

VARIABLES
  (* the loop *)
  configured,  \* there is an inference_config
  main,        \* where Loop.run is
  error,       \* what it has raised
  events,      \* how many events it has taken
  mid_prices,
  (* the orders and the portfolio *)
  orders,      \* in the order they were made in
  staged,      \* the first so many are with the execution simulator
  cursor,      \* the order that _execute_staged_orders looks at
  balance,
  locked,      \* the locks of all wallets
  trades,
  (* the inference *)
  deployed,
  thread,      \* where the thread of the inference loop is
  is_running,
  latest,      \* latest_inference_result, 0 for None
  inference_results,
  used         \* history: the predictions that the strategy has seen

loopVars  == <<configured, main, error, events, mid_prices>>
orderVars == <<orders, staged, cursor, trades>>
moneyVars == <<balance, locked>>
inferVars == <<deployed, thread, is_running, latest, inference_results>>
vars == <<loopVars, orderVars, moneyVars, inferVars, used>>

Order == [side: {"BUY", "SELL"}, type: {"MARKET", "LIMIT"}, base: Bases, price: Prices,
          quantity: Quantities, status: {"OPEN", "FILLED"}]
Trade == [order: 1..MaxOrders, quantity: Nat, price: Prices, commission: Nat]
Lock  == [wallet: Assets, order: 1..MaxOrders, qty: Nat]

Working == {"deploy", "start", "warmup", "data", "predict", "strategy", "execute", "join"}
Ended   == {"returned", "raised", "stopped"}
Errors  == {"none", "ValueError", "RuntimeError", "TypeError", "AttributeError"}
Results == 0..MaxRequests

TypeOK ==
  /\ configured \in BOOLEAN
  /\ main \in Working \cup {"stop"} \cup Ended /\ error \in Errors
  /\ events \in 0..NumEvents /\ mid_prices \in [Bases -> Prices]
  /\ orders \in Seq(Order) /\ Len(orders) <= MaxOrders
  /\ staged \in 0..Len(orders) /\ cursor \in 1..(staged + 1)
  /\ trades \in Seq(Trade)
  /\ balance \in [Assets -> Nat] /\ locked \subseteq Lock
  /\ deployed \in BOOLEAN /\ thread \in {"none", "loop", "request", "record", "ended"}
  /\ is_running \in BOOLEAN /\ latest \in Results
  /\ inference_results \subseteq Results /\ used \subseteq Results

Init ==
  /\ configured \in BOOLEAN
  /\ main = IF configured THEN "deploy" ELSE "data"
  /\ error = "none" /\ events = 0
  /\ mid_prices \in [Bases -> Prices]
  /\ orders = <<>> /\ staged = 0 /\ cursor = 1 /\ trades = <<>>
  /\ balance = Deposits /\ locked = {}
  /\ deployed = FALSE /\ thread = "none" /\ is_running = FALSE
  /\ latest = 0 /\ inference_results = {} /\ used = {}

Raise(e) == main' = "raised" /\ error' = e

-----------------------------------------------------------------------------
(* The inference loop *)

OnlyInference == UNCHANGED <<loopVars, orderVars, moneyVars, used>>

LoopTop ==
  /\ thread = "loop"
  /\ thread' = IF is_running THEN "request" ELSE "ended"
  /\ OnlyInference /\ UNCHANGED <<deployed, is_running, latest, inference_results>>

(* A request is answered, or fails: the result is None then.  The number   *)
(* of predictions that are told apart is bounded, that of requests is not. *)
NextResult == IF latest < MaxRequests THEN latest + 1 ELSE latest
MakeRequest ==
  /\ thread = "request"
  /\ thread' = "record"
  /\ latest' \in {0, NextResult}
  /\ OnlyInference /\ UNCHANGED <<deployed, is_running, inference_results>>

(* The result is recorded although the loop may have been stopped.         *)
RecordedMutant == IF is_running THEN inference_results \cup {latest} ELSE inference_results
Recorded == inference_results \cup {latest}

AppendResult ==
  /\ thread = "record"
  /\ thread' = "loop"
  /\ inference_results' = Recorded
  /\ OnlyInference /\ UNCHANGED <<deployed, is_running, latest>>

ThreadStep == LoopTop \/ MakeRequest \/ AppendResult

-----------------------------------------------------------------------------
(* The loop *)

KeepsOrders == UNCHANGED <<orderVars, moneyVars, configured, mid_prices>>

(* start_serve_predictor_deployment *)
Deploy ==
  /\ main = "deploy"
  /\ main' = "start" /\ deployed' = TRUE
  /\ KeepsOrders /\ UNCHANGED <<error, events, thread, is_running, latest,
                                inference_results, used>>

(* InferenceLoop.run, which then waits for a first result *)
StartInference ==
  /\ main = "start"
  /\ main' = "warmup" /\ thread' = "loop" /\ is_running' = TRUE
  /\ KeepsOrders /\ UNCHANGED <<error, events, deployed, latest, inference_results, used>>

AwaitFirstResult ==
  /\ main = "warmup"
  /\ \/ latest # 0 /\ main' = "data" /\ UNCHANGED error
     \/ latest = 0 /\ Raise("RuntimeError")
  /\ KeepsOrders /\ UNCHANGED <<events, inferVars, used>>

(* data_generator.next: before every feature has a value there is no event *)
NextEvent ==
  /\ main = "data" /\ events < NumEvents
  /\ events' = events + 1
  /\ \/ main' = (IF configured THEN "predict" ELSE "strategy") /\ mid_prices' \in [Bases -> Prices]
     \/ events = 0 /\ UNCHANGED <<main, mid_prices>>
  /\ UNCHANGED <<configured, error, orderVars, moneyVars, inferVars, used>>

(* on_data: the strategy with a model compares the latest prediction with  *)
(* the price.                                                              *)
Predict ==
  /\ main = "predict"
  /\ IF latest = 0 THEN Raise("TypeError") /\ UNCHANGED used
                   ELSE used' = used \cup {latest} /\ main' = "strategy" /\ UNCHANGED error
  /\ KeepsOrders /\ UNCHANGED <<events, inferVars>>

From(side, base) == IF side = "BUY" THEN Quote ELSE base
To(side, base)   == IF side = "BUY" THEN base ELSE Quote
ToLock(side, price, qty) == IF side = "BUY" THEN price * qty ELSE qty

(* total_balance of a wallet *)
LocksIn(a) == {l \in locked : l.wallet = a}
Total(a) == balance[a] + SumFunction([l \in LocksIn(a) |-> l.qty])

Affordable(amount, wallet) == amount <= balance[wallet]

(* make_order and lock_from_balance; a market order has the current price  *)
MakeOrder(side, type, base, price, qty) ==
  LET wallet == From(side, base)
      amount == ToLock(side, price, qty)
      i      == Len(orders) + 1
  IN /\ main = "strategy" /\ i <= MaxOrders
     /\ type = "MARKET" => price = mid_prices[base]
     /\ IF ~Affordable(amount, wallet)
          THEN Raise("ValueError") /\ UNCHANGED <<orders, moneyVars>>
          ELSE /\ locked' = locked \cup {[wallet |-> wallet, order |-> i, qty |-> amount]}
               /\ balance' = [balance EXCEPT ![wallet] = @ - amount]
               /\ orders' = Append(orders, [side |-> side, type |-> type, base |-> base,
                                            price |-> price, quantity |-> qty,
                                            status |-> "OPEN"])
               /\ UNCHANGED <<main, error>>
     /\ UNCHANGED <<configured, events, mid_prices, staged, cursor, trades, inferVars, used>>

(* The strategy returns: stage_for_execution, then update_state            *)
StageOrders ==
  /\ main = "strategy"
  /\ main' = "execute" /\ staged' = Len(orders) /\ cursor' = 1
  /\ UNCHANGED <<configured, error, events, mid_prices, orders, trades, moneyVars,
                 inferVars, used>>

Executable(o) ==
  /\ o.status = "OPEN"
  /\ \/ o.type = "MARKET"
     \/ o.side = "BUY" /\ o.price <= mid_prices[o.base]
     \/ o.side = "SELL" /\ o.price >= mid_prices[o.base]

(* What qty is worth in the other asset, before commission *)
Exchanged(side, qty, price) == IF side = "BUY" THEN qty \div price ELSE qty * price

Commission(gross) == gross \div CommissionPart
NetMutant(gross) == gross
Net(gross) == gross - Commission(gross)

UnlockedMutant(l) == locked
Unlocked(l) == locked \ {l}

(* _execute_order *)
ExecuteOrder(i) ==
  LET o     == orders[i]
      from  == From(o.side, o.base)
      to    == To(o.side, o.base)
      price == mid_prices[o.base]
      locks == {l \in locked : l.wallet = from /\ l.order = i}
  IN IF locks = {}
       THEN Raise("ValueError") /\ UNCHANGED <<orders, trades, moneyVars>>
       ELSE \E l \in locks :
              LET gross == Exchanged(o.side, l.qty, price)
              IN /\ locked' = Unlocked(l)
                 /\ balance' = [balance EXCEPT ![to] = @ + Net(gross)]
                 /\ trades' = Append(trades,
                      [order |-> i, price |-> price, commission |-> Commission(gross),
                       quantity |-> IF o.side = "BUY" THEN Net(gross) ELSE l.qty])
                 /\ orders' = [orders EXCEPT ![i].status = "FILLED"]
                 /\ UNCHANGED <<main, error>>

(* One round of _execute_staged_orders *)
ExecuteNext ==
  /\ main = "execute" /\ cursor <= staged
  /\ cursor' = cursor + 1
  /\ IF Executable(orders[cursor])
       THEN ExecuteOrder(cursor)
       ELSE UNCHANGED <<orders, trades, moneyVars, main, error>>
  /\ UNCHANGED <<configured, events, mid_prices, staged, inferVars, used>>

EndUpdate ==
  /\ main = "execute" /\ cursor > staged
  /\ main' = "data"
  /\ KeepsOrders /\ UNCHANGED <<error, events, inferVars, used>>

(* InferenceLoop.stop *)
StopInferenceMutant == UNCHANGED is_running
StopInference == is_running' = FALSE
Joined == thread = "ended"

(* The data has ended: the inference loop is stopped, if there is one or   *)
(* not                                                                     *)
EndOfData ==
  /\ main = "data" /\ events = NumEvents
  /\ IF configured THEN main' = "join" /\ StopInference /\ UNCHANGED error
                   ELSE Raise("AttributeError") /\ UNCHANGED is_running
  /\ KeepsOrders /\ UNCHANGED <<events, deployed, thread, latest, inference_results, used>>

JoinThread ==
  /\ main = "join" /\ Joined
  /\ main' = "returned"
  /\ KeepsOrders /\ UNCHANGED <<error, events, inferVars, used>>

-----------------------------------------------------------------------------
(* KeyboardInterrupt: run_locally calls Loop.stop                          *)

(* The thread of an inference loop that has not been started is None.      *)
Interrupt ==
  /\ main \in Working
  /\ IF configured /\ thread = "none" THEN Raise("AttributeError")
                                      ELSE main' = "stop" /\ UNCHANGED error
  /\ StopInference
  /\ KeepsOrders /\ UNCHANGED <<events, deployed, thread, latest, inference_results, used>>

StopJoins ==
  /\ main = "stop" /\ (configured => Joined)
  /\ main' = "stopped" /\ deployed' = FALSE
  /\ KeepsOrders /\ UNCHANGED <<error, events, thread, is_running, latest,
                                inference_results, used>>

MainStep ==
  \/ Deploy \/ StartInference \/ AwaitFirstResult \/ NextEvent \/ Predict
  \/ StageOrders \/ ExecuteNext \/ EndUpdate \/ EndOfData \/ JoinThread \/ StopJoins

MakesOrder ==
  \E side \in {"BUY", "SELL"}, type \in {"MARKET", "LIMIT"}, base \in Bases,
     price \in Prices, qty \in Quantities : MakeOrder(side, type, base, price, qty)

Next == MainStep \/ MakesOrder \/ ThreadStep \/ Interrupt

(* Both threads run; a request is answered or refused at last, a strategy  *)
(* returns.                                                                *)
Spec == Init /\ [][Next]_vars /\ WF_vars(MainStep) /\ WF_vars(ThreadStep)

-----------------------------------------------------------------------------
(* Properties *)

(* An order is executed at most once, and what it pays with is locked, in  *)
(* the one wallet it pays from, exactly until then                         *)
(* (execution_simulator.py:56, wallet.py:19-33).                           *)
OrdersAccounted ==
  \A i \in DOMAIN orders :
    LET o == orders[i]
    IN /\ {l \in locked : l.order = i} =
            IF o.status = "OPEN"
              THEN {[wallet |-> From(o.side, o.base), order |-> i,
                     qty |-> ToLock(o.side, o.price, o.quantity)]}
              ELSE {}
       /\ Cardinality({n \in DOMAIN trades : trades[n].order = i}) =
            IF o.status = "OPEN" THEN 0 ELSE 1

(* The trades of the result explain the balances of the result: a wallet   *)
(* holds, free and locked, what it began with and what the trades moved,   *)
(* whichever orders were made, refused or left open                        *)
(* (execution_simulator.py:83-129, base.py:59-71).                         *)
Moved(o, t, a) ==
  CASE a = o.base -> IF o.side = "BUY" THEN t.quantity ELSE - t.quantity
    [] a = Quote  -> IF o.side = "BUY" THEN - (o.price * o.quantity)
                                       ELSE t.quantity * t.price - t.commission
    [] OTHER      -> 0
MovedBy(n, a) == Moved(orders[trades[n].order], trades[n], a)
BalancesMatchTrades ==
  \A a \in Assets :
    Total(a) = Deposits[a] + SumFunction([n \in DOMAIN trades |-> MovedBy(n, a)])

(* No order waits without having been looked at: whenever the loop takes   *)
(* the next event, the market orders of all events before are executed     *)
(* (loop.py:57-64).                                                        *)
MarketOrdersDone ==
  main = "data" =>
    \A i \in DOMAIN orders : orders[i].type = "MARKET" => orders[i].status = "FILLED"

(* A backtest that returns reports every prediction its strategy used,     *)
(* though the thread publishes one before it records it                    *)
(* (loop.py:67-71, inference_loop.py:59-64).                               *)
UsedPredictionsReported == main = "returned" => used \subseteq inference_results

(* No thread outlives a backtest that returns or was stopped, and none is  *)
(* still served when it was stopped (loop.py:42-47, inference_loop.py:81-83). *)
NothingLeftRunning ==
  main \in {"returned", "stopped"} =>
    /\ thread \in {"none", "ended"} /\ ~is_running
    /\ main = "stopped" => ~deployed

(* A run ends, by itself or after an interrupt. *)
BacktestEnds == <>(main \in Ended)

=============================================================================
