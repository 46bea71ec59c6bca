------------------------------- MODULE Market -------------------------------
(***************************************************************************)
(* The player market of examples/space: one order book of pkg/orderbook,   *)
(* the settlement of its fills, the rows of its orders in the database and *)
(* the players' wallets with their periodic flush.                         *)
(*                                                                         *)
(* Every operation runs on the loop of its player's cell, so operations of *)
(* players in different cells interleave between any two locks; the expiry *)
(* ticker and the flushes of several cells run beside them.  The book and  *)
(* the wallets are shared by the whole process.                            *)
(*                                                                         *)
(* An order is an object that outlives its place in the book: whoever has  *)
(* a pointer to it reads the quantity it has at that moment.  Ids grow     *)
(* with CreatedAt (the clock does not step back), so the order of ids is   *)
(* the order of age.                                                       *)
(***************************************************************************)
EXTENDS PlayerFlush, Integers, Sequences, FiniteSets, SequencesExt

CONSTANTS
    Expirer,      \* the goroutine of the expiry ticker
    Prices,
    Quantities,
    Stock,        \* items in every bank at the start
    Cash,         \* currency of every player at the start
    TaxPct,
    MaxOrders,    \* Config.MaxOrders, active orders per player
    BrokeBuys,    \* whether a player without currency may buy instantly
    Budgets       \* how often each kind of step may happen in one run

NoID == 0
Gone == -1        \* GetOrder answered nil

Selling == {"sell", "sellNow"}
Buying == {"buy", "buyNow"}

VARIABLES
    order,        \* Order objects by id; quantity is what is unfilled
    sells, buys,  \* OrderBook.Sells and OrderBook.Buys, ids
    nextID,       \* Service.nextID
    op,           \* what each player's loop and the expiry ticker are at
    rows,         \* market_orders: quantity by id
    expired,      \* orders whose ExpiresAt has passed
    budget,       \* bound: steps of each kind that are left
    taxed,        \* history: currency taken by the tax
    short,        \* history: escrow not taken, because a fill came first
    raced,        \* history: orders filled while a row write was prepared
    stranded,     \* history: orders that had expired when they were loaded
    astray        \* history: a restart changed the book or a wallet

bookVars == <<order, sells, buys, nextID, expired>>
storeVars == <<rows, raced>>
pathVars == <<saved, marked, call, batch, overtaken>>
moneyVars == <<wallet, dirty, taxed, short>>
pastVars == <<stranded, astray>>
vars == <<bookVars, storeVars, pathVars, moneyVars, pastVars, op, budget>>

Actors == Players \cup {Expirer}

Idle == [at |-> "idle", kind |-> "none", limit |-> 0, qty |-> 0, todo |-> <<>>,
         rest |-> NoID, left |-> 0, filled |-> 0, seen |-> Gone]

Init ==
    /\ order = << >> /\ sells = <<>> /\ buys = <<>> /\ nextID = 1
    /\ wallet = [p \in Players |-> [bank |-> Stock, flux |-> Cash]]
    /\ FlushInit
    /\ op = [a \in Actors |-> Idle]
    /\ rows = << >> /\ expired = {}
    /\ budget \in Budgets
    /\ taxed = 0 /\ short = [items |-> 0, flux |-> 0]
    /\ raced = {} /\ stranded = {} /\ astray = FALSE

Quiet == \A a \in Actors : op[a].at = "idle"

----------------------------------------------------------------------------
(* The book.                                                               *)

Live == ToSet(sells) \cup ToSet(buys)

OrderCount(p) == Cardinality({id \in Live : order[id].owner = p})

(* a stands behind b in the queue of its side                              *)
Worse(objects, a, b) ==
    IF objects[b].side = "sell" THEN objects[a].price > objects[b].price
                                ELSE objects[a].price < objects[b].price

(* Mutant of Insert: an order of an equal price jumps the queue            *)
InsertYoungFirst(objects, queue, id) ==
    LET ahead == {i \in DOMAIN queue : Worse(objects, id, queue[i])}
    IN  InsertAt(queue, Cardinality(ahead) + 1, id)

Insert(objects, queue, id) ==
    LET ahead == {i \in DOMAIN queue : ~Worse(objects, queue[i], id)}
    IN  InsertAt(queue, Cardinality(ahead) + 1, id)

(* The matching loop: walk the other side from its best order on, taking   *)
(* what is wanted at prices that are acceptable, within cash unless cash   *)
(* is 0.                                                                   *)
Fill(queue, want, acceptable, cash) ==
    LET Take(acc, id) ==
            LET o == order[id]
                most == Min({acc.left, o.qty})
                n == IF cash = 0 THEN most
                     ELSE Min({most, (cash - acc.cost) \div o.price})
            IN  IF acc.done \/ acc.left = 0 \/ o.price \notin acceptable \/ (n = 0 /\ most > 0)
                THEN [acc EXCEPT !.done = TRUE]
                ELSE [acc EXCEPT !.left = @ - n, !.cost = @ + n * o.price,
                                 !.todo = Append(@, [id |-> id, qty |-> n])]
    IN  FoldLeft(Take, [left |-> want, cost |-> 0, todo |-> <<>>, done |-> FALSE], queue)

Matched(todo) == {todo[i].id : i \in DOMAIN todo}

(* What the matches leave of the objects and of a queue                    *)
Reduced(todo) == FoldLeft(LAMBDA os, m : [os EXCEPT ![m.id].qty = @ - m.qty], order, todo)

Unfilled(queue, todo) ==
    SelectSeq(queue, LAMBDA id : id \notin Matched(todo) \/ Reduced(todo)[id].qty > 0)

(* Orders whose row another operation is about to write from a quantity it *)
(* has read, or has yet to insert.                                         *)
BeingWritten(p) ==
    {id \in Live : \E a \in Players \ {p} :
        \/ op[a].rest = id
        \/ op[a].at = "write" /\ Head(op[a].todo).id = id}

----------------------------------------------------------------------------
(* Operations of the players.                                              *)

Spend(kind) == budget' = [budget EXCEPT ![kind] = @ - 1]

(* PlaceSellOrder, InstantSell: the bank is looked at before the book      *)
BeginSell(p, kind) ==
    \E qty \in Quantities, limit \in (IF kind = "sell" THEN Prices ELSE {0}) :
        /\ wallet[p].bank >= qty
        /\ op' = [op EXCEPT ![p] = [Idle EXCEPT !.at = "match", !.kind = kind,
                                                !.qty = qty, !.limit = limit]]

(* Mutant of BeginBuy: the price of one item is compared                   *)
BeginBuyOne(p) ==
    \E qty \in Quantities, limit \in Prices :
        /\ wallet[p].flux >= limit
        /\ op' = [op EXCEPT ![p] = [Idle EXCEPT !.at = "match", !.kind = "buy",
                                                !.qty = qty, !.limit = limit]]

(* PlaceBuyOrder: the currency has to cover the whole order                *)
BeginBuy(p) ==
    \E qty \in Quantities, limit \in Prices :
        /\ wallet[p].flux >= limit * qty
        /\ op' = [op EXCEPT ![p] = [Idle EXCEPT !.at = "match", !.kind = "buy",
                                                !.qty = qty, !.limit = limit]]

(* InstantBuy: the currency at this moment is the budget of the match      *)
BeginBuyNow(p) ==
    \E qty \in Quantities :
        /\ BrokeBuys \/ wallet[p].flux > 0
        /\ op' = [op EXCEPT ![p] = [Idle EXCEPT !.at = "match", !.kind = "buyNow",
                                                !.qty = qty, !.limit = wallet[p].flux]]

Begin(p) ==
    /\ op[p].at = "idle" /\ budget.ops > 0 /\ Spend("ops")
    /\ BeginSell(p, "sell") \/ BeginSell(p, "sellNow") \/ BeginBuy(p) \/ BeginBuyNow(p)
    /\ UNCHANGED <<bookVars, storeVars, pathVars, moneyVars, pastVars>>

(* Mutant of Closing: items are only taken when an order rests             *)
ClosingResting(o) == IF o.rest # NoID THEN [o EXCEPT !.at = "escrow"] ELSE Idle

(* What is left to do once every match has been settled                    *)
Closing(o) ==
    IF o.rest # NoID \/ (o.kind \in Selling /\ o.filled > 0)
    THEN [o EXCEPT !.at = "escrow"] ELSE Idle

(* The call into the book, under its mutex: match, and rest what is left   *)
Match(p) ==
    LET o == op[p]
        selling == o.kind \in Selling
        queue == IF selling THEN buys ELSE sells
        acceptable == {price \in Prices :
                         CASE o.kind = "sell" -> price >= o.limit
                           [] o.kind = "buy"  -> price <= o.limit
                           [] OTHER           -> TRUE}
        fill == Fill(queue, o.qty, acceptable, IF o.kind = "buyNow" THEN o.limit ELSE 0)
        rests == o.kind \in {"sell", "buy"} /\ fill.left > 0
        objects == IF rests
                   THEN Reduced(fill.todo) @@ (nextID :> [owner |-> p, side |-> o.kind,
                                                          price |-> o.limit, qty |-> fill.left])
                   ELSE Reduced(fill.todo)
        Side(q, mine) == LET kept == Unfilled(q, fill.todo)
                         IN  IF rests /\ mine THEN Insert(objects, kept, nextID) ELSE kept
        after == [o EXCEPT !.at = "settle", !.todo = fill.todo, !.left = fill.left,
                           !.rest = IF rests THEN nextID ELSE NoID]
    IN  /\ o.at = "match"
        /\ IF o.kind \in {"sell", "buy"} /\ OrderCount(p) >= MaxOrders
           THEN /\ op' = [op EXCEPT ![p] = Idle]
                /\ UNCHANGED <<order, sells, buys, nextID, raced>>
           ELSE /\ order' = objects
                /\ sells' = Side(sells, selling)
                /\ buys' = Side(buys, ~selling)
                /\ nextID' = IF rests THEN nextID + 1 ELSE nextID
                /\ op' = [op EXCEPT ![p] = IF fill.todo # <<>> THEN after ELSE Closing(after)]
                /\ raced' = raced \cup (Matched(fill.todo) \cap BeingWritten(p))
        /\ UNCHANGED <<expired, rows, pathVars, moneyVars, pastVars, budget>>

(* What a seller is paid of a value                                        *)
Net(value) == (value * (100 - TaxPct)) \div 100

Credit(w, p, items, flux) ==
    [w EXCEPT ![p] = [bank |-> @.bank + items, flux |-> @.flux + flux]]

(* Mutant of SettleSale: only the one who sells is marked dirty            *)
SettleSaleOneDirty(p) ==
    LET m == Head(op[p].todo)
        buyer == order[m.id].owner
        value == m.qty * order[m.id].price
    IN  /\ op[p].at = "settle" /\ op[p].kind \in Selling
        /\ wallet' = Credit(Credit(wallet, p, 0, Net(value)), buyer, m.qty, 0)
        /\ taxed' = taxed + value - Net(value)
        /\ dirty' = dirty \cup {p}
        /\ op' = [op EXCEPT ![p].at = "look", ![p].filled = @ + m.qty]
        /\ UNCHANGED <<bookVars, storeVars, pathVars, short, pastVars, budget>>

(* One fill of a sale: the seller is paid out of the buyer's escrow        *)
SettleSale(p) ==
    LET m == Head(op[p].todo)
        buyer == order[m.id].owner
        value == m.qty * order[m.id].price
    IN  /\ op[p].at = "settle" /\ op[p].kind \in Selling
        /\ wallet' = Credit(Credit(wallet, p, 0, Net(value)), buyer, m.qty, 0)
        /\ taxed' = taxed + value - Net(value)
        /\ dirty' = dirty \cup {p, buyer}
        /\ op' = [op EXCEPT ![p].at = "look", ![p].filled = @ + m.qty]
        /\ UNCHANGED <<bookVars, storeVars, pathVars, short, pastVars, budget>>

(* One fill of a purchase: the buyer pays, the goods were in escrow        *)
SettlePurchase(p) ==
    LET m == Head(op[p].todo)
        seller == order[m.id].owner
        value == m.qty * order[m.id].price
    IN  /\ op[p].at = "settle" /\ op[p].kind \in Buying
        /\ wallet' = Credit(Credit(wallet, p, m.qty, -value), seller, 0, Net(value))
        /\ taxed' = taxed + value - Net(value)
        /\ dirty' = dirty \cup {p, seller}
        /\ op' = [op EXCEPT ![p].at = "look", ![p].filled = @ + m.qty]
        /\ UNCHANGED <<bookVars, storeVars, pathVars, short, pastVars, budget>>

(* GetOrder, and the quantity read through the pointer it returns          *)
Look(p) ==
    LET id == Head(op[p].todo).id
    IN  /\ op[p].at = "look"
        /\ op' = [op EXCEPT ![p].at = "write", ![p].seen = IF id \in Live THEN order[id].qty ELSE Gone]
        /\ UNCHANGED <<bookVars, storeVars, pathVars, moneyVars, pastVars, budget>>

(* A statement on market_orders; a failure is logged and forgotten         *)
Written(id, new) ==
    \/ /\ rows' = new
       /\ UNCHANGED <<raced, budget>>
    \/ /\ budget.faults > 0 /\ Spend("faults")
       /\ raced' = raced \cup {id}
       /\ UNCHANGED rows

Without(id) == [i \in DOMAIN rows \ {id} |-> rows[i]]

(* Mutant of Write: a filled order is updated, never deleted               *)
WriteKeepsRow(p) ==
    LET o == op[p]
        id == Head(o.todo).id
        next == [o EXCEPT !.todo = Tail(@), !.seen = Gone]
    IN  /\ o.at = "write"
        /\ Written(id, [i \in DOMAIN rows |-> IF i = id THEN Max({o.seen, 0}) ELSE rows[i]])
        /\ op' = [op EXCEPT ![p] = IF next.todo # <<>> THEN [next EXCEPT !.at = "settle"]
                                   ELSE Closing(next)]
        /\ UNCHANGED <<bookVars, pathVars, moneyVars, pastVars>>

(* UpdateQuantity of what was read, or DeleteOrder; on to the next match   *)
Write(p) ==
    LET o == op[p]
        id == Head(o.todo).id
        next == [o EXCEPT !.todo = Tail(@), !.seen = Gone]
    IN  /\ o.at = "write"
        /\ Written(id, IF o.seen = Gone THEN Without(id)
                       ELSE [i \in DOMAIN rows |-> IF i = id THEN o.seen ELSE rows[i]])
        /\ op' = [op EXCEPT ![p] = IF next.todo # <<>> THEN [next EXCEPT !.at = "settle"]
                                   ELSE Closing(next)]
        /\ UNCHANGED <<bookVars, pathVars, moneyVars, pastVars>>

(* The quantity a resting order has now, and what has been filled of it    *)
(* since it was placed.                                                    *)
Now(o) == IF o.rest # NoID THEN order[o.rest].qty ELSE 0
FilledFirst(o) == IF o.rest # NoID THEN o.left - Now(o) ELSE 0

(* Take what was sold out of the bank, then the items of the resting order *)
(* by the quantity its object has now; an entry that is not positive is    *)
(* deleted.                                                                *)
EscrowItems(p) ==
    LET o == op[p]
        Less(n, k) == Max({n - k, 0})
    IN  /\ o.at = "escrow" /\ o.kind \in Selling
        /\ wallet' = [wallet EXCEPT ![p].bank = Less(Less(@, o.filled), Now(o))]
        /\ short' = [short EXCEPT !.items = @ + FilledFirst(o)]
        /\ dirty' = dirty \cup {p}
        /\ op' = [op EXCEPT ![p] = IF o.rest # NoID THEN [o EXCEPT !.at = "record"] ELSE Idle]
        /\ UNCHANGED <<bookVars, storeVars, pathVars, taxed, pastVars, budget>>

EscrowFlux(p) ==
    LET o == op[p]
    IN  /\ o.at = "escrow" /\ o.kind \in Buying
        /\ wallet' = [wallet EXCEPT ![p].flux = @ - o.limit * Now(o)]
        /\ short' = [short EXCEPT !.flux = @ + o.limit * FilledFirst(o)]
        /\ dirty' = dirty \cup {p}
        /\ op' = [op EXCEPT ![p].at = "record"]
        /\ UNCHANGED <<bookVars, storeVars, pathVars, taxed, pastVars, budget>>

(* orderToRecord reads the quantity again                                  *)
Record(p) ==
    /\ op[p].at = "record"
    /\ op' = [op EXCEPT ![p].at = "insert", ![p].seen = order[op[p].rest].qty]
    /\ UNCHANGED <<bookVars, storeVars, pathVars, moneyVars, pastVars, budget>>

PlaceOrder(p) ==
    /\ op[p].at = "insert"
    /\ Written(op[p].rest, rows @@ (op[p].rest :> op[p].seen))
    /\ op' = [op EXCEPT ![p] = Idle]
    /\ UNCHANGED <<bookVars, pathVars, moneyVars, pastVars>>

----------------------------------------------------------------------------
(* Orders that leave the book unfilled: cancelled or expired.              *)

Removal(kind, ids) ==
    [Idle EXCEPT !.at = "delete", !.kind = kind,
                 !.todo = [i \in DOMAIN ids |-> [id |-> ids[i], qty |-> order[ids[i]].qty]]]

Drop(ids) ==
    /\ sells' = SelectSeq(sells, LAMBDA id : id \notin ids)
    /\ buys' = SelectSeq(buys, LAMBDA id : id \notin ids)
    /\ UNCHANGED <<order, nextID, expired>>

Cancel(p) ==
    /\ op[p].at = "idle" /\ budget.ops > 0 /\ Spend("ops")
    /\ \E id \in Live :
        /\ order[id].owner = p
        /\ Drop({id})
        /\ op' = [op EXCEPT ![p] = Removal("cancel", <<id>>)]
    /\ UNCHANGED <<storeVars, pathVars, moneyVars, pastVars>>

(* The ticker takes every expired order at once, in the order of a map     *)
ExpireOrders ==
    LET due == Live \cap expired
    IN  /\ op[Expirer].at = "idle" /\ due # {}
        /\ Drop(due)
        /\ \E ids \in SetToSeqs(due) : op' = [op EXCEPT ![Expirer] = Removal("expire", ids)]
        /\ UNCHANGED <<storeVars, pathVars, moneyVars, pastVars, budget>>

DeleteOrder(a) ==
    LET id == Head(op[a].todo).id
    IN  /\ op[a].at = "delete"
        /\ Written(id, Without(id))
        /\ op' = [op EXCEPT ![a].at = "refund"]
        /\ UNCHANGED <<bookVars, pathVars, moneyVars, pastVars>>

Refund(a) ==
    LET m == Head(op[a].todo)
        o == order[m.id]
    IN  /\ op[a].at = "refund"
        /\ wallet' = IF o.side = "sell" THEN Credit(wallet, o.owner, m.qty, 0)
                                        ELSE Credit(wallet, o.owner, 0, o.price * m.qty)
        /\ dirty' = dirty \cup {o.owner}
        /\ op' = [op EXCEPT ![a] = IF Len(@.todo) > 1 THEN [@ EXCEPT !.at = "delete", !.todo = Tail(@)]
                                   ELSE Idle]
        /\ UNCHANGED <<bookVars, storeVars, pathVars, taxed, short, pastVars, budget>>

(* Time: an order that nobody is still placing reaches its ExpiresAt       *)
Age ==
    /\ budget.ages > 0 /\ Spend("ages")
    /\ \E id \in Live \ expired :
        /\ \A p \in Players : op[p].rest # id
        /\ expired' = expired \cup {id}
    /\ UNCHANGED <<order, sells, buys, nextID, storeVars, pathVars, moneyVars, pastVars, op>>

----------------------------------------------------------------------------
(* The loop of a cell saves its active players before it flushes; players  *)
(* who are docked or offline are not saved.                                *)
SavePlayerState(p) ==
    /\ p \notin dirty /\ budget.flushes > 0 /\ Spend("flushes")
    /\ wallet' = wallet
    /\ Change({p})
    /\ UNCHANGED <<bookVars, storeVars, taxed, short, pastVars, op>>

(* FlushDirty of a cell's loop, and a transaction that fails               *)
FlushDirty(f) ==
    /\ \/ budget.flushes > 0 /\ Spend("flushes") /\ FlushMark(f)
       \/ (FlushTake(f) \/ FlushCommit(f)) /\ UNCHANGED budget
       \/ budget.faults > 0 /\ Spend("faults") /\ RestoreDirty(f)
    /\ UNCHANGED <<bookVars, storeVars, taxed, short, pastVars, op>>

----------------------------------------------------------------------------
(* A clean stop, with its last FlushDirty, and the next start.             *)

Reloaded == [id \in DOMAIN rows |-> [order[id] EXCEPT !.qty = rows[id]]]

(* Mutant of Loaded: the rows come newest first                            *)
LoadedNewestFirst(side) ==
    LET ids == {id \in DOMAIN rows \ expired : order[id].side = side}
    IN  FoldLeft(LAMBDA q, id : Insert(Reloaded, q, id), <<>>, SetToSortSeq(ids, >))

(* LoadAll: rows that have not expired, in the order of their ids          *)
Loaded(side) ==
    LET ids == {id \in DOMAIN rows \ expired : order[id].side = side}
    IN  FoldLeft(LAMBDA q, id : Insert(Reloaded, q, id), <<>>, SetToSortSeq(ids, <))

FirstID == Max({0} \cup DOMAIN rows) + 1

Restart ==
    /\ budget.restarts > 0 /\ Spend("restarts")
    /\ Quiet
    /\ Reload
    /\ order' = Reloaded
    /\ sells' = Loaded("sell")
    /\ buys' = Loaded("buy")
    /\ nextID' = FirstID
    /\ expired' = expired \cap DOMAIN rows
    /\ stranded' = expired \cap DOMAIN rows
    /\ raced' = {}
    /\ astray' = (astray \/ raced # {} \/ LastFlush # wallet)
    /\ UNCHANGED <<rows, taxed, short, op>>

Next ==
    \/ \E p \in Players :
        \/ Begin(p) \/ Match(p) \/ SettleSale(p) \/ SettlePurchase(p) \/ Look(p) \/ Write(p)
        \/ EscrowItems(p) \/ EscrowFlux(p) \/ Record(p) \/ PlaceOrder(p) \/ Cancel(p)
    \/ \E a \in Actors : DeleteOrder(a) \/ Refund(a)
    \/ ExpireOrders \/ Age
    \/ \E p \in Players : SavePlayerState(p)
    \/ \E f \in Flushers : FlushDirty(f)
    \/ Restart

Spec == Init /\ [][Next]_vars

----------------------------------------------------------------------------
Sum(f(_), S) == FoldSet(LAMBDA x, n : f(x) + n, 0, S)
Items(id) == IF order[id].side = "sell" THEN order[id].qty ELSE 0
Money(id) == IF order[id].side = "buy" THEN order[id].qty * order[id].price ELSE 0

(* Nothing is made or lost: when no operation is under way, the banks and  *)
(* the sell orders hold the items there were, and the wallets, the buy     *)
(* orders and the tax hold the currency, except for exactly the escrow     *)
(* that Settlement does not take because a fill reached the new order      *)
(* before its own placement came to settlement.go:160 or :249.  However    *)
(* fills, cancellations and expiries of one order interleave, it is paid   *)
(* out once.                                                               *)
Conserved ==
    Quiet /\ ~astray =>
        /\ Sum(LAMBDA p : wallet[p].bank, Players) + Sum(Items, Live \cup stranded)
              = Cardinality(Players) * Stock + short.items
        /\ Sum(LAMBDA p : wallet[p].flux, Players) + Sum(Money, Live \cup stranded) + taxed
              = Cardinality(Players) * Cash + short.flux

(* The balance read before the call into the book covers what is taken     *)
(* after it, so no wallet goes below zero and the delete of an entry that  *)
(* is not positive (settlement.go:145, :161) never hides a shortage.       *)
Covered ==
    \A p \in Players :
        /\ wallet[p].flux >= 0
        /\ op[p].at = "escrow" /\ op[p].kind \in Selling =>
              wallet[p].bank >= op[p].filled + Now(op[p])

(* Every id names one order, in the queue of its side, and is below the    *)
(* next one to be given out, so a new order never takes over an object or  *)
(* a row of another; and within a queue price and time have priority:      *)
(* better prices first, older orders first within a price, also after a    *)
(* reload.  The book is never crossed, whatever is placed, cancelled and   *)
(* expired in between, as matching takes every acceptable order before the *)
(* rest is queued.                                                         *)
BookOrder ==
    /\ Live \cup DOMAIN rows \subseteq DOMAIN order
    /\ DOMAIN order \subseteq 1..(nextID - 1)
    /\ IsInjective(sells \o buys)
    /\ \A id \in Live : order[id].side = IF id \in ToSet(sells) THEN "sell" ELSE "buy"
    /\ \A q \in {sells, buys} : \A i, j \in DOMAIN q : i < j =>
          \/ Worse(order, q[j], q[i])
          \/ order[q[i]].price = order[q[j]].price /\ q[i] < q[j]
    /\ ~astray /\ sells # <<>> /\ buys # <<>> =>
          order[Head(buys)].price < order[Head(sells)].price

Owed(a) == Matched(op[a].todo) \cup {op[a].rest}

(* Once every operation on an order has written its row, the row says what *)
(* the book says: present with the same quantity, or absent.  Only a fill  *)
(* that falls between another operation's read of the quantity and its     *)
(* write, or before the row is inserted, may leave it wrong.               *)
StoreMatches ==
    \A id \in DOMAIN order \ (raced \cup stranded \cup UNION {Owed(a) : a \in Actors}) :
        /\ id \in DOMAIN rows <=> id \in Live
        /\ id \in Live => rows[id] = order[id].qty

(* The market uses the wallets as PlayerRepo promises them to be flushed:  *)
(* every step that changes a bank or a currency marks its player dirty,    *)
(* for both sides of a fill, an escrow and a refund, so everything proved  *)
(* of PlayerFlush holds of them.                                           *)
ImplementsPlayerFlush == FlushSpec

Reloads == budget'.restarts # budget.restarts

(* A clean stop and start keeps the wallets as PlayerFlush promises, and   *)
(* of every order that has not expired its quantity and its place in the   *)
(* queue: LoadAll rebuilds the book from the rows in the order of their    *)
(* ids.                                                                    *)
RestartKeeps ==
    /\ ReloadKeeps
    /\ [][Reloads =>
         LET Same(id) == id \notin raced \cup expired
         IN  /\ SelectSeq(sells, Same) = SelectSeq(sells', Same)
             /\ SelectSeq(buys, Same) = SelectSeq(buys', Same)
             /\ \A id \in Live : Same(id) => order'[id] = order[id]]_vars
=============================================================================
