-------------------------- MODULE PersistentEngine --------------------------
(***************************************************************************)
(* The paper engine with its write-behind persistence: every order update  *)
(* and every fill puts jobs on a bounded queue, one worker writes them to  *)
(* the database in batches of one transaction, and a restart reloads the   *)
(* open positions, the balance and the working orders.                     *)
(* Source: backend/app/services/persistence.py, db/repository.py, and the  *)
(* callbacks _on_fill and _on_order_update of runtime.py.                  *)
(*                                                                         *)
(* A job holds the order or the position itself, so it writes what that    *)
(* object is when the worker gets to it; only the balance is copied when   *)
(* the job is made.  The worker awaits the database at every job, and the  *)
(* engine goes on meanwhile, a whole call of on_book at a time.  Fills and *)
(* audit entries are written too but never read back into the engine: they *)
(* are left out.                                                           *)
(***************************************************************************)
EXTENDS PaperEngine, Lists

CONSTANTS QueueSize,   \* maxsize of the queue
          BatchSize,   \* jobs of one transaction
          MaxRestarts  \* bound: crashes or stops of one behaviour

ASSUME PersistenceAssumption == /\ QueueSize \in Nat \ {0} /\ BatchSize \in Nat \ {0}
                                /\ MaxRestarts \in Nat

VARIABLES objects,  \* of each symbol, the position objects that ever were
          held,     \* the index of the one in account.positions, 0 for none
          queue,    \* Persistence._queue
          worker,   \* the batch the worker is at, and its transaction so far
          durable,  \* the committed rows
          lost,     \* ghost: a write was dropped, failed or died with the process
          traded,   \* ghost: what each order has filled, over all restarts
          restarts

persistenceVars == <<objects, held, queue, worker, durable, lost, traded, restarts>>
allVars == <<engineVars, persistenceVars>>

\* The tables: the status of each order, the row of each position, and the
\* balance of the last equity snapshot.  Realized pnl, fees and funding, three
\* columns, are the one amount they make.
EmptyTables == [orders |-> << >>, positions |-> << >>, balance |-> StartingBalance]
Idle == [busy |-> FALSE, todo |-> << >>, staged |-> EmptyTables]

OrderJob(id) == [kind |-> "order", id |-> id]
PositionJob(s, n) == [kind |-> "position", id |-> <<s, n>>]
CloseJob(s, n) == [kind |-> "close", id |-> <<s, n>>]
EquityJob(amount) == [kind |-> "equity", balance |-> amount]

-----------------------------------------------------------------------------
\* The position objects

ObjectOf(s) ==
  [side |-> positions[s].side, qty |-> positions[s].qty, avg |-> positions[s].avg,
   booked |-> Booked(positions[s]), stopLoss |-> protect[s].stopLoss,
   takeProfit |-> protect[s].takeProfit]

Ends(s) == held[s] # 0 /\ (~IsOpen(positions'[s]) \/ positions'[s].side # positions[s].side)
Begins(s) == IsOpen(positions'[s]) /\ (held[s] = 0 \/ Ends(s))
HeldAfter(s) ==
  IF Begins(s) THEN Len(objects[s]) + 1 ELSE IF Ends(s) THEN 0 ELSE held[s]

\* The closed position keeps what the closing fill has booked on it.
Final(s) == [objects[s][held[s]] EXCEPT !.qty = 0, !.booked = closed'[s] - closed[s]]
Touched(s) ==
  IF held[s] = 0 THEN objects[s]
  ELSE [objects[s] EXCEPT ![held[s]] = IF Ends(s) THEN Final(s) ELSE ObjectOf(s)']
ObjectsAfter(s) ==
  IF Begins(s) THEN Append(Touched(s), ObjectOf(s)') ELSE Touched(s)

-----------------------------------------------------------------------------
\* The callbacks: _on_fill, then _on_order_update

FillJobs(s) ==
  (IF Ends(s) THEN <<CloseJob(s, held[s])>> ELSE << >>)
  \o (IF IsOpen(positions'[s]) THEN <<PositionJob(s, HeldAfter(s))>> ELSE << >>)
  \o <<EquityJob(balance')>>

\* An order is notified when it is new, when it fills and when it ends.
Notified ==
  {i \in DOMAIN orders' :
     i \in DOMAIN orders => \/ orders'[i].filled # orders[i].filled
                            \/ IsTerminal(orders'[i]) /\ ~IsTerminal(orders[i])}
OrderJobs ==
  [k \in 1 .. Cardinality(Notified) |-> OrderJob(InOrder(Notified)[k])]

Jobs == (IF events' # events THEN FillJobs(tick.book.symbol) ELSE << >>) \o OrderJobs

\* _enqueue: a job that finds the queue full is dropped.
Offered(jobs) ==
  LET room == QueueSize - Len(queue)
  IN IF Len(jobs) <= room THEN jobs ELSE SubSeq(jobs, 1, room)

EngineStep ==
  /\ EngineNext
  /\ objects' = [s \in Symbols |-> ObjectsAfter(s)]
  /\ held' = [s \in Symbols |-> HeldAfter(s)]
  /\ queue' = queue \o Offered(Jobs)
  /\ lost' = (lost \/ Offered(Jobs) # Jobs)
  /\ traded' = [i \in DOMAIN orders' |->
                  IF i \in DOMAIN orders
                  THEN traded[i] + orders'[i].filled - orders[i].filled ELSE 0]
  /\ UNCHANGED <<worker, durable, restarts>>

-----------------------------------------------------------------------------
\* _run, with the writes of repository.py

TakeBatch ==
  LET size == Min({Len(queue), BatchSize})
  IN /\ ~tick.running /\ ~worker.busy /\ queue # << >>
     /\ worker' = [busy |-> TRUE, todo |-> SubSeq(queue, 1, size), staged |-> durable]
     /\ queue' = SubSeq(queue, size + 1, Len(queue))
     /\ UNCHANGED <<engineVars, objects, held, durable, lost, traded, restarts>>

Put(table, key, row) ==
  [k \in DOMAIN table \union {key} |-> IF k = key THEN row ELSE table[k]]

\* save_order, upsert_position, close_position, save_equity_snapshot
PositionRow(tables, id) ==
  LET object == objects[id[1]][id[2]]
  IN [open |-> id \in DOMAIN tables.positions => tables.positions[id].open,
      object |-> object]

\* Bug: a closed position is written like an open one.
WrittenOpen(tables, job) ==
  CASE job.kind = "order" ->
         [tables EXCEPT !.orders = Put(@, job.id, orders[job.id].status)]
    [] job.kind \in {"position", "close"} ->
         [tables EXCEPT !.positions = Put(@, job.id, PositionRow(tables, job.id))]
    [] job.kind = "equity" -> [tables EXCEPT !.balance = job.balance]
\* Bug: an order is inserted and never updated.
WrittenOnce(tables, job) ==
  CASE job.kind = "order" ->
         [tables EXCEPT !.orders = @ @@ (job.id :> orders[job.id].status)]
    [] OTHER -> WrittenOpen(tables, job)
Written(tables, job) ==
  CASE job.kind = "order" ->
         [tables EXCEPT !.orders = Put(@, job.id, orders[job.id].status)]
    [] job.kind = "position" ->
         [tables EXCEPT !.positions = Put(@, job.id, PositionRow(tables, job.id))]
    [] job.kind = "close" ->
         IF job.id \in DOMAIN tables.positions
         THEN [tables EXCEPT !.positions[job.id].open = FALSE]
         ELSE tables
    [] job.kind = "equity" -> [tables EXCEPT !.balance = job.balance]

WriteJob ==
  /\ ~tick.running /\ worker.busy /\ worker.todo # << >>
  /\ worker' = [worker EXCEPT !.todo = Tail(@), !.staged = Written(@, Head(worker.todo))]
  /\ UNCHANGED <<engineVars, objects, held, queue, durable, lost, traded, restarts>>

Commit ==
  /\ ~tick.running /\ worker.busy /\ worker.todo = << >>
  /\ durable' = worker.staged
  /\ worker' = Idle
  /\ UNCHANGED <<engineVars, objects, held, queue, lost, traded, restarts>>

\* The database refuses a job or the commit: the batch is rolled back and gone.
FailBatch ==
  /\ ~tick.running /\ worker.busy
  /\ worker' = Idle
  /\ lost' = TRUE
  /\ UNCHANGED <<engineVars, objects, held, queue, durable, traded, restarts>>

-----------------------------------------------------------------------------
\* recover, in a new process.  stop cancels the worker without draining the
\* queue, so an orderly stop loses what a crash loses.  The database is the same
\* whether the process dies inside a call of on_book or before it.

Restorable == {"accepted", "partially_filled", "triggered"}

\* load_pending_orders: a row has no filled quantity, no attached protection and
\* no time in force.  Trailing stops are skipped.
\* Bug: every order that has a row is restored.
EveryRow ==
  {i \in DOMAIN durable.orders : orders[i].type # "trailing_stop"}
RestoredIds ==
  {i \in DOMAIN durable.orders : /\ durable.orders[i] \in Restorable
                                 /\ orders[i].type # "trailing_stop"}
RestoredOrder(i) ==
  [orders[i] EXCEPT !.status = durable.orders[i], !.filled = 0, !.rested = TRUE,
                    !.tif = "gtc", !.stopLoss = NoPrice, !.takeProfit = NoPrice]

\* load_open_positions.  The account has no use for a row of quantity 0 other
\* than its protections: it is restored as no position.
OpenRows(s) == {n \in 1 .. Len(objects[s]) :
                  /\ <<s, n>> \in DOMAIN durable.positions
                  /\ durable.positions[<<s, n>>].open}
RestoredIndex(s) ==
  LET real == {n \in OpenRows(s) : durable.positions[<<s, n>>].object.qty > 0}
  IN IF real = {} THEN 0 ELSE Max(real)
RestoredObject(s) == durable.positions[<<s, RestoredIndex(s)>>].object
RestoredPosition(s) ==
  IF RestoredIndex(s) = 0 THEN Flat
  ELSE LET object == RestoredObject(s)
       IN [Flat EXCEPT !.side = object.side, !.qty = object.qty, !.avg = object.avg,
                       !.realized = object.booked]
RestoredProtection(s) ==
  IF RestoredIndex(s) = 0 THEN NoProtection
  ELSE [stopLoss |-> RestoredObject(s).stopLoss, takeProfit |-> RestoredObject(s).takeProfit]

CaughtUp == queue = << >> /\ ~worker.busy

Restart ==
  /\ ~tick.running /\ restarts < MaxRestarts
  /\ balance' = durable.balance
  /\ positions' = [s \in Symbols |-> RestoredPosition(s)]
  /\ protect' = [s \in Symbols |-> RestoredProtection(s)]
  /\ orders' = [i \in DOMAIN orders |-> IF i \in RestoredIds THEN RestoredOrder(i) ELSE orders[i]]
  /\ pending' = [i \in RestoredIds |-> MaxAge]
  /\ tick' = Quiet
  /\ held' = [s \in Symbols |-> RestoredIndex(s)]
  /\ objects' = [s \in Symbols |->
                   IF RestoredIndex(s) = 0 THEN objects[s]
                   ELSE [objects[s] EXCEPT ![RestoredIndex(s)] = RestoredObject(s)]]
  /\ queue' = << >> /\ worker' = Idle
  /\ lost' = (lost \/ ~CaughtUp)
  /\ restarts' = restarts + 1
  /\ UNCHANGED <<closed, events, cash, net, dust, exits, durable, traded>>

PersistentInit ==
  /\ EngineInit
  /\ objects = [s \in Symbols |-> << >>]
  /\ held = [s \in Symbols |-> 0]
  /\ queue = << >> /\ worker = Idle /\ durable = EmptyTables
  /\ lost = FALSE /\ traded = << >> /\ restarts = 0

Work == TakeBatch \/ WriteJob \/ Commit

PersistentNext == EngineStep \/ Work \/ FailBatch \/ Restart

PersistentSpec == PersistentInit /\ [][PersistentNext]_allVars

\* A call of on_book ends, and the event loop runs a task that is ready before
\* it comes back to the others: the worker gets its turn between the snapshots.
PersistentLiveSpec ==
  PersistentSpec /\ SF_allVars(Work) /\ WF_allVars(EngineStep /\ tick.running)

-----------------------------------------------------------------------------
\* Once the worker has caught up and nothing was lost, a restart finds what the
\* engine holds: it restores the working orders, trailing stops apart, the open
\* rows are the open positions as they are, and the balance is the account's.
CaughtUpMirrors ==
  CaughtUp /\ ~lost =>
    /\ RestoredIds = {i \in PendingIds : orders[i].type # "trailing_stop"}
    /\ \A s \in Symbols :
         /\ OpenRows(s) = {held[s]} \ {0}
         /\ held[s] # 0 =>
              LET row == durable.positions[<<s, held[s]>>].object
              IN /\ row.side = positions[s].side /\ row.qty = positions[s].qty
                 /\ row.avg = positions[s].avg /\ row.booked = Booked(positions[s])
    /\ durable.balance = balance

\* An order whose end is durable stays ended, across late writes, failed
\* batches and restarts, and never works again.
DurableEndIsFinal ==
  [][\A i \in DOMAIN durable.orders :
       durable.orders[i] \notin Restorable =>
         durable'.orders[i] = durable.orders[i] /\ i \notin DOMAIN pending']_allVars

\* The end of every order, filled, cancelled or rejected, is durable at last, as it
\* ended, unless a write was lost.
OrderEndsAreWritten ==
  \A i \in 1 .. MaxOrders :
    (i \in DOMAIN orders /\ IsTerminal(orders[i]))
      ~> (lost \/ (i \in DOMAIN durable.orders /\ durable.orders[i] = orders[i].status))

\* "recovery-on-boot replay" (docs/09-risks-assumptions.md): no order trades
\* more than its quantity, restarts included.
NoOverfillEver == \A i \in DOMAIN orders : traded[i] <= orders[i].qty
=============================================================================
