------------------------- MODULE PersistenceProofs -------------------------
(***************************************************************************)
(* What a crash cannot undo: an order whose end is committed stays ended,  *)
(* whatever the worker writes late, whichever batch fails and however      *)
(* often the process restarts, for every queue and every batch size.  And  *)
(* what a restart finds: once the worker has caught up and nothing was     *)
(* lost, the orders, the positions and the balance of the engine.          *)
(*                                                                         *)
(* DurableInv is the first inductive invariant.  A row that says an order  *)
(* has ended agrees with the order itself (Follows), in the tables and in  *)
(* the transaction that is being built over them (Builds); a job speaks of *)
(* an order that exists (Known); and what is pending is at work (WorksInv).*)
(* A restart breaks the invariant of the engine, since it forgets what an  *)
(* order has filled and drops the orders that no row tells of; so WorksInv *)
(* asks of an order only what a restart keeps.                             *)
(*                                                                         *)
(* MirrorInv is the second.  It reads the tables and the jobs that are     *)
(* still to be written together, in their order: of every order, position  *)
(* and balance, either the row is right already or the job that will make  *)
(* it right waits, with none after it that would spoil it (Mirrored).      *)
(***************************************************************************)
EXTENDS PersistentEngine, PaperEngineProofs

(* A sequence, whatever it holds. *)
Listed(seq) == seq \in Seq(Range(seq))

(* What the engine relies on in an order, before a restart and after it. *)
Shaped(order) == {"status", "type"} \subseteq DOMAIN order /\ order.type \in OrderTypes

(* Orders are pending while they are at work, and a call of on_book works    *)
(* the pending ones.                                                         *)
WorksInv ==
  /\ Listed(orders) /\ \A i \in DOMAIN orders : Shaped(orders[i])
  /\ PendingIds \subseteq DOMAIN orders
  /\ \A i \in PendingIds : orders[i].status \in Restorable
  /\ {"running", "todo"} \subseteq DOMAIN tick /\ tick.todo \subseteq PendingIds
  /\ ~tick.running => tick.todo = {}

(* Jobs of orders that exist. *)
JobKinds == {"order", "position", "close", "equity"}
KnownJob(job, ids) == job.kind \in JobKinds /\ (job.kind = "order" => job.id \in ids)
Known(jobs, ids) == Listed(jobs) /\ \A job \in Range(jobs) : KnownJob(job, ids)

(* No row is of an unknown order, or says that an order has ended which has  *)
(* not, or has ended otherwise.                                              *)
Follows(tables) ==
  /\ "orders" \in DOMAIN tables
  /\ DOMAIN tables.orders \subseteq DOMAIN orders
  /\ \A i \in DOMAIN tables.orders :
       tables.orders[i] \notin Restorable => tables.orders[i] = orders[i].status

(* The transaction keeps every end that the tables tell of. *)
Builds ==
  \A i \in DOMAIN durable.orders :
    /\ i \in DOMAIN worker.staged.orders
    /\ durable.orders[i] \notin Restorable => worker.staged.orders[i] = durable.orders[i]

WorkerInv ==
  /\ {"todo", "staged"} \subseteq DOMAIN worker
  /\ Known(worker.todo, DOMAIN orders) /\ Follows(worker.staged)
  /\ worker.busy => Builds

DurableInv ==
  /\ WorksInv
  /\ Known(queue, DOMAIN orders) /\ Len(queue) <= QueueSize
  /\ Follows(durable) /\ WorkerInv

-----------------------------------------------------------------------------
(* Sequences, whatever they hold.                                            *)

\* The length and the elements of a sequence.
LEMMA ListedShape ==
  ASSUME NEW seq, Listed(seq)
  PROVE  /\ Len(seq) \in Nat /\ DOMAIN seq = 1 .. Len(seq)
         /\ \A k \in 1 .. Len(seq) : seq[k] \in Range(seq)
  BY LenProperties DEF Listed

\* Whatever has its elements in a set is a sequence.
LEMMA SequenceIsListed ==
  ASSUME NEW S, NEW seq \in Seq(S)
  PROVE  Listed(seq) /\ Range(seq) \subseteq S
<1>1. Len(seq) \in Nat /\ seq \in [1 .. Len(seq) -> S] /\ DOMAIN seq = 1 .. Len(seq)
  BY LenProperties
<1>2. Range(seq) = {seq[k] : k \in 1 .. Len(seq)}
  BY <1>1 DEF Range
<1>3. Range(seq) \subseteq S
  BY <1>1, <1>2
<1>4. seq \in [1 .. Len(seq) -> Range(seq)]
  BY <1>1, <1>2
<1> QED
  BY <1>1, <1>3, <1>4 DEF Listed

\* A function on an initial segment is a sequence.
LEMMA FunctionIsListed ==
  ASSUME NEW n \in Nat, NEW f, f = [k \in 1 .. n |-> f[k]]
  PROVE  Listed(f) /\ Len(f) = n
<1> DEFINE S == {f[k] : k \in 1 .. n}
<1>1. f \in [1 .. n -> S]
  OBVIOUS
<1> HIDE DEF S
<1>2. f \in Seq(S)
  BY <1>1
<1>3. DOMAIN f = 1 .. n
  BY <1>1
<1>4. Len(f) = n
  BY <1>2, <1>3, LenProperties
<1> QED
  BY <1>2, <1>4, SequenceIsListed

\* Two sequences one after the other.
LEMMA JoinedIsListed ==
  ASSUME NEW a, NEW b, Listed(a), Listed(b)
  PROVE  /\ Listed(a \o b) /\ Len(a \o b) = Len(a) + Len(b)
         /\ Range(a \o b) \subseteq Range(a) \union Range(b)
         /\ \A k \in 1 .. Len(a) + Len(b) :
              (a \o b)[k] = IF k <= Len(a) THEN a[k] ELSE b[k - Len(a)]
<1> DEFINE S == Range(a) \union Range(b)
<1>1. a \in Seq(S) /\ b \in Seq(S)
  <2>1. a \in Seq(Range(a)) /\ b \in Seq(Range(b)) /\ Range(a) \subseteq S /\ Range(b) \subseteq S
    BY DEF Listed
  <2> HIDE DEF S
  <2> QED
    BY <2>1, SeqMonotonic
<1> HIDE DEF S
<1>2. /\ a \o b \in Seq(S) /\ Len(a \o b) = Len(a) + Len(b)
      /\ \A k \in 1 .. Len(a) + Len(b) :
           (a \o b)[k] = IF k <= Len(a) THEN a[k] ELSE b[k - Len(a)]
  BY <1>1, ConcatProperties
<1> QED
  BY <1>2, SequenceIsListed DEF S

-----------------------------------------------------------------------------
(* Jobs on the queue, and in the batch of the worker.                        *)

\* A sequence of jobs from a known set is known.
LEMMA JobsAreKnown ==
  ASSUME NEW ids, NEW S, \A job \in S : KnownJob(job, ids), NEW jobs \in Seq(S)
  PROVE  Known(jobs, ids)
  BY SequenceIsListed DEF Known

\* No jobs are known.
LEMMA NoJobsAreKnown ==
  ASSUME NEW ids
  PROVE  Known(<< >>, ids) /\ Len(<< >>) = 0
<1>1. << >> \in Seq({})
  OBVIOUS
<1> QED
  BY <1>1, JobsAreKnown

\* What is taken out of known jobs is known.
LEMMA PartIsKnown ==
  ASSUME NEW ids, NEW jobs, Known(jobs, ids), NEW m \in Nat \ {0}, NEW n \in Int, n <= Len(jobs)
  PROVE  /\ Known(SubSeq(jobs, m, n), ids)
         /\ Len(SubSeq(jobs, m, n)) = IF m <= n THEN n - m + 1 ELSE 0
<1>1. Len(jobs) \in Nat /\ \A k \in 1 .. Len(jobs) : jobs[k] \in Range(jobs)
  BY ListedShape DEF Known
<1>2. \A k \in m .. n : jobs[k] \in Range(jobs)
  BY <1>1
<1>3. /\ SubSeq(jobs, m, n) \in Seq(Range(jobs))
      /\ Len(SubSeq(jobs, m, n)) = IF m <= n THEN n - m + 1 ELSE 0
  BY <1>2, SubSeqProperties
<1> QED
  BY <1>3, JobsAreKnown DEF Known

\* Known jobs after known jobs are known.
LEMMA JoinedAreKnown ==
  ASSUME NEW ids, NEW a, NEW b, Known(a, ids), Known(b, ids)
  PROVE  Known(a \o b, ids) /\ Len(a \o b) = Len(a) + Len(b)
  BY JoinedIsListed DEF Known

\* The rest of a batch is known, and so is its first job.
LEMMA RestIsKnown ==
  ASSUME NEW ids, NEW jobs, Known(jobs, ids), jobs # << >>
  PROVE  Known(Tail(jobs), ids) /\ KnownJob(Head(jobs), ids)
<1>1. jobs \in Seq(Range(jobs)) /\ \A job \in Range(jobs) : KnownJob(job, ids)
  BY DEF Known, Listed
<1>2. Head(jobs) \in Range(jobs) /\ Tail(jobs) \in Seq(Range(jobs))
  BY <1>1, HeadTailProperties
<1> QED
  BY <1>1, <1>2, JobsAreKnown

-----------------------------------------------------------------------------
(* The engine under the worker.                                              *)

(* What a step of the engine does to the orders and the queue: an order that *)
(* does not work stays as it is and does not come back.                      *)
QueueStep ==
  /\ DOMAIN orders \subseteq DOMAIN orders'
  /\ \A i \in DOMAIN orders \ PendingIds : orders'[i] = orders[i] /\ i \notin PendingIds'

\* The jobs of the notified orders speak of orders that exist.
LEMMA OrderJobsAreKnown ==
  ASSUME Listed(orders')
  PROVE  Known(OrderJobs, DOMAIN orders')
<1> DEFINE D == DOMAIN orders'
           N == Notified
           seq == InOrder(N)
<1>1. Len(orders') \in Nat /\ D = 1 .. Len(orders')
  BY ListedShape
<1>2. IsFiniteSet(D) /\ D \subseteq Nat /\ N \subseteq D
  BY <1>1, FS_Interval DEF Notified
<1>3. IsFiniteSet(N) /\ N \in SUBSET Int
  BY <1>2, FS_Subset
<1>4. Cardinality(N) \in Nat /\ AscendingIn(N, seq)
  BY <1>3, InOrderIsOrdered, FS_CardinalityType
<1> HIDE DEF D, N
<1> DEFINE S == {OrderJob(i) : i \in D}
<1>5. \A k \in 1 .. Cardinality(N) : seq[k] \in D
  BY <1>2, <1>4 DEF AscendingIn
<1>6. OrderJobs = [k \in 1 .. Cardinality(N) |-> OrderJob(seq[k])]
  BY DEF OrderJobs, N
<1> HIDE DEF seq
<1>7. OrderJobs \in Seq(S)
  BY <1>4, <1>5, <1>6
<1>8. \A job \in S : KnownJob(job, D)
  BY DEF OrderJob, KnownJob, JobKinds
<1> HIDE DEF S
<1> QED
  BY <1>7, <1>8, JobsAreKnown DEF D

\* One job that is not of an order is known.
LEMMA OtherJobIsKnown ==
  ASSUME NEW ids, NEW job, job.kind \in JobKinds \ {"order"}
  PROVE  Known(<<job>>, ids)
<1>1. <<job>> \in Seq({job}) /\ \A j \in {job} : KnownJob(j, ids)
  BY DEF KnownJob
<1> QED
  BY <1>1, JobsAreKnown

\* So do those of a fill: they are of positions and of the balance.
LEMMA FillJobsAreKnown ==
  ASSUME NEW ids, NEW s
  PROVE  Known(FillJobs(s), ids)
<1>1. /\ Known(<<CloseJob(s, held[s])>>, ids) /\ Known(<<PositionJob(s, HeldAfter(s))>>, ids)
      /\ Known(<<EquityJob(balance')>>, ids)
  <2>1. /\ CloseJob(s, held[s]).kind = "close" /\ PositionJob(s, HeldAfter(s)).kind = "position"
        /\ EquityJob(balance').kind = "equity"
    BY DEF CloseJob, PositionJob, EquityJob
  <2> QED
    BY <2>1, OtherJobIsKnown DEF JobKinds
<1> DEFINE a == IF Ends(s) THEN <<CloseJob(s, held[s])>> ELSE << >>
           b == IF IsOpen(positions'[s]) THEN <<PositionJob(s, HeldAfter(s))>> ELSE << >>
           c == <<EquityJob(balance')>>
<1>2. Known(a, ids) /\ Known(b, ids) /\ Known(c, ids)
  BY <1>1, NoJobsAreKnown
<1>3. FillJobs(s) = a \o b \o c
  BY DEF FillJobs
<1> HIDE DEF a, b, c
<1>4. Known(a \o b, ids)
  BY <1>2, JoinedAreKnown
<1>5. Known(a \o b \o c, ids)
  BY <1>2, <1>4, JoinedAreKnown
<1> QED
  BY <1>3, <1>5

\* The queue takes what it has room for, and stays within its size.
LEMMA OfferKeepsQueue ==
  ASSUME Known(queue, DOMAIN orders), Len(queue) <= QueueSize,
         DOMAIN orders \subseteq DOMAIN orders', Listed(orders'),
         queue' = queue \o Offered(Jobs)
  PROVE  Known(queue, DOMAIN orders)' /\ Len(queue') <= QueueSize
<1> DEFINE D == DOMAIN orders'
           fillJobs == IF events' # events THEN FillJobs(tick.book.symbol) ELSE << >>
           room == QueueSize - Len(queue)
<1>1. Known(Jobs, D)
  <2>1. Known(fillJobs, D) /\ Known(OrderJobs, D)
    BY FillJobsAreKnown, NoJobsAreKnown, OrderJobsAreKnown
  <2>2. Jobs = fillJobs \o OrderJobs
    BY DEF Jobs
  <2> HIDE DEF D, fillJobs
  <2> QED
    BY <2>1, <2>2, JoinedAreKnown
<1>2. Known(queue, D) /\ Len(queue) \in Nat
  BY ListedShape DEF Known, KnownJob
<1>3. room \in Nat /\ QueueSize \in Nat
  BY <1>2, PersistenceAssumption
<1>4. Len(Jobs) \in Nat
  BY <1>1, ListedShape DEF Known
<1> HIDE DEF D
<1>5. Known(Offered(Jobs), D) /\ Len(Offered(Jobs)) \in Nat /\ Len(Offered(Jobs)) <= room
  <2>1. CASE Len(Jobs) <= room
    <3>1. Offered(Jobs) = Jobs
      BY <2>1 DEF Offered
    <3> QED
      BY <1>1, <1>4, <2>1, <3>1
  <2>2. CASE ~(Len(Jobs) <= room)
    <3>1. Offered(Jobs) = SubSeq(Jobs, 1, room)
      BY <2>2 DEF Offered
    <3>2. room <= Len(Jobs)
      BY <1>3, <1>4, <2>2
    <3> HIDE DEF room
    <3>3. /\ Known(SubSeq(Jobs, 1, room), D)
          /\ Len(SubSeq(Jobs, 1, room)) = IF 1 <= room THEN room - 1 + 1 ELSE 0
      BY <1>1, <1>3, <3>2, PartIsKnown
    <3> QED
      BY <1>3, <3>1, <3>3
  <2> QED
    BY <2>1, <2>2
<1>6. /\ Known(queue \o Offered(Jobs), D)
      /\ Len(queue \o Offered(Jobs)) = Len(queue) + Len(Offered(Jobs))
  BY <1>2, <1>5, JoinedAreKnown
<1> QED
  BY <1>2, <1>3, <1>5, <1>6 DEF D

\* Writing a field of an order other than its type leaves it an order.
LEMMA WrittenOrder ==
  ASSUME NEW order, Shaped(order), NEW v
  PROVE  /\ Shaped([order EXCEPT !.status = v]) /\ [order EXCEPT !.status = v].status = v
         /\ Shaped([order EXCEPT !.filled = v]) /\ Shaped([order EXCEPT !.rested = v])
         /\ Shaped([order EXCEPT !.extreme = v])
  BY DEF Shaped

\* An order of the engine is one.
LEMMA OrderIsShaped ==
  ASSUME NEW order \in Orders
  PROVE  Shaped(order)
  BY DEF Shaped, Orders

\* A status that the engine gives to an order it has taken.
LEMMA StatusOfSubmitted == "accepted" \in Restorable
  BY DEF Restorable

\* Orders arrive and others make room: what did not work stays as it was.
LEMMA ArrivalKeepsWorks ==
  ASSUME WorksInv, ~tick.running, UNCHANGED tick,
         NEW batch, Listed(batch), \A k \in DOMAIN batch : Shaped(batch[k]),
         NEW gone \in SUBSET PendingIds,
         orders' = Cancelled(gone) \o AfterSubmit(batch),
         PendingIds' = (PendingIds \ gone) \union AcceptedIds(batch)
  PROVE  WorksInv' /\ QueueStep
<1> DEFINE n == Len(orders)
           m == Len(batch)
           old == Cancelled(gone)
           new == AfterSubmit(batch)
<1>1. /\ n \in Nat /\ DOMAIN orders = 1 .. n /\ m \in Nat /\ DOMAIN batch = 1 .. m
  BY ListedShape DEF WorksInv
<1>2. /\ Listed(old) /\ Len(old) = n
      /\ \A i \in 1 .. n : Shaped(old[i]) /\ (i \notin gone => old[i] = orders[i])
  <2>1. old = [i \in 1 .. n |-> old[i]]
    BY <1>1 DEF Cancelled
  <2>2. \A i \in 1 .. n : old[i] = IF i \in gone THEN [orders[i] EXCEPT !.status = "cancelled"]
                                   ELSE orders[i]
    BY <1>1 DEF Cancelled
  <2> HIDE DEF old
  <2>3. ASSUME NEW i \in 1 .. n
        PROVE  Shaped(old[i]) /\ (i \notin gone => old[i] = orders[i])
    <3>1. Shaped(orders[i])
      BY <1>1 DEF WorksInv
    <3>2. Shaped([orders[i] EXCEPT !.status = "cancelled"])
      BY <3>1, WrittenOrder
    <3> QED
      BY <2>2, <3>1, <3>2
  <2> QED
    BY <1>1, <2>1, <2>3, FunctionIsListed
<1>3. /\ Listed(new) /\ Len(new) = m
      /\ \A k \in 1 .. m : /\ Shaped(new[k])
                           /\ Admissible(batch[k]) => new[k].status \in Restorable
  <2>1. new = [k \in 1 .. m |-> new[k]]
    BY <1>1 DEF AfterSubmit
  <2>2. \A k \in 1 .. m : new[k] = [batch[k] EXCEPT !.status =
                            IF Admissible(batch[k]) THEN "accepted" ELSE "rejected"]
    BY <1>1 DEF AfterSubmit
  <2> HIDE DEF new
  <2>3. ASSUME NEW k \in 1 .. m
        PROVE  Shaped(new[k]) /\ (Admissible(batch[k]) => new[k].status \in Restorable)
    <3> DEFINE st == IF Admissible(batch[k]) THEN "accepted" ELSE "rejected"
    <3>1. Shaped(batch[k])
      BY <1>1
    <3>2. new[k] = [batch[k] EXCEPT !.status = st]
      BY <2>2
    <3>3. Admissible(batch[k]) => st \in Restorable
      BY StatusOfSubmitted
    <3> HIDE DEF st
    <3>4. /\ Shaped([batch[k] EXCEPT !.status = st])
          /\ [batch[k] EXCEPT !.status = st].status = st
      BY <3>1, WrittenOrder
    <3> QED
      BY <3>2, <3>3, <3>4
  <2> QED
    BY <1>1, <2>1, <2>3, FunctionIsListed
<1>4. /\ Listed(orders') /\ Len(orders') = n + m
      /\ \A i \in 1 .. n + m : orders'[i] = IF i <= n THEN old[i] ELSE new[i - n]
  <2> HIDE DEF old, new
  <2> QED
    BY <1>2, <1>3, JoinedIsListed DEF old, new
<1>5. AcceptedIds(batch) = {n + k : k \in {j \in 1 .. m : Admissible(batch[j])}}
  BY <1>1 DEF AcceptedIds
<1> HIDE DEF n, m, old, new
<1>6. DOMAIN orders' = 1 .. n + m /\ DOMAIN orders \subseteq DOMAIN orders'
  BY <1>1, <1>4, ListedShape
<1>7. \A i \in 1 .. n : orders'[i] = old[i]
  BY <1>1, <1>4
<1>8. \A k \in 1 .. m : n + k \in 1 .. n + m /\ n + k \notin 1 .. n /\ orders'[n + k] = new[k]
  BY <1>1, <1>4
<1>9. ASSUME NEW i \in 1 .. n + m PROVE Shaped(orders'[i])
  <2>1. i \in 1 .. n \/ \E k \in 1 .. m : i = n + k
    <3>1. i \in 1 .. n \/ (i - n \in 1 .. m /\ i = n + (i - n))
      BY <1>1
    <3> QED
      BY <3>1
  <2> QED
    BY <1>2, <1>3, <1>7, <1>8, <2>1
<1>10. PendingIds \subseteq 1 .. n /\ \A i \in PendingIds : orders[i].status \in Restorable
  BY <1>1 DEF WorksInv
<1>11. ASSUME NEW i \in PendingIds' PROVE i \in 1 .. n + m /\ orders'[i].status \in Restorable
  <2>1. CASE i \in PendingIds \ gone
    BY <1>1, <1>2, <1>6, <1>7, <1>10, <2>1
  <2>2. CASE i \in AcceptedIds(batch)
    <3>1. PICK k \in 1 .. m : Admissible(batch[k]) /\ i = n + k
      BY <1>5, <2>2
    <3> QED
      BY <1>3, <1>8, <3>1
  <2> QED
    BY <1>11, <2>1, <2>2
<1>12. WorksInv'
  BY <1>4, <1>6, <1>9, <1>11 DEF WorksInv
<1>13. ASSUME NEW i \in DOMAIN orders \ PendingIds
       PROVE  orders'[i] = orders[i] /\ i \notin PendingIds'
  BY <1>1, <1>2, <1>5, <1>7, <1>8
<1> QED
  BY <1>6, <1>12, <1>13 DEF QueueStep

\* A client submits an order.
LEMMA SubmitKeepsWorks ==
  ASSUME WorksInv, NEW order \in Requests, Calm, Submit(order)
  PROVE  WorksInv' /\ QueueStep
<1>1. Shaped(order)
  BY RequestAssumption, OrderIsShaped DEF IsNew
<1>2. Listed(<<order>>) /\ \A k \in DOMAIN <<order>> : Shaped(<<order>>[k])
  <2>1. <<order>> \in Seq({order}) /\ DOMAIN <<order>> = {1} /\ <<order>>[1] = order
    OBVIOUS
  <2>2. Listed(<<order>>)
    BY <2>1, SequenceIsListed
  <2> QED
    BY <1>1, <2>1, <2>2
<1>3. orders = Cancelled({})
  <2>1. orders = [i \in DOMAIN orders |-> orders[i]]
    BY DEF WorksInv, Listed
  <2> QED
    BY <2>1 DEF Cancelled
<1>4. orders' = Cancelled({}) \o AfterSubmit(<<order>>)
  BY <1>3 DEF Submit
<1>5. PendingIds' = (PendingIds \ {}) \union AcceptedIds(<<order>>)
  BY DEF Submit, With, PendingIds
<1> QED
  BY <1>2, <1>4, <1>5, ArrivalKeepsWorks DEF Calm

\* A client cancels one.
LEMMA CancelKeepsWorks ==
  ASSUME WorksInv, NEW id, Calm, Cancel(id)
  PROVE  WorksInv' /\ QueueStep
<1>1. AfterSubmit(<< >>) = << >> /\ AcceptedIds(<< >>) = {}
  BY DEF AfterSubmit, AcceptedIds
<1>2. Listed(<< >>) /\ DOMAIN << >> = {}
  <2>1. << >> \in Seq({}) /\ DOMAIN << >> = {}
    OBVIOUS
  <2>2. Listed(<< >>)
    BY <2>1, SequenceIsListed
  <2> QED
    BY <2>1, <2>2
<1>3. Listed(Cancelled({id}))
  <2>1. Len(orders) \in Nat /\ DOMAIN orders = 1 .. Len(orders)
    BY ListedShape DEF WorksInv
  <2>2. Cancelled({id}) = [i \in 1 .. Len(orders) |-> Cancelled({id})[i]]
    BY <2>1 DEF Cancelled
  <2> QED
    BY <2>1, <2>2, FunctionIsListed
<1>4. orders' = Cancelled({id}) \o AfterSubmit(<< >>)
  BY <1>1, <1>3, ConcatEmptySeq DEF Cancel, Listed
<1>5. PendingIds' = (PendingIds \ {id}) \union AcceptedIds(<< >>)
  BY <1>1 DEF Cancel, Without, Restrict, PendingIds
<1>6. {id} \in SUBSET PendingIds
  BY DEF Cancel
<1> QED
  BY <1>2, <1>4, <1>5, <1>6, ArrivalKeepsWorks DEF Calm

\* flatten_all.
LEMMA FlattenKeepsWorks ==
  ASSUME WorksInv, Calm, FlattenAll
  PROVE  WorksInv' /\ QueueStep
<1> DEFINE batch == ExitOrders("kill_switch")
           open == SetToSeq(OpenSymbols)
<1>1. open \in Seq(OpenSymbols)
  BY SymbolAssumption, FS_Subset, SetListed DEF OpenSymbols
<1>2. Len(open) \in Nat /\ DOMAIN open = 1 .. Len(open)
  BY <1>1, LenProperties
<1>3. \A s : Shaped(ExitOrder(s, "kill_switch"))
  BY DEF ExitOrder, BlankOrder, Shaped, OrderTypes
<1>4. /\ batch = [k \in 1 .. Len(open) |-> batch[k]]
      /\ \A k \in 1 .. Len(open) : batch[k] = ExitOrder(open[k], "kill_switch")
  BY <1>2 DEF ExitOrders
<1>5. Listed(batch) /\ \A k \in DOMAIN batch : Shaped(batch[k])
  <2> HIDE DEF batch, open
  <2>1. Listed(batch) /\ DOMAIN batch = 1 .. Len(open)
    BY <1>2, <1>4, FunctionIsListed
  <2> QED
    BY <1>3, <1>4, <2>1
<1>6. orders' = Cancelled(PendingIds) \o AfterSubmit(batch)
  BY DEF FlattenAll
<1>7. PendingIds' = (PendingIds \ PendingIds) \union AcceptedIds(batch)
  BY DEF FlattenAll, PendingIds
<1> HIDE DEF batch
<1> QED
  BY <1>5, <1>6, <1>7, ArrivalKeepsWorks DEF Calm

(* What try_fill hands back, whatever the order has been through. *)
Handed(result) ==
  /\ Shaped(result.order)
  /\ result.status \in Restorable \union {"filled", "cancelled", "rejected"}

\* A market fill hands back the order, filled.
LEMMA FillMarketHands ==
  ASSUME NEW order, Shaped(order), NEW book
  PROVE  Handed(FillMarket(order, book))
<1> DEFINE after == [order EXCEPT !.filled = order.qty]
<1>1. FillMarket(order, book).order = after /\ FillMarket(order, book).status = "filled"
  BY DEF FillMarket, Result
<1>2. Shaped(after)
  BY WrittenOrder
<1> HIDE DEF after
<1> QED
  BY <1>1, <1>2 DEF Handed

\* A limit order is handed back filled, in part or whole, resting or refused.
LEMMA FillLimitHands ==
  ASSUME NEW order, Shaped(order), NEW book
  PROVE  Handed(FillLimit(order, book))
<1> DEFINE done == order.filled + LimitQty(order, book)
           result == FillLimit(order, book)
<1>1. /\ Shaped([order EXCEPT !.filled = order.qty]) /\ Shaped([order EXCEPT !.filled = done])
      /\ Shaped([order EXCEPT !.rested = TRUE])
  <2> HIDE DEF done
  <2> QED
    BY WrittenOrder
<1>2. CASE Marketable(order, book) /\ order.tif = "post_only" /\ ~order.rested
  <2>1. result.order = order /\ result.status = "rejected"
    BY <1>2 DEF FillLimit, Result
  <2> QED
    BY <2>1 DEF Handed
<1>3. CASE Marketable(order, book) /\ order.tif = "post_only" /\ order.rested
  <2>1. result.order = [order EXCEPT !.filled = order.qty] /\ result.status = "filled"
    BY <1>3 DEF FillLimit, Result
  <2> QED
    BY <1>1, <2>1 DEF Handed
<1>4. CASE Marketable(order, book) /\ order.tif # "post_only"
  <2>1. /\ result.order = [order EXCEPT !.filled = done]
        /\ result.status = IF done = order.qty THEN "filled" ELSE "partially_filled"
    BY <1>4 DEF FillLimit, Result
  <2> HIDE DEF done
  <2> QED
    BY <1>1, <2>1 DEF Handed, Restorable
<1>5. CASE ~Marketable(order, book)
  <2>1. /\ result.order = [order EXCEPT !.rested = TRUE]
        /\ result.status = IF order.tif = "ioc" THEN "cancelled" ELSE "accepted"
    BY <1>5 DEF FillLimit, Result
  <2> QED
    BY <1>1, <2>1 DEF Handed, Restorable
<1> QED
  BY <1>2, <1>3, <1>4, <1>5

\* An order that waits on is handed back as accepted.
LEMMA WaitingIsHanded ==
  ASSUME NEW order, Shaped(order)
  PROVE  Handed(Result(order, NoFill, "accepted"))
  BY DEF Handed, Result, Restorable

\* Every type of order is handed back with a status that is not "new".
LEMMA TryFillHands ==
  ASSUME NEW order, Shaped(order), NEW book
  PROVE  Handed(TryFill(order, book))
<1> DEFINE noted == [order EXCEPT !.status = "triggered"]
           trailed == [order EXCEPT !.extreme = Extreme(order, book)]
<1>1. Shaped(noted) /\ Shaped(trailed)
  BY WrittenOrder
<1>2. Handed(FillMarket(noted, book)) /\ Handed(FillLimit(noted, book))
  BY <1>1, FillMarketHands, FillLimitHands
<1>3. Handed(FillMarket(trailed, book))
  BY <1>1, FillMarketHands
<1>4. Handed(FillMarket(order, book)) /\ Handed(FillLimit(order, book))
  BY FillMarketHands, FillLimitHands
<1>5. Handed(Result(order, NoFill, "accepted")) /\ Handed(Result(trailed, NoFill, "accepted"))
  BY <1>1, WaitingIsHanded
<1> HIDE DEF noted, trailed
<1>6. Handed(MaybeTriggerThenMarket(order, book)) /\ Handed(MaybeTriggerStopLimit(order, book))
  BY <1>2, <1>5 DEF MaybeTriggerThenMarket, MaybeTriggerStopLimit, noted
<1>7. Handed(UpdateTrailing(order, book))
  BY <1>3, <1>5 DEF UpdateTrailing, trailed
<1>8. order.type \in OrderTypes
  BY DEF Shaped
<1> QED
  BY <1>4, <1>6, <1>7, <1>8 DEF TryFill, OrderTypes

\* on_book works a pending order.
LEMMA WorkOrderKeepsWorks ==
  ASSUME WorksInv, WorkOrder
  PROVE  WorksInv' /\ QueueStep
<1> DEFINE id == Min(tick.todo)
           result == TryFill(orders[id], tick.book)
           settled == [result.order EXCEPT !.status = result.status]
<1>1. /\ tick.running /\ tick.todo # {}
      /\ orders' = [orders EXCEPT ![id] = settled]
      /\ pending' = IF IsTerminal(settled) THEN Without({id}) ELSE pending
      /\ tick' = [tick EXCEPT !.todo = tick.todo \ {id}]
  BY DEF WorkOrder
<1>2. Len(orders) \in Nat /\ DOMAIN orders = 1 .. Len(orders)
  BY ListedShape DEF WorksInv
<1>3. id \in tick.todo
  <2>1. tick.todo \subseteq Nat
    BY <1>2 DEF WorksInv
  <2> QED
    BY <1>1, <2>1, MinIsMember
<1>4. id \in PendingIds /\ id \in DOMAIN orders /\ Shaped(orders[id])
  BY <1>3 DEF WorksInv
<1> HIDE DEF id
<1>5. Handed(result)
  BY <1>4, TryFillHands
<1> HIDE DEF result
<1>6. Shaped(settled) /\ settled.status = result.status
  BY <1>5, WrittenOrder DEF Handed
<1>7. ~IsTerminal(settled) => settled.status \in Restorable
  BY <1>5, <1>6 DEF Handed, IsTerminal
<1> HIDE DEF settled
<1>8. /\ orders'[id] = settled /\ DOMAIN orders' = DOMAIN orders
      /\ \A i \in DOMAIN orders \ {id} : orders'[i] = orders[i]
  BY <1>1, <1>4
<1>9. Listed(orders')
  <2>1. orders' = [i \in 1 .. Len(orders) |-> orders'[i]]
    BY <1>1, <1>2
  <2> QED
    BY <1>2, <2>1, FunctionIsListed
<1>10. PendingIds' = IF IsTerminal(settled) THEN PendingIds \ {id} ELSE PendingIds
  BY <1>1 DEF PendingIds, Without, Restrict
<1>11. \A i \in PendingIds' : orders'[i].status \in Restorable
  BY <1>4, <1>7, <1>8, <1>10 DEF WorksInv
<1>12. /\ {"running", "todo"} \subseteq DOMAIN tick' /\ tick'.todo = tick.todo \ {id}
       /\ tick'.running = tick.running
  BY <1>1 DEF WorksInv
<1>13. WorksInv'
  BY <1>1, <1>6, <1>8, <1>9, <1>10, <1>11, <1>12 DEF WorksInv
<1>14. QueueStep
  BY <1>4, <1>8, <1>10 DEF QueueStep
<1> QED
  BY <1>13, <1>14

\* Whatever leaves the orders and the queue alone keeps them.
LEMMA SameOrdersWork ==
  ASSUME WorksInv, UNCHANGED orders, PendingIds' = PendingIds,
         {"running", "todo"} \subseteq DOMAIN tick', tick'.todo \subseteq PendingIds,
         ~tick'.running => tick'.todo = {}
  PROVE  WorksInv' /\ QueueStep
  BY DEF WorksInv, QueueStep

\* Every step of the engine keeps what is pending at work.
LEMMA EngineStepWorks ==
  ASSUME WorksInv, EngineNext
  PROVE  WorksInv' /\ QueueStep
<1>1. CASE \E order \in Requests : Calm /\ Submit(order)
  BY <1>1, SubmitKeepsWorks
<1>2. CASE \E id \in PendingIds : Calm /\ Cancel(id)
  BY <1>2, CancelKeepsWorks
<1>3. CASE Calm /\ FlattenAll
  BY <1>3, FlattenKeepsWorks
<1>4. CASE \E s \in Symbols, stop, target \in ProtectPrices \union {NoPrice} :
             Calm /\ Protect(s, stop, target)
  <2>1. UNCHANGED <<orders, pending, tick>>
    BY <1>4 DEF Protect, Calm
  <2> QED
    BY <2>1, SameOrdersWork DEF WorksInv, PendingIds
<1>5. CASE Calm /\ Elapse
  <2>1. UNCHANGED <<orders, tick>> /\ pending' = [i \in PendingIds |-> Older(pending[i])]
    BY <1>5 DEF Elapse, Calm
  <2>2. PendingIds' = PendingIds
    BY <2>1 DEF PendingIds
  <2> QED
    BY <2>1, <2>2, SameOrdersWork DEF WorksInv
<1>6. ASSUME NEW book \in Books, ~tick.running, OnBook(book) PROVE WorksInv' /\ QueueStep
  <2>1. UNCHANGED <<orders, pending>> /\ tick' = Running(book)
    BY <1>6 DEF OnBook
  <2>2. /\ {"running", "todo"} \subseteq DOMAIN tick' /\ tick'.todo = Eligible(pending, orders, book)
        /\ tick'.running
    BY <2>1 DEF Running
  <2>3. tick'.todo \subseteq PendingIds
    BY <2>2 DEF Eligible, PendingIds
  <2> QED
    BY <2>1, <2>2, <2>3, SameOrdersWork DEF PendingIds
<1>7. CASE WorkOrder
  BY <1>7, WorkOrderKeepsWorks
<1>8. CASE EndTick
  <2>1. UNCHANGED <<orders, pending>> /\ tick' = Quiet
    BY <1>8 DEF EndTick
  <2>2. {"running", "todo"} \subseteq DOMAIN tick' /\ tick'.todo = {}
    BY <2>1 DEF Quiet
  <2> QED
    BY <2>1, <2>2, SameOrdersWork DEF PendingIds
<1> QED
  BY <1>1, <1>2, <1>3, <1>4, <1>5, <1>6, <1>7, <1>8 DEF EngineNext

-----------------------------------------------------------------------------
(* The worker, and the restart.                                              *)

\* What followed the orders before a step of the engine follows them after it.
LEMMA StillFollows ==
  ASSUME WorksInv, QueueStep, NEW tables, Follows(tables)
  PROVE  /\ DOMAIN tables.orders \subseteq DOMAIN orders'
         /\ \A i \in DOMAIN tables.orders :
              tables.orders[i] \notin Restorable => tables.orders[i] = orders'[i].status
  BY DEF WorksInv, QueueStep, Follows

\* Jobs that were known stay known.
LEMMA StillKnown ==
  ASSUME QueueStep, NEW jobs, Known(jobs, DOMAIN orders)
  PROVE  Known(jobs, DOMAIN orders')
  BY DEF Known, KnownJob, QueueStep

\* A fresh process on an empty database.
LEMMA DurableInitial == PersistentInit => DurableInv
<1> SUFFICES ASSUME PersistentInit PROVE DurableInv
  OBVIOUS
<1>1. /\ orders = << >> /\ pending = << >> /\ tick = Quiet /\ queue = << >>
      /\ worker = Idle /\ durable = EmptyTables
  BY DEF PersistentInit, EngineInit
<1>2. Listed(<< >>) /\ DOMAIN << >> = {}
  <2>1. << >> \in Seq({}) /\ DOMAIN << >> = {}
    OBVIOUS
  <2>2. Listed(<< >>)
    BY <2>1, SequenceIsListed
  <2> QED
    BY <2>1, <2>2
<1>3. WorksInv
  BY <1>1, <1>2 DEF WorksInv, Quiet, PendingIds
<1>4. Follows(EmptyTables)
  BY <1>2 DEF Follows, EmptyTables
<1>5. WorkerInv
  BY <1>1, <1>4, NoJobsAreKnown DEF WorkerInv, Idle
<1> QED
  BY <1>1, <1>3, <1>4, <1>5, NoJobsAreKnown, PersistenceAssumption DEF DurableInv

\* The engine goes on under the worker.
LEMMA EngineKeepsDurable ==
  ASSUME DurableInv, EngineStep
  PROVE  DurableInv' /\ QueueStep
<1>1. WorksInv' /\ QueueStep
  BY EngineStepWorks DEF DurableInv, EngineStep
<1>2. UNCHANGED <<worker, durable>> /\ queue' = queue \o Offered(Jobs)
  BY DEF EngineStep
<1>3. Known(queue, DOMAIN orders)' /\ Len(queue') <= QueueSize
  BY <1>1, <1>2, OfferKeepsQueue DEF DurableInv, WorksInv, QueueStep
<1>4. Follows(durable)' /\ Follows(worker.staged)'
  BY <1>1, <1>2, StillFollows DEF DurableInv, WorkerInv, Follows
<1>5. Known(worker.todo, DOMAIN orders)'
  BY <1>1, <1>2, StillKnown DEF DurableInv, WorkerInv
<1>6. WorkerInv'
  BY <1>2, <1>4, <1>5 DEF DurableInv, WorkerInv, Builds
<1> QED
  BY <1>1, <1>3, <1>4, <1>6 DEF DurableInv

\* The worker takes a batch and opens a transaction on the tables as they are.
LEMMA TakeBatchKeepsDurable ==
  ASSUME DurableInv, TakeBatch
  PROVE  DurableInv'
<1> DEFINE size == Min({Len(queue), BatchSize})
<1>1. /\ worker' = [busy |-> TRUE, todo |-> SubSeq(queue, 1, size), staged |-> durable]
      /\ queue' = SubSeq(queue, size + 1, Len(queue)) /\ queue # << >>
      /\ UNCHANGED <<orders, pending, tick, durable>>
  BY DEF TakeBatch, engineVars, bookVars
<1>2. Len(queue) \in Nat /\ Len(queue) <= QueueSize /\ Known(queue, DOMAIN orders)
  BY ListedShape DEF DurableInv, Known
<1>3. size \in Nat /\ size <= Len(queue)
  <2>1. {Len(queue), BatchSize} \in SUBSET Nat /\ {Len(queue), BatchSize} # {}
    BY <1>2, PersistenceAssumption
  <2>2. size \in {Len(queue), BatchSize} /\ \A y \in {Len(queue), BatchSize} : size <= y
    <3>1. \E x \in {Len(queue), BatchSize} : \A y \in {Len(queue), BatchSize} : x <= y
      BY <1>2, PersistenceAssumption
    <3> QED
      BY <3>1 DEF Min
  <2> QED
    BY <2>1, <2>2
<1> HIDE DEF size
<1>4. Known(SubSeq(queue, 1, size), DOMAIN orders)
  BY <1>2, <1>3, PartIsKnown
<1>5. /\ Known(SubSeq(queue, size + 1, Len(queue)), DOMAIN orders)
      /\ Len(SubSeq(queue, size + 1, Len(queue))) <= QueueSize
  <2>1. size + 1 \in Nat \ {0} /\ Len(queue) \in Int /\ Len(queue) <= Len(queue)
    BY <1>2, <1>3
  <2>2. /\ Known(SubSeq(queue, size + 1, Len(queue)), DOMAIN orders)
        /\ Len(SubSeq(queue, size + 1, Len(queue)))
             = IF size + 1 <= Len(queue) THEN Len(queue) - (size + 1) + 1 ELSE 0
    BY <1>2, <2>1, PartIsKnown
  <2> QED
    BY <1>2, <1>3, <2>2, PersistenceAssumption
<1>6. WorksInv'
  BY <1>1 DEF DurableInv, WorksInv, PendingIds
<1>7. Known(queue, DOMAIN orders)' /\ Len(queue') <= QueueSize /\ Follows(durable)'
  BY <1>1, <1>5 DEF DurableInv, Follows
<1>8. WorkerInv'
  BY <1>1, <1>4, <1>7 DEF WorkerInv, Builds, Follows
<1> QED
  BY <1>6, <1>7, <1>8 DEF DurableInv

\* A row of an order is written as the order is now.
LEMMA PutRow ==
  ASSUME NEW table, NEW key, NEW row
  PROVE  /\ DOMAIN Put(table, key, row) = DOMAIN table \union {key}
         /\ Put(table, key, row)[key] = row
         /\ \A k \in DOMAIN table \ {key} : Put(table, key, row)[k] = table[k]
  BY DEF Put

\* A job writes its own order's row and no other.
LEMMA WrittenShape ==
  ASSUME NEW tables, "orders" \in DOMAIN tables, NEW job, KnownJob(job, DOMAIN orders)
  PROVE  LET after == Written(tables, job)
         IN /\ "orders" \in DOMAIN after
            /\ IF job.kind = "order"
               THEN after.orders = Put(tables.orders, job.id, orders[job.id].status)
               ELSE after.orders = tables.orders
<1>1. CASE job.kind = "order"
  BY <1>1 DEF Written
<1>2. CASE job.kind = "position"
  BY <1>2 DEF Written
<1>3. CASE job.kind = "close"
  BY <1>3 DEF Written
<1>4. CASE job.kind = "equity"
  BY <1>4 DEF Written
<1> QED
  BY <1>1, <1>2, <1>3, <1>4 DEF KnownJob, JobKinds

\* The worker writes one job into its transaction.
LEMMA WriteJobKeepsDurable ==
  ASSUME DurableInv, WriteJob
  PROVE  DurableInv'
<1> DEFINE job == Head(worker.todo)
           after == Written(worker.staged, job)
<1>1. /\ worker' = [worker EXCEPT !.todo = Tail(worker.todo), !.staged = after]
      /\ worker.busy /\ worker.todo # << >>
      /\ UNCHANGED <<orders, pending, tick, queue, durable>>
  BY DEF WriteJob, engineVars, bookVars
<1>2. Known(Tail(worker.todo), DOMAIN orders) /\ KnownJob(job, DOMAIN orders)
  BY <1>1, RestIsKnown DEF DurableInv, WorkerInv
<1>3. "orders" \in DOMAIN worker.staged
  BY DEF DurableInv, WorkerInv, Follows
<1> HIDE DEF job
<1>4. /\ "orders" \in DOMAIN after
      /\ IF job.kind = "order"
         THEN after.orders = Put(worker.staged.orders, job.id, orders[job.id].status)
         ELSE after.orders = worker.staged.orders
  BY <1>2, <1>3, WrittenShape
<1> HIDE DEF after
<1>5. /\ {"todo", "staged"} \subseteq DOMAIN worker' /\ worker'.todo = Tail(worker.todo)
      /\ worker'.staged = after
  BY <1>1 DEF DurableInv, WorkerInv
<1>6. /\ Follows(worker.staged) /\ Follows(durable) /\ Builds
  BY <1>1 DEF DurableInv, WorkerInv
<1>7. Follows(after) /\ (\A i \in DOMAIN durable.orders :
         /\ i \in DOMAIN after.orders
         /\ durable.orders[i] \notin Restorable => after.orders[i] = durable.orders[i])
  <2>1. CASE job.kind = "order"
    <3>1. /\ DOMAIN after.orders = DOMAIN worker.staged.orders \union {job.id}
          /\ after.orders[job.id] = orders[job.id].status
          /\ \A i \in DOMAIN worker.staged.orders \ {job.id} :
               after.orders[i] = worker.staged.orders[i]
      <4> DEFINE table == worker.staged.orders
                 row == orders[job.id].status
                 put == Put(table, job.id, row)
      <4>1. /\ DOMAIN put = DOMAIN table \union {job.id} /\ put[job.id] = row
            /\ \A i \in DOMAIN table \ {job.id} : put[i] = table[i]
        <5> HIDE DEF table, row
        <5> QED
          BY PutRow
      <4> QED
        BY <1>4, <2>1, <4>1
    <3>2. job.id \in DOMAIN orders
      BY <1>2, <2>1 DEF KnownJob
    <3>3. Follows(after)
      BY <1>4, <1>6, <3>1, <3>2 DEF Follows
    <3>4. ASSUME NEW i \in DOMAIN durable.orders
          PROVE  /\ i \in DOMAIN after.orders
                 /\ durable.orders[i] \notin Restorable => after.orders[i] = durable.orders[i]
      BY <1>6, <3>1 DEF Follows, Builds
    <3> QED
      BY <3>3, <3>4
  <2>2. CASE job.kind # "order"
    BY <1>4, <1>6, <2>2 DEF Follows, Builds
  <2> QED
    BY <2>1, <2>2
<1>8. WorksInv'
  BY <1>1 DEF DurableInv, WorksInv, PendingIds
<1>9. WorkerInv'
  BY <1>1, <1>2, <1>5, <1>7 DEF WorkerInv, Follows, Builds
<1> QED
  BY <1>1, <1>8, <1>9 DEF DurableInv, Follows, Known, KnownJob

\* It commits, or the batch fails.
LEMMA BatchEndKeepsDurable ==
  ASSUME DurableInv, Commit \/ FailBatch
  PROVE  DurableInv'
<1>1. /\ UNCHANGED <<orders, pending, tick, queue>> /\ worker' = Idle
      /\ durable' = durable \/ durable' = worker.staged
  BY DEF Commit, FailBatch, engineVars, bookVars
<1>2. WorksInv'
  BY <1>1 DEF DurableInv, WorksInv, PendingIds
<1>3. Follows(durable)'
  BY <1>1 DEF DurableInv, WorkerInv, Follows
<1>4. WorkerInv'
  <2>1. Follows(EmptyTables)'
    <3>1. DOMAIN << >> = {}
      OBVIOUS
    <3> QED
      BY <3>1 DEF Follows, EmptyTables
  <2> QED
    BY <1>1, <2>1, NoJobsAreKnown DEF WorkerInv, Idle
<1> QED
  BY <1>1, <1>2, <1>3, <1>4 DEF DurableInv

\* A restart restores the orders whose rows say that they work.
LEMMA RestartKeepsDurable ==
  ASSUME DurableInv, Restart
  PROVE  DurableInv'
<1>1. /\ orders' = [i \in DOMAIN orders |->
                      IF i \in RestoredIds THEN RestoredOrder(i) ELSE orders[i]]
      /\ pending' = [i \in RestoredIds |-> MaxAge]
      /\ tick' = Quiet /\ queue' = << >> /\ worker' = Idle /\ UNCHANGED durable
  BY DEF Restart
<1>2. Len(orders) \in Nat /\ DOMAIN orders = 1 .. Len(orders)
  BY ListedShape DEF DurableInv, WorksInv
<1>3. /\ PendingIds' = RestoredIds /\ RestoredIds \subseteq DOMAIN durable.orders
      /\ DOMAIN durable.orders \subseteq DOMAIN orders /\ DOMAIN orders' = DOMAIN orders
  BY <1>1 DEF PendingIds, RestoredIds, DurableInv, Follows
<1>4. ASSUME NEW i \in RestoredIds
      PROVE  /\ Shaped(RestoredOrder(i)) /\ RestoredOrder(i).status = durable.orders[i]
             /\ durable.orders[i] \in Restorable
  <2>1. Shaped(orders[i])
    BY <1>3 DEF DurableInv, WorksInv
  <2> QED
    BY <2>1 DEF RestoredOrder, RestoredIds, Shaped
<1>5. Listed(orders')
  <2>1. orders' = [i \in 1 .. Len(orders) |-> orders'[i]]
    BY <1>1, <1>2
  <2> QED
    BY <1>2, <2>1, FunctionIsListed
<1>6. WorksInv'
  <2>1. \A i \in DOMAIN orders' : Shaped(orders'[i])
    BY <1>1, <1>3, <1>4 DEF DurableInv, WorksInv
  <2>2. \A i \in PendingIds' : orders'[i].status \in Restorable
    BY <1>1, <1>3, <1>4
  <2> QED
    BY <1>1, <1>3, <1>5, <2>1, <2>2 DEF WorksInv, Quiet
<1>7. Follows(durable)'
  <2>1. ASSUME NEW i \in DOMAIN durable.orders, durable.orders[i] \notin Restorable
        PROVE  durable.orders[i] = orders'[i].status
    <3>1. i \notin RestoredIds /\ i \in DOMAIN orders
      BY <1>3, <1>4, <2>1
    <3> QED
      BY <1>1, <2>1, <3>1 DEF DurableInv, Follows
  <2> QED
    BY <1>1, <1>3, <2>1 DEF DurableInv, Follows
<1>8. WorkerInv'
  <2>1. Follows(EmptyTables)'
    <3>1. DOMAIN << >> = {}
      OBVIOUS
    <3> QED
      BY <3>1 DEF Follows, EmptyTables
  <2> QED
    BY <1>1, <2>1, NoJobsAreKnown DEF WorkerInv, Idle
<1> QED
  BY <1>1, <1>6, <1>7, <1>8, NoJobsAreKnown, PersistenceAssumption DEF DurableInv

\* Every step of the process and of its database keeps the rows and the orders
\* in agreement.
LEMMA DurableStep == DurableInv /\ [PersistentNext]_allVars => DurableInv'
<1>1. CASE DurableInv /\ UNCHANGED allVars
  <2>1. UNCHANGED <<orders, pending, tick, queue, worker, durable>>
    BY <1>1 DEF allVars, engineVars, bookVars, persistenceVars
  <2> QED
    BY <1>1, <2>1 DEF DurableInv, WorksInv, WorkerInv, Follows, Builds, PendingIds
<1>2. CASE DurableInv /\ PersistentNext
  BY <1>2, EngineKeepsDurable, TakeBatchKeepsDurable, WriteJobKeepsDurable,
     BatchEndKeepsDurable, RestartKeepsDurable DEF PersistentNext, Work
<1> QED
  BY <1>1, <1>2

\* However writes, failures and restarts interleave, no row tells of an end
\* that its order has not come to, and the queue stays within its size.
THEOREM RowsFollowOrders == PersistentSpec => []DurableInv
  BY DurableInitial, DurableStep, PTL DEF PersistentSpec

\* What one step does to a row that tells of an end, and to its order.
LEMMA EndedRowStays ==
  ASSUME DurableInv, DurableInv', PersistentNext,
         NEW i \in DOMAIN durable.orders, durable.orders[i] \notin Restorable
  PROVE  durable'.orders[i] = durable.orders[i] /\ i \notin PendingIds'
<1>1. durable'.orders[i] = durable.orders[i] /\ i \in DOMAIN durable'.orders
  <2>1. CASE Commit
    BY <2>1 DEF Commit, DurableInv, WorkerInv, Builds
  <2>2. CASE EngineStep \/ TakeBatch \/ WriteJob \/ FailBatch \/ Restart
    <3>1. UNCHANGED durable
      BY <2>2 DEF EngineStep, TakeBatch, WriteJob, FailBatch, Restart
    <3> QED
      BY <3>1
  <2> QED
    BY <2>1, <2>2 DEF PersistentNext, Work
<1>2. durable'.orders[i] = orders'[i].status
  BY <1>1 DEF DurableInv, Follows
<1> QED
  BY <1>1, <1>2 DEF DurableInv, WorksInv

(* An order whose end is committed stays ended, across late writes, failed    *)
(* batches and restarts: a recovery never brings it back to work.             *)
THEOREM DurableEndsAreFinal == PersistentSpec => DurableEndIsFinal
<1>1. DurableInv /\ DurableInv' /\ [PersistentNext]_allVars
        => [\A i \in DOMAIN durable.orders :
              durable.orders[i] \notin Restorable =>
                durable'.orders[i] = durable.orders[i] /\ i \notin DOMAIN pending']_allVars
  BY EndedRowStays DEF PendingIds
<1> QED
  BY RowsFollowOrders, <1>1, PTL DEF PersistentSpec, DurableEndIsFinal

-----------------------------------------------------------------------------
(***************************************************************************)
(* The mirror.  What the engine relies on must survive a restart, which    *)
(* forgets the stakes, the ghosts and what an order has filled: SoundInv   *)
(* and EndedInv are what is left of the engine's invariant.                *)
(***************************************************************************)
SoundInv ==
  /\ AccountTypeOK
  /\ orders \in Seq(Orders) /\ PendingIds \subseteq DOMAIN orders
  /\ \A i \in PendingIds : Working(orders[i])
  /\ TickInv

(* What does not work has ended, or is a trailing stop that was not restored. *)
Gone(order) == order.status \in Restorable => order.type = "trailing_stop"
EndedInv == \A i \in DOMAIN orders \ PendingIds : Gone(orders[i])

(* A step of the engine leaves an order its type, and ends what it takes off  *)
(* the queue.                                                                 *)
OrdersStep ==
  /\ DOMAIN orders \subseteq DOMAIN orders'
  /\ \A i \in DOMAIN orders : orders'[i].type = orders[i].type
  /\ \A i \in PendingIds \ PendingIds' : IsTerminal(orders'[i])

(* It books one fill of the symbol of the snapshot, or none.                  *)
NothingBooked == UNCHANGED <<positions, balance, events>>
FillBooked ==
  /\ events' # events /\ tick.book.symbol \in Symbols
  /\ \A t \in Symbols \ {tick.book.symbol} : positions'[t] = positions[t]

SoundStep == SoundInv' /\ EndedInv' /\ OrdersStep /\ (NothingBooked \/ FillBooked)

\* A status that a recovery restores is not an end.
LEMMA EndIsNotRestorable ==
  ASSUME NEW order, IsTerminal(order)
  PROVE  order.status \notin Restorable /\ Gone(order)
  BY DEF IsTerminal, Restorable, Gone

\* What an arrival leaves behind is as sound as what it found.
LEMMA ArrivalKeepsSound ==
  ASSUME SoundInv, EndedInv, Calm, NEW batch, NEW gone, Arrival(batch, gone), UNCHANGED accountVars
  PROVE  SoundStep
<1> DEFINE n == Len(orders)
           m == Len(batch)
<1>1. /\ n \in Nat /\ m \in Nat /\ DOMAIN orders = 1 .. n
      /\ orders' \in Seq(Orders) /\ DOMAIN orders' = 1 .. n + m /\ Len(orders') = n + m
      /\ \A i \in 1 .. n :
           /\ SameTerms(orders'[i], orders[i])
           /\ i \in gone => orders'[i].status = "cancelled"
           /\ i \notin gone => orders'[i] = orders[i]
      /\ \A i \in n + 1 .. n + m :
           /\ batch[i - n] \in Orders /\ SameTerms(orders'[i], batch[i - n])
           /\ orders'[i].filled = 0
           /\ orders'[i].status = IF Admissible(batch[i - n]) THEN "accepted" ELSE "rejected"
      /\ AcceptedIds(batch) = {i \in n + 1 .. n + m : Admissible(batch[i - n])}
  BY ArrivalShape DEF SoundInv
<1>2. PendingIds' = (PendingIds \ gone) \union AcceptedIds(batch) /\ gone \subseteq PendingIds
  BY DEF Arrival
<1> HIDE DEF n, m
<1>3. ASSUME NEW i \in 1 .. n
      PROVE  /\ orders'[i].type = orders[i].type
             /\ i \in PendingIds' => Working(orders'[i])
             /\ i \notin PendingIds' => Gone(orders'[i])
             /\ i \in PendingIds \ PendingIds' => IsTerminal(orders'[i])
  <2>1. i \notin n + 1 .. n + m
    BY <1>1
  <2>2. i \in PendingIds' <=> i \in PendingIds /\ i \notin gone
    BY <1>1, <1>2, <2>1
  <2>3. CASE i \in gone
    <3>1. orders'[i].type = orders[i].type /\ orders'[i].status = "cancelled"
      BY <1>1, <2>3 DEF SameTerms
    <3>2. IsTerminal(orders'[i])
      BY <3>1 DEF IsTerminal
    <3> QED
      BY <2>2, <2>3, <3>1, <3>2, EndIsNotRestorable
  <2>4. CASE i \notin gone
    <3>1. orders'[i] = orders[i]
      BY <1>1, <2>4
    <3> QED
      BY <1>1, <2>2, <2>4, <3>1 DEF SoundInv, EndedInv
  <2> QED
    BY <2>3, <2>4
<1>4. ASSUME NEW i \in n + 1 .. n + m
      PROVE  /\ i \in PendingIds' => Working(orders'[i])
             /\ i \notin PendingIds' => Gone(orders'[i])
  <2> DEFINE o == batch[i - n]
  <2>1. i \notin 1 .. n /\ i \in 1 .. n + m
    BY <1>1
  <2>2. i \in PendingIds' <=> Admissible(o)
    BY <1>1, <1>2, <2>1 DEF SoundInv
  <2>3. /\ o \in Orders /\ orders'[i].qty = o.qty /\ orders'[i].filled = 0 /\ orders'[i] \in Orders
        /\ orders'[i].status = IF Admissible(o) THEN "accepted" ELSE "rejected"
    BY <1>1, <2>1, ElementOfSeq DEF SameTerms
  <2> HIDE DEF o
  <2>4. CASE Admissible(o)
    <3>1. o.qty > 0 /\ orders'[i].status = "accepted"
      BY <2>3, <2>4 DEF Admissible
    <3> QED
      BY <2>2, <2>3, <2>4, <3>1 DEF Working, IsTerminal
  <2>5. CASE ~Admissible(o)
    BY <2>2, <2>3, <2>5 DEF Gone, Restorable
  <2> QED
    BY <2>4, <2>5
<1>5. \A i \in 1 .. n + m : i \in 1 .. n \/ i \in n + 1 .. n + m
  BY <1>1
<1>6. AccountTypeOK' /\ NothingBooked
  BY DEF SoundInv, AccountTypeOK, accountVars, NothingBooked
<1>7. PendingIds' \subseteq 1 .. n + m
  BY <1>1, <1>2 DEF SoundInv
<1>8. TickInv'
  BY CalmKeepsTick DEF SoundInv
<1>9. SoundInv'
  BY <1>1, <1>3, <1>4, <1>5, <1>6, <1>7, <1>8 DEF SoundInv
<1>10. EndedInv'
  BY <1>1, <1>3, <1>4, <1>5 DEF EndedInv
<1>11. OrdersStep
  BY <1>1, <1>3 DEF OrdersStep, SoundInv
<1> QED
  BY <1>6, <1>9, <1>10, <1>11 DEF SoundStep

\* Where orders and account stay, so does what is known of them.
LEMMA SameOrdersAreSound ==
  ASSUME SoundInv, EndedInv, UNCHANGED <<accountVars, orders>>, PendingIds' = PendingIds, TickInv'
  PROVE  SoundStep
<1>1. AccountTypeOK' /\ NothingBooked
  BY DEF SoundInv, AccountTypeOK, accountVars, NothingBooked
<1> QED
  BY <1>1 DEF SoundInv, EndedInv, OrdersStep, SoundStep

\* A fill of the engine keeps the types and reaches no other symbol.
LEMMA FillIsBooked ==
  ASSUME AccountTypeOK, NEW order \in Orders, order.symbol = tick.book.symbol,
         NEW fill, fill.qty \in Nat \ {0}, fill.price \in Int, fill.fee \in Int,
         BookFill(order, fill)
  PROVE  AccountTypeOK' /\ FillBooked
<1> DEFINE booked == [symbol |-> order.symbol, side |-> order.side, qty |-> fill.qty,
                      price |-> fill.price, fee |-> fill.fee]
<1>1. booked \in AnyFill /\ booked.symbol = tick.book.symbol /\ order.symbol \in Symbols
  BY FillIsAccountable, OrderFields
<1>2. ApplyFill(booked)
  BY DEF BookFill
<1> HIDE DEF booked
<1> QED
  BY <1>1, <1>2, FillKeepsTypes DEF FillBooked

\* A snapshot works an order.
LEMMA WorkOrderKeepsSound ==
  ASSUME SoundInv, EndedInv, WorkOrder
  PROVE  SoundStep
<1>1. PICK id, result : WorkedStep(id, result)
  BY WorkOrderShape DEF SoundInv
<1>2. /\ id \in tick.todo /\ id \in PendingIds /\ id \in DOMAIN orders
      /\ orders' \in Seq(Orders) /\ DOMAIN orders' = DOMAIN orders
      /\ orders'[id].type = orders[id].type
      /\ \A i \in DOMAIN orders \ {id} : orders'[i] = orders[i]
      /\ PendingIds' = IF IsTerminal(orders'[id]) THEN PendingIds \ {id} ELSE PendingIds
      /\ tick' = [tick EXCEPT !.todo = tick.todo \ {id}]
  BY <1>1 DEF WorkedStep, SameTerms
<1>3. ~IsTerminal(orders'[id]) => Working(orders'[id])
  BY <1>1, WorkedGoesOn
<1>4. IsTerminal(orders'[id]) => Gone(orders'[id])
  BY EndIsNotRestorable
<1>5. AccountTypeOK' /\ (NothingBooked \/ FillBooked)
  <2>1. CASE HasFill(result)
    <3>1. /\ result.fill.qty \in Nat \ {0} /\ result.fill.price \in Int
          /\ result.fill.fee \in Int /\ orders[id] \in Orders
      BY <1>1, <2>1 DEF WorkedStep, Worked, Working, HasFill
    <3>2. BookFill(orders[id], result.fill) /\ orders[id].symbol = tick.book.symbol
      BY <1>1, <1>2, <2>1 DEF WorkedStep, SoundInv, TickInv
    <3> QED
      BY <3>1, <3>2, FillIsBooked DEF SoundInv
  <2>2. CASE ~HasFill(result)
    BY <1>1, <2>2 DEF WorkedStep, SoundInv, AccountTypeOK, accountVars, NothingBooked
  <2> QED
    BY <2>1, <2>2
<1>6. TickInv'
  <2>1. /\ tick' \in [running : BOOLEAN, book : BookTops \union {NoBook}, todo : SUBSET Nat]
        /\ tick'.running = tick.running /\ tick'.book = tick.book
        /\ tick'.todo = tick.todo \ {id}
    BY <1>2 DEF SoundInv, TickInv
  <2>2. /\ tick.running /\ PendingIds \ {id} \subseteq PendingIds' /\ PendingIds \subseteq DOMAIN orders
    BY <1>2 DEF WorkOrder, SoundInv
  <2> QED
    BY <1>2, <2>1, <2>2 DEF SoundInv, TickInv
<1>7. SoundInv'
  <2>1. PendingIds' \subseteq DOMAIN orders' /\ \A i \in PendingIds' : Working(orders'[i])
    BY <1>2, <1>3 DEF SoundInv
  <2> QED
    BY <1>2, <1>5, <1>6, <2>1 DEF SoundInv
<1>8. EndedInv' /\ OrdersStep
  BY <1>2, <1>4 DEF EndedInv, OrdersStep
<1> QED
  BY <1>5, <1>7, <1>8 DEF SoundStep

\* A call of on_book ends, with the exit of a protection or without.
LEMMA EndTickKeepsSound ==
  ASSUME SoundInv, EndedInv, EndTick
  PROVE  SoundStep
<1> DEFINE s == tick.book.symbol
           order == ExitOf(s)
           fill == TryFill(order, tick.book).fill
<1>1. /\ tick.book \in BookTops /\ s \in Symbols /\ tick' = Quiet
      /\ UNCHANGED <<orders, pending>> /\ PendingIds' = PendingIds
  <2>1. tick.running /\ tick' = Quiet /\ UNCHANGED <<orders, pending>>
    BY DEF EndTick
  <2> QED
    BY <2>1 DEF SoundInv, TickInv, BookTops, PendingIds
<1>2. TickInv'
  BY <1>1 DEF TickInv, Quiet
<1>3. CASE Breached(positions[s], protect[s], tick.book)
  <2>1. IsOpen(positions[s])
    BY <1>3 DEF Breached
  <2>2. BookFill(order, fill)
    BY <1>3, EndTickShape
  <2>3. /\ order \in Orders /\ order.symbol = s
        /\ fill.qty \in Nat \ {0} /\ fill.price \in Int /\ fill.fee \in Int
    BY <1>1, <2>1, ExitFillIsWhole DEF SoundInv
  <2> HIDE DEF order, fill
  <2>4. AccountTypeOK' /\ FillBooked
    BY <2>2, <2>3, FillIsBooked DEF SoundInv
  <2> QED
    BY <1>1, <1>2, <2>4 DEF SoundInv, EndedInv, OrdersStep, SoundStep
<1>4. CASE ~Breached(positions[s], protect[s], tick.book)
  <2>1. UNCHANGED accountVars
    BY <1>4, EndTickShape
  <2> QED
    BY <1>1, <1>2, <2>1, SameOrdersAreSound
<1> QED
  BY <1>3, <1>4

\* Every step of the engine is one of these.
LEMMA EngineStepIsSound ==
  ASSUME SoundInv, EndedInv, EngineNext
  PROVE  SoundStep
<1>1. ASSUME NEW order \in Requests, Calm, Submit(order) PROVE SoundStep
  <2>1. Arrival(<<order>>, {}) /\ UNCHANGED accountVars
    BY <1>1, RequestAssumption, SubmitIsArrival DEF SoundInv, Submit
  <2> QED
    BY <1>1, <2>1, ArrivalKeepsSound
<1>2. ASSUME NEW id \in PendingIds, Calm, Cancel(id) PROVE SoundStep
  <2>1. Arrival(<< >>, {id}) /\ UNCHANGED accountVars
    BY <1>2, CancelIsArrival DEF SoundInv, Cancel
  <2> QED
    BY <1>2, <2>1, ArrivalKeepsSound
<1>3. ASSUME Calm, FlattenAll PROVE SoundStep
  <2>1. Arrival(ExitOrders("kill_switch"), PendingIds) /\ UNCHANGED accountVars
    BY <1>3, FlattenIsArrival DEF SoundInv, FlattenAll
  <2> QED
    BY <1>3, <2>1, ArrivalKeepsSound
<1>4. ASSUME NEW s \in Symbols, NEW stop, NEW target, Calm, Protect(s, stop, target) PROVE SoundStep
  <2>1. UNCHANGED <<accountVars, orders>> /\ PendingIds' = PendingIds /\ TickInv'
    BY <1>4, CalmKeepsTick DEF SoundInv, Protect, PendingIds
  <2> QED
    BY <2>1, SameOrdersAreSound
<1>5. ASSUME Calm, Elapse PROVE SoundStep
  <2>1. UNCHANGED <<accountVars, orders>> /\ PendingIds' = PendingIds /\ TickInv'
    BY <1>5, CalmKeepsTick DEF SoundInv, Elapse, PendingIds
  <2> QED
    BY <2>1, SameOrdersAreSound
<1>6. ASSUME NEW book \in Books, OnBook(book) PROVE SoundStep
  <2>1. UNCHANGED <<accountVars, orders, pending>> /\ tick' = Running(book) /\ book \in BookTops
    BY <1>6, BookAssumption DEF OnBook
  <2>2. PendingIds' = PendingIds /\ PendingIds \subseteq Nat
    BY <2>1, LenProperties DEF PendingIds, SoundInv
  <2>3. /\ Eligible(pending, orders, book) \subseteq PendingIds
        /\ \A i \in Eligible(pending, orders, book) : orders[i].symbol = book.symbol
    BY DEF Eligible, PendingIds
  <2>4. TickInv'
    BY <2>1, <2>2, <2>3 DEF TickInv, Running
  <2> QED
    BY <2>1, <2>2, <2>4, SameOrdersAreSound
<1> QED
  BY <1>1, <1>2, <1>3, <1>4, <1>5, <1>6, WorkOrderKeepsSound, EndTickKeepsSound DEF EngineNext

-----------------------------------------------------------------------------
(* Jobs, and what they are about.                                            *)
BalanceJobs == {EquityJob(x) : x \in Int}
AllJobs ==
  {OrderJob(i) : i \in Nat} \union BalanceJobs
    \union {PositionJob(s, n) : s \in Symbols, n \in Nat}
    \union {CloseJob(s, n) : s \in Symbols, n \in Nat}

(* The job is on the list, and none of the others comes after it.            *)
Lasts(jobs, job, others) ==
  \E k \in DOMAIN jobs :
    jobs[k] = job /\ \A l \in DOMAIN jobs : l > k => jobs[l] \notin others

\* What a job is tells what it is about.
LEMMA JobsDiffer ==
  /\ \A i : OrderJob(i).kind = "order" /\ OrderJob(i).id = i
  /\ \A s, n : PositionJob(s, n).kind = "position" /\ PositionJob(s, n).id = <<s, n>>
  /\ \A s, n : CloseJob(s, n).kind = "close" /\ CloseJob(s, n).id = <<s, n>>
  /\ \A x : EquityJob(x).kind = "equity" /\ EquityJob(x).balance = x
  BY DEF OrderJob, PositionJob, CloseJob, EquityJob

\* The jobs of two lists are those of the one and those of the other.
LEMMA JoinedRange ==
  ASSUME NEW S, NEW a \in Seq(S), NEW b \in Seq(S)
  PROVE  Range(a \o b) = Range(a) \union Range(b)
<1>1. /\ a \o b \in Seq(S) /\ Len(a \o b) = Len(a) + Len(b)
      /\ \A i \in 1 .. Len(a) + Len(b) :
           (a \o b)[i] = IF i <= Len(a) THEN a[i] ELSE b[i - Len(a)]
  BY ConcatProperties
<1>2. /\ Len(a) \in Nat /\ Len(b) \in Nat /\ DOMAIN a = 1 .. Len(a) /\ DOMAIN b = 1 .. Len(b)
      /\ DOMAIN (a \o b) = 1 .. Len(a) + Len(b)
  BY <1>1, LenProperties
<1>3. \A x : x \in Range(a \o b) => x \in Range(a) \union Range(b)
  BY <1>1, <1>2 DEF Range
<1>4. ASSUME NEW i \in 1 .. Len(a) PROVE a[i] \in Range(a \o b)
  <2>1. i \in 1 .. Len(a) + Len(b) /\ (a \o b)[i] = a[i]
    BY <1>1, <1>2
  <2> QED
    BY <1>2, <2>1 DEF Range
<1>5. ASSUME NEW i \in 1 .. Len(b) PROVE b[i] \in Range(a \o b)
  <2>1. i + Len(a) \in 1 .. Len(a) + Len(b) /\ ~(i + Len(a) <= Len(a)) /\ (i + Len(a)) - Len(a) = i
    BY <1>2
  <2>2. (a \o b)[i + Len(a)] = b[i]
    BY <1>1, <2>1
  <2> QED
    BY <1>2, <2>1, <2>2 DEF Range
<1>6. \A x : x \in Range(a) \union Range(b) => x \in Range(a \o b)
  BY <1>2, <1>4, <1>5 DEF Range
<1> QED
  BY <1>3, <1>6

\* One that comes last in the second list comes last; one that comes last in
\* the first does unless the second has another.
LEMMA JoinedLasts ==
  ASSUME NEW S, NEW a \in Seq(S), NEW b \in Seq(S), NEW job, NEW others,
         Lasts(b, job, others) \/ (Lasts(a, job, others) /\ Range(b) \cap others = {})
  PROVE  Lasts(a \o b, job, others)
<1>1. /\ a \o b \in Seq(S) /\ Len(a \o b) = Len(a) + Len(b)
      /\ \A i \in 1 .. Len(a) + Len(b) :
           (a \o b)[i] = IF i <= Len(a) THEN a[i] ELSE b[i - Len(a)]
  BY ConcatProperties
<1>2. /\ Len(a) \in Nat /\ Len(b) \in Nat /\ DOMAIN a = 1 .. Len(a) /\ DOMAIN b = 1 .. Len(b)
      /\ DOMAIN (a \o b) = 1 .. Len(a) + Len(b)
  BY <1>1, LenProperties
<1>3. CASE Lasts(b, job, others)
  <2>1. PICK k \in 1 .. Len(b) : b[k] = job /\ \A l \in 1 .. Len(b) : l > k => b[l] \notin others
    BY <1>2, <1>3 DEF Lasts
  <2>2. k + Len(a) \in DOMAIN (a \o b) /\ (a \o b)[k + Len(a)] = job
    <3>1. k + Len(a) \in 1 .. Len(a) + Len(b) /\ ~(k + Len(a) <= Len(a)) /\ (k + Len(a)) - Len(a) = k
      BY <1>2
    <3> QED
      BY <1>1, <1>2, <2>1, <3>1
  <2>3. ASSUME NEW l \in 1 .. Len(a) + Len(b), l > k + Len(a) PROVE (a \o b)[l] \notin others
    <3>1. l - Len(a) \in 1 .. Len(b) /\ l - Len(a) > k /\ ~(l <= Len(a))
      BY <1>2, <2>3
    <3> QED
      BY <1>1, <2>1, <3>1
  <2> QED
    BY <1>2, <2>2, <2>3 DEF Lasts
<1>4. CASE Lasts(a, job, others) /\ Range(b) \cap others = {}
  <2>1. PICK k \in 1 .. Len(a) : a[k] = job /\ \A l \in 1 .. Len(a) : l > k => a[l] \notin others
    BY <1>2, <1>4 DEF Lasts
  <2>2. k \in DOMAIN (a \o b) /\ (a \o b)[k] = job
    BY <1>1, <1>2, <2>1
  <2>3. ASSUME NEW l \in 1 .. Len(a) + Len(b), l > k PROVE (a \o b)[l] \notin others
    <3>1. CASE l <= Len(a)
      <4>1. l \in 1 .. Len(a)
        BY <1>2, <3>1
      <4> QED
        BY <1>1, <2>1, <2>3, <3>1, <4>1
    <3>2. CASE ~(l <= Len(a))
      <4>1. l - Len(a) \in 1 .. Len(b)
        BY <1>2, <3>2
      <4>2. b[l - Len(a)] \in Range(b)
        BY <1>2, <4>1 DEF Range
      <4> QED
        BY <1>1, <1>4, <3>2, <4>2
    <3> QED
      BY <3>1, <3>2
  <2> QED
    BY <1>2, <2>2, <2>3 DEF Lasts
<1> QED
  BY <1>3, <1>4

\* One that comes last comes last in the rest, or is the first and has none of
\* the others after it.
LEMMA LastsInRest ==
  ASSUME NEW S, NEW jobs \in Seq(S), jobs # << >>, NEW job, NEW others, Lasts(jobs, job, others)
  PROVE  \/ Lasts(Tail(jobs), job, others)
         \/ Head(jobs) = job /\ Range(Tail(jobs)) \cap others = {}
<1>1. /\ Tail(jobs) \in Seq(S) /\ Len(Tail(jobs)) = Len(jobs) - 1
      /\ \A i \in 1 .. Len(Tail(jobs)) : Tail(jobs)[i] = jobs[i + 1]
  BY HeadTailProperties
<1>2. /\ Len(jobs) \in Nat /\ DOMAIN jobs = 1 .. Len(jobs)
      /\ DOMAIN Tail(jobs) = 1 .. Len(jobs) - 1 /\ Head(jobs) = jobs[1]
  BY <1>1, LenProperties
<1>3. PICK k \in 1 .. Len(jobs) : jobs[k] = job /\ \A l \in 1 .. Len(jobs) : l > k => jobs[l] \notin others
  BY <1>2 DEF Lasts
<1>4. ASSUME NEW l \in 1 .. Len(jobs) - 1, l + 1 > k PROVE Tail(jobs)[l] \notin others
  <2>1. l + 1 \in 1 .. Len(jobs)
    BY <1>2
  <2> QED
    BY <1>1, <1>3, <1>4, <2>1
<1>5. CASE k = 1
  <2>1. \A l \in 1 .. Len(jobs) - 1 : Tail(jobs)[l] \notin others
    BY <1>2, <1>4, <1>5
  <2> QED
    BY <1>2, <1>3, <1>5, <2>1 DEF Range
<1>6. CASE k # 1
  <2>1. k - 1 \in 1 .. Len(jobs) - 1 /\ (k - 1) + 1 = k
    BY <1>2, <1>6
  <2>2. Tail(jobs)[k - 1] = job
    BY <1>1, <1>3, <2>1
  <2>3. \A l \in 1 .. Len(jobs) - 1 : l > k - 1 => Tail(jobs)[l] \notin others
    <3>1. ASSUME NEW l \in 1 .. Len(jobs) - 1, l > k - 1 PROVE Tail(jobs)[l] \notin others
      BY <1>2, <1>4, <2>1, <3>1
    <3> QED
      BY <3>1
  <2> QED
    BY <1>2, <2>1, <2>2, <2>3 DEF Lasts
<1> QED
  BY <1>5, <1>6

\* What is on the list is the first of it or in the rest.
LEMMA RangeOfRest ==
  ASSUME NEW S, NEW jobs \in Seq(S), jobs # << >>
  PROVE  /\ Tail(jobs) \in Seq(S) /\ Head(jobs) \in S
         /\ Range(jobs) = {Head(jobs)} \union Range(Tail(jobs))
<1>1. /\ Tail(jobs) \in Seq(S) /\ Head(jobs) \in S /\ Len(Tail(jobs)) = Len(jobs) - 1
      /\ \A i \in 1 .. Len(Tail(jobs)) : Tail(jobs)[i] = jobs[i + 1]
  BY HeadTailProperties
<1>2. /\ Len(jobs) \in Nat \ {0} /\ DOMAIN jobs = 1 .. Len(jobs)
      /\ DOMAIN Tail(jobs) = 1 .. Len(jobs) - 1 /\ Head(jobs) = jobs[1]
  BY <1>1, LenProperties, EmptySeq
<1>3. ASSUME NEW k \in 1 .. Len(jobs) PROVE jobs[k] \in {Head(jobs)} \union Range(Tail(jobs))
  <2>1. CASE k = 1
    BY <1>2, <2>1
  <2>2. CASE k # 1
    <3>1. k - 1 \in 1 .. Len(jobs) - 1 /\ (k - 1) + 1 = k
      BY <1>2, <2>2
    <3>2. Tail(jobs)[k - 1] = jobs[k]
      BY <1>1, <3>1
    <3> QED
      BY <1>2, <3>1, <3>2 DEF Range
  <2> QED
    BY <2>1, <2>2
<1>4. Head(jobs) \in Range(jobs)
  BY <1>2 DEF Range
<1>5. ASSUME NEW k \in 1 .. Len(jobs) - 1 PROVE Tail(jobs)[k] \in Range(jobs)
  <2>1. k + 1 \in 1 .. Len(jobs)
    BY <1>2
  <2> QED
    BY <1>1, <1>2, <2>1 DEF Range
<1> QED
  BY <1>1, <1>2, <1>3, <1>4, <1>5 DEF Range

\* A job with none of the others beside it comes last.
LEMMA LastsAlone ==
  ASSUME NEW jobs, NEW job \in Range(jobs), NEW others, Range(jobs) \cap others = {}
  PROVE  Lasts(jobs, job, others)
  BY DEF Range, Lasts

-----------------------------------------------------------------------------
(* The tables and the jobs that are still to be written, together.           *)
Tables == IF worker.busy THEN worker.staged ELSE durable
Outstanding == worker.todo \o queue

(* The position that the engine holds is the last of its objects or none.    *)
SameObject(object, pos) ==
  /\ object.side = pos.side /\ object.qty = pos.qty /\ object.avg = pos.avg
  /\ object.booked = Booked(pos)

HeldInv ==
  /\ held \in [Symbols -> Nat] /\ objects = [s \in Symbols |-> objects[s]]
  /\ \A s \in Symbols :
       /\ Listed(objects[s]) /\ held[s] <= Len(objects[s])
       /\ held[s] # 0 <=> IsOpen(positions[s])
       /\ held[s] # 0 => SameObject(objects[s][held[s]], positions[s])

TableShape(tables) ==
  /\ tables = [orders |-> tables.orders, positions |-> tables.positions,
               balance |-> tables.balance]
  /\ \A id \in DOMAIN tables.positions :
       LET row == tables.positions[id]
       IN row = [open |-> row.open, object |-> row.object] /\ row.open \in BOOLEAN

(* The row of an order tells whether it works, or is about to be written.    *)
OrderMirrored(tables, jobs, i) ==
  \/ OrderJob(i) \in Range(jobs)
  \/ /\ i \in DOMAIN tables.orders
     /\ orders[i].type # "trailing_stop" => (tables.orders[i] \in Restorable <=> i \in PendingIds)

(* The row of the position that is held is the position, or is about to be;  *)
(* nothing closes it.                                                        *)
HeldMirrored(tables, jobs, s) ==
  LET id == <<s, held[s]>>
  IN /\ CloseJob(s, held[s]) \notin Range(jobs)
     /\ id \in DOMAIN tables.positions => tables.positions[id].open
     /\ \/ PositionJob(s, held[s]) \in Range(jobs)
        \/ id \in DOMAIN tables.positions /\ SameObject(tables.positions[id].object, positions[s])

(* The row of one that is not is closed or was never written, and stays so,  *)
(* or is about to be closed for good.                                        *)
PastMirrored(tables, jobs, s, n) ==
  LET id == <<s, n>>
  IN \/ id \in DOMAIN tables.positions /\ ~tables.positions[id].open
     \/ id \notin DOMAIN tables.positions /\ PositionJob(s, n) \notin Range(jobs)
     \/ Lasts(jobs, CloseJob(s, n), {PositionJob(s, n)})

(* Of one that is still to come there is nothing.                            *)
Untouched(tables, jobs, s, n) ==
  /\ <<s, n>> \notin DOMAIN tables.positions
  /\ PositionJob(s, n) \notin Range(jobs) /\ CloseJob(s, n) \notin Range(jobs)

(* The balance that is written last is the account's.                        *)
OtherBalances(x) == BalanceJobs \ {EquityJob(x)}
BalanceMirrored(tables, jobs) ==
  \/ tables.balance = balance /\ Range(jobs) \cap OtherBalances(balance) = {}
  \/ Lasts(jobs, EquityJob(balance), OtherBalances(balance))

PositionsMirrored(tables, jobs, s) ==
  /\ held[s] # 0 => HeldMirrored(tables, jobs, s)
  /\ \A n \in Nat \ {0} : /\ n # held[s] => PastMirrored(tables, jobs, s, n)
                          /\ n > Len(objects[s]) => Untouched(tables, jobs, s, n)

Mirrored(tables, jobs) ==
  /\ jobs \in Seq(AllJobs) /\ TableShape(tables)
  /\ \A i \in DOMAIN orders : OrderMirrored(tables, jobs, i)
  /\ \A s \in Symbols : PositionsMirrored(tables, jobs, s)
  /\ BalanceMirrored(tables, jobs)

WorkerShape ==
  /\ worker = [busy |-> worker.busy, todo |-> worker.todo, staged |-> worker.staged]
  /\ worker.busy \in BOOLEAN /\ (~worker.busy => worker.todo = << >>)
  /\ worker.todo \in Seq(AllJobs) /\ queue \in Seq(AllJobs)

MirrorInv ==
  ~lost => SoundInv /\ EndedInv /\ HeldInv /\ WorkerShape /\ Mirrored(Tables, Outstanding)

-----------------------------------------------------------------------------
(* What one job writes.                                                      *)

\* An order.
LEMMA OrderIsWritten ==
  ASSUME NEW tables, TableShape(tables), NEW i
  PROVE  LET after == Written(tables, OrderJob(i))
         IN /\ TableShape(after) /\ after.orders = Put(tables.orders, i, orders[i].status)
            /\ after.positions = tables.positions /\ after.balance = tables.balance
<1> DEFINE after == Written(tables, OrderJob(i))
           row == Put(tables.orders, i, orders[i].status)
<1>1. after = [tables EXCEPT !.orders = row]
  BY JobsDiffer DEF Written
<1>2. after.orders = row /\ after.positions = tables.positions /\ after.balance = tables.balance
  <2> HIDE DEF row, after
  <2> QED
    BY <1>1 DEF TableShape
<1>3. after = [orders |-> after.orders, positions |-> after.positions, balance |-> after.balance]
  <2> HIDE DEF row, after
  <2> QED
    BY <1>1 DEF TableShape
<1> HIDE DEF after
<1> QED
  BY <1>2, <1>3 DEF TableShape, row, after

\* A balance.
LEMMA BalanceIsWritten ==
  ASSUME NEW tables, TableShape(tables), NEW x
  PROVE  LET after == Written(tables, EquityJob(x))
         IN /\ TableShape(after) /\ after.orders = tables.orders
            /\ after.positions = tables.positions /\ after.balance = x
<1> DEFINE after == Written(tables, EquityJob(x))
<1>1. after = [tables EXCEPT !.balance = x]
  BY JobsDiffer DEF Written
<1>2. /\ after.orders = tables.orders /\ after.positions = tables.positions /\ after.balance = x
      /\ after = [orders |-> after.orders, positions |-> after.positions, balance |-> after.balance]
  <2> HIDE DEF after
  <2> QED
    BY <1>1 DEF TableShape
<1> HIDE DEF after
<1> QED
  BY <1>2 DEF TableShape, after

\* A position: its row is made open and stays as it was closed.
LEMMA PositionIsWritten ==
  ASSUME NEW tables, TableShape(tables), NEW s, NEW n
  PROVE  LET after == Written(tables, PositionJob(s, n))
             id == <<s, n>>
         IN /\ TableShape(after) /\ after.orders = tables.orders /\ after.balance = tables.balance
            /\ DOMAIN after.positions = DOMAIN tables.positions \union {id}
            /\ after.positions[id].object = objects[s][n]
            /\ after.positions[id].open <=> (id \in DOMAIN tables.positions => tables.positions[id].open)
            /\ \A other \in DOMAIN tables.positions \ {id} :
                 after.positions[other] = tables.positions[other]
<1> DEFINE after == Written(tables, PositionJob(s, n))
           id == <<s, n>>
           open == id \in DOMAIN tables.positions => tables.positions[id].open
           row == [open |-> open, object |-> objects[s][n]]
           rows == tables.positions
           put == Put(rows, id, row)
<1>1. after = [tables EXCEPT !.positions = put]
  <2>1. PositionRow(tables, id) = row
    BY DEF PositionRow
  <2> QED
    BY <2>1, JobsDiffer DEF Written
<1>2. /\ DOMAIN put = DOMAIN rows \union {id} /\ put[id] = row
      /\ \A other \in DOMAIN rows \ {id} : put[other] = rows[other]
  <2> HIDE DEF rows, id, row
  <2> QED
    BY DEF Put
<1>3. open \in BOOLEAN
  OBVIOUS
<1>4. row.object = objects[s][n] /\ (row.open <=> open) /\ row.open \in BOOLEAN
      /\ row = [open |-> row.open, object |-> row.object]
  <2> HIDE DEF open
  <2> QED
    BY <1>3
<1>5. /\ after.positions = put /\ after.orders = tables.orders /\ after.balance = tables.balance
      /\ after = [orders |-> after.orders, positions |-> after.positions, balance |-> after.balance]
  <2> HIDE DEF put, after
  <2> QED
    BY <1>1 DEF TableShape
<1>6. TableShape(after)
  <2> HIDE DEF put, after, row, id
  <2>1. ASSUME NEW k \in DOMAIN after.positions
        PROVE  /\ after.positions[k] = [open |-> after.positions[k].open,
                                         object |-> after.positions[k].object]
               /\ after.positions[k].open \in BOOLEAN
    BY <1>2, <1>4, <1>5 DEF TableShape
  <2> QED
    BY <1>5, <2>1 DEF TableShape
<1> HIDE DEF put, after, row
<1> QED
  BY <1>2, <1>4, <1>5, <1>6 DEF after

\* The end of a position, of which there is a row or not.
LEMMA CloseIsWritten ==
  ASSUME NEW tables, TableShape(tables), NEW s, NEW n
  PROVE  LET after == Written(tables, CloseJob(s, n))
             id == <<s, n>>
         IN /\ TableShape(after) /\ after.orders = tables.orders /\ after.balance = tables.balance
            /\ DOMAIN after.positions = DOMAIN tables.positions
            /\ id \in DOMAIN tables.positions => ~after.positions[id].open
            /\ \A other \in DOMAIN tables.positions \ {id} :
                 after.positions[other] = tables.positions[other]
<1> DEFINE after == Written(tables, CloseJob(s, n))
           id == <<s, n>>
           rows == tables.positions
           closing == [rows EXCEPT ![id].open = FALSE]
<1>1. CASE id \notin DOMAIN rows
  <2>1. after = tables
    BY <1>1, JobsDiffer DEF Written
  <2> HIDE DEF after
  <2> QED
    BY <1>1, <2>1 DEF after
<1>2. CASE id \in DOMAIN rows
  <2>1. after = [tables EXCEPT !.positions = closing]
    <3>1. after = [tables EXCEPT !.positions[id].open = FALSE]
      <4> DEFINE job == CloseJob(s, n)
      <4>1. job.kind = "close" /\ job.id = id
        BY JobsDiffer
      <4> HIDE DEF job, id
      <4>2. Written(tables, job) = IF job.id \in DOMAIN tables.positions
                                   THEN [tables EXCEPT !.positions[job.id].open = FALSE]
                                   ELSE tables
        BY <4>1 DEF Written
      <4> QED
        BY <1>2, <4>1, <4>2 DEF job
    <3> HIDE DEF after, id
    <3> QED
      BY <3>1
  <2>2. /\ DOMAIN closing = DOMAIN rows /\ closing[id] = [rows[id] EXCEPT !.open = FALSE]
        /\ \A other \in DOMAIN rows \ {id} : closing[other] = rows[other]
    <3> HIDE DEF rows, id
    <3> QED
      BY <1>2
  <2>3. /\ closing[id].open = FALSE
        /\ closing[id] = [open |-> closing[id].open, object |-> closing[id].object]
    <3>1. rows[id] = [open |-> rows[id].open, object |-> rows[id].object]
      BY <1>2 DEF TableShape
    <3> HIDE DEF rows, id, closing
    <3> QED
      BY <2>2, <3>1
  <2>4. /\ after.positions = closing /\ after.orders = tables.orders /\ after.balance = tables.balance
        /\ after = [orders |-> after.orders, positions |-> after.positions, balance |-> after.balance]
    <3> HIDE DEF closing, after
    <3> QED
      BY <2>1 DEF TableShape
  <2>5. TableShape(after)
    <3> HIDE DEF closing, after, id
    <3>1. ASSUME NEW k \in DOMAIN after.positions
          PROVE  /\ after.positions[k] = [open |-> after.positions[k].open,
                                           object |-> after.positions[k].object]
                 /\ after.positions[k].open \in BOOLEAN
      BY <2>2, <2>3, <2>4 DEF TableShape
    <3> QED
      BY <2>4, <3>1 DEF TableShape
  <2> HIDE DEF closing, after
  <2> QED
    BY <2>2, <2>3, <2>4, <2>5 DEF after
<1> QED
  BY <1>1, <1>2

\* What a job of any kind writes of an order, of a position and of the balance.
RowsAfter(tables, after, job) ==
  /\ TableShape(after)
  /\ \A i : IF job = OrderJob(i)
            THEN i \in DOMAIN after.orders /\ after.orders[i] = orders[i].status
            ELSE /\ i \in DOMAIN after.orders <=> i \in DOMAIN tables.orders
                 /\ i \in DOMAIN tables.orders => after.orders[i] = tables.orders[i]
  /\ \A s, n :
       LET id == <<s, n>>
           old == tables.positions
           new == after.positions
       IN /\ job = PositionJob(s, n) =>
               /\ id \in DOMAIN new /\ new[id].object = objects[s][n]
               /\ new[id].open <=> (id \in DOMAIN old => old[id].open)
          /\ job = CloseJob(s, n) =>
               (id \in DOMAIN new <=> id \in DOMAIN old) /\ (id \in DOMAIN new => ~new[id].open)
          /\ job # PositionJob(s, n) /\ job # CloseJob(s, n) =>
               (id \in DOMAIN new <=> id \in DOMAIN old) /\ (id \in DOMAIN old => new[id] = old[id])
  /\ \A x : job = EquityJob(x) => after.balance = x
  /\ job \notin BalanceJobs => after.balance = tables.balance

LEMMA JobIsWritten ==
  ASSUME NEW tables, TableShape(tables), NEW job \in AllJobs
  PROVE  RowsAfter(tables, Written(tables, job), job)
<1> DEFINE after == Written(tables, job)
<1>1. ASSUME NEW i, job = OrderJob(i) PROVE RowsAfter(tables, after, job)
  <2>1. /\ TableShape(after) /\ after.orders = Put(tables.orders, i, orders[i].status)
        /\ after.positions = tables.positions /\ after.balance = tables.balance
    BY <1>1, OrderIsWritten
  <2>2. \A j : OrderJob(j) = job <=> j = i
    BY <1>1, JobsDiffer
  <2>3. \A s, n, x : job # PositionJob(s, n) /\ job # CloseJob(s, n) /\ job # EquityJob(x)
    BY <1>1, JobsDiffer
  <2> HIDE DEF after
  <2>4. /\ DOMAIN after.orders = DOMAIN tables.orders \union {i} /\ after.orders[i] = orders[i].status
        /\ \A j \in DOMAIN tables.orders \ {i} : after.orders[j] = tables.orders[j]
    BY <2>1 DEF Put
  <2> QED
    BY <2>1, <2>2, <2>3, <2>4 DEF RowsAfter
<1>2. ASSUME NEW x, job = EquityJob(x) PROVE RowsAfter(tables, after, job)
  <2>1. /\ TableShape(after) /\ after.orders = tables.orders
        /\ after.positions = tables.positions /\ after.balance = x
    BY <1>2, BalanceIsWritten
  <2>2. \A i, s, n : job # PositionJob(s, n) /\ job # CloseJob(s, n) /\ job # OrderJob(i)
    BY <1>2, JobsDiffer
  <2>3. \A y : EquityJob(y) = job => y = x
    BY <1>2, JobsDiffer
  <2>4. job \in BalanceJobs
    <3>1. \A y : y \in Int => EquityJob(y) \in BalanceJobs
      BY DEF BalanceJobs
    <3>2. ASSUME NEW y \in Int, job = EquityJob(y) PROVE job \in BalanceJobs
      BY <3>1, <3>2
    <3>3. job \in BalanceJobs \/ (\E i \in Nat : job = OrderJob(i))
          \/ (\E s \in Symbols, n \in Nat : job = PositionJob(s, n) \/ job = CloseJob(s, n))
      BY DEF AllJobs
    <3> QED
      BY <2>2, <3>3
  <2> HIDE DEF after
  <2> QED
    BY <2>1, <2>2, <2>3, <2>4 DEF RowsAfter
<1>3. ASSUME NEW s, NEW n, job = PositionJob(s, n) PROVE RowsAfter(tables, after, job)
  <2> DEFINE id == <<s, n>>
  <2>1. /\ TableShape(after) /\ after.orders = tables.orders /\ after.balance = tables.balance
        /\ DOMAIN after.positions = DOMAIN tables.positions \union {id}
        /\ after.positions[id].object = objects[s][n]
        /\ after.positions[id].open <=> (id \in DOMAIN tables.positions => tables.positions[id].open)
        /\ \A other \in DOMAIN tables.positions \ {id} :
             after.positions[other] = tables.positions[other]
    BY <1>3, PositionIsWritten
  <2>2. \A i, x : job # OrderJob(i) /\ job # EquityJob(x)
    BY <1>3, JobsDiffer
  <2>3. \A t, m : job # CloseJob(t, m) /\ (job = PositionJob(t, m) <=> t = s /\ m = n)
    BY <1>3, JobsDiffer
  <2>4. \A t, m : <<t, m>> = id <=> t = s /\ m = n
    OBVIOUS
  <2> HIDE DEF after
  <2> QED
    BY <2>1, <2>2, <2>3, <2>4 DEF RowsAfter
<1>4. ASSUME NEW s, NEW n, job = CloseJob(s, n) PROVE RowsAfter(tables, after, job)
  <2> DEFINE id == <<s, n>>
  <2>1. /\ TableShape(after) /\ after.orders = tables.orders /\ after.balance = tables.balance
        /\ DOMAIN after.positions = DOMAIN tables.positions
        /\ id \in DOMAIN tables.positions => ~after.positions[id].open
        /\ \A other \in DOMAIN tables.positions \ {id} :
             after.positions[other] = tables.positions[other]
    BY <1>4, CloseIsWritten
  <2>2. \A i, x : job # OrderJob(i) /\ job # EquityJob(x)
    BY <1>4, JobsDiffer
  <2>3. \A t, m : job # PositionJob(t, m) /\ (job = CloseJob(t, m) <=> t = s /\ m = n)
    BY <1>4, JobsDiffer
  <2>4. \A t, m : <<t, m>> = id <=> t = s /\ m = n
    OBVIOUS
  <2> HIDE DEF after
  <2> QED
    BY <2>1, <2>2, <2>3, <2>4 DEF RowsAfter
<1> HIDE DEF after
<1>5. \/ \E i : job = OrderJob(i)
      \/ \E x : job = EquityJob(x)
      \/ \E s, n : job = PositionJob(s, n) \/ job = CloseJob(s, n)
  BY DEF AllJobs, BalanceJobs
<1> QED
  BY <1>1, <1>2, <1>3, <1>4, <1>5 DEF after

\* A mirror stays one when the first job is written.
LEMMA WritingKeepsMirror ==
  ASSUME WorksInv, EndedInv, HeldInv, NEW tables, NEW jobs, Mirrored(tables, jobs), jobs # << >>
  PROVE  Mirrored(Written(tables, Head(jobs)), Tail(jobs))
<1> DEFINE job == Head(jobs)
           rest == Tail(jobs)
           after == Written(tables, job)
<1>1. /\ rest \in Seq(AllJobs) /\ job \in AllJobs /\ Range(jobs) = {job} \union Range(rest)
  BY RangeOfRest DEF Mirrored
<1>2. RowsAfter(tables, after, job)
  BY <1>1, JobIsWritten DEF Mirrored
<1>3. \A other, others : Lasts(jobs, other, others) =>
        Lasts(rest, other, others) \/ (job = other /\ Range(rest) \cap others = {})
  BY LastsInRest DEF Mirrored
<1> HIDE DEF job, rest, after
<1>4. ASSUME NEW i \in DOMAIN orders PROVE OrderMirrored(after, rest, i)
  <2>1. OrderMirrored(tables, jobs, i)
    BY DEF Mirrored
  <2>2. CASE job = OrderJob(i)
    <3>1. i \in DOMAIN after.orders /\ after.orders[i] = orders[i].status
      BY <1>2, <2>2 DEF RowsAfter
    <3>2. orders[i].type # "trailing_stop" => (orders[i].status \in Restorable <=> i \in PendingIds)
      <4>1. CASE i \in PendingIds
        BY <4>1 DEF WorksInv
      <4>2. CASE i \notin PendingIds
        BY <4>2 DEF EndedInv, Gone
      <4> QED
        BY <4>1, <4>2
    <3> QED
      BY <3>1, <3>2 DEF OrderMirrored
  <2>3. CASE job # OrderJob(i)
    <3>1. /\ i \in DOMAIN after.orders <=> i \in DOMAIN tables.orders
          /\ i \in DOMAIN tables.orders => after.orders[i] = tables.orders[i]
      BY <1>2, <2>3 DEF RowsAfter
    <3> QED
      BY <1>1, <2>1, <2>3, <3>1 DEF OrderMirrored
  <2> QED
    BY <2>2, <2>3
<1>5. ASSUME NEW s \in Symbols PROVE PositionsMirrored(after, rest, s)
  <2>1. PositionsMirrored(tables, jobs, s)
    BY DEF Mirrored
  <2>2. ASSUME held[s] # 0 PROVE HeldMirrored(after, rest, s)
    <3> DEFINE n == held[s]
               id == <<s, n>>
               old == tables.positions
               new == after.positions
    <3>1. /\ CloseJob(s, n) \notin Range(jobs) /\ (id \in DOMAIN old => old[id].open)
          /\ \/ PositionJob(s, n) \in Range(jobs)
             \/ id \in DOMAIN old /\ SameObject(old[id].object, positions[s])
      BY <2>1, <2>2 DEF PositionsMirrored, HeldMirrored
    <3>2. SameObject(objects[s][n], positions[s])
      BY <2>2 DEF HeldInv
    <3>3. /\ job = PositionJob(s, n) =>
               /\ id \in DOMAIN new /\ new[id].object = objects[s][n]
               /\ new[id].open <=> (id \in DOMAIN old => old[id].open)
          /\ job # PositionJob(s, n) /\ job # CloseJob(s, n) =>
               (id \in DOMAIN new <=> id \in DOMAIN old) /\ (id \in DOMAIN old => new[id] = old[id])
      BY <1>2 DEF RowsAfter
    <3> HIDE DEF id, n
    <3>4. CloseJob(s, n) \notin Range(rest) /\ job # CloseJob(s, n)
      BY <1>1, <3>1
    <3>5. /\ id \in DOMAIN new => new[id].open
          /\ \/ PositionJob(s, n) \in Range(rest)
             \/ id \in DOMAIN new /\ SameObject(new[id].object, positions[s])
      <4>1. CASE job = PositionJob(s, n)
        BY <3>1, <3>2, <3>3, <4>1
      <4>2. CASE job # PositionJob(s, n)
        BY <1>1, <3>1, <3>3, <3>4, <4>2
      <4> QED
        BY <4>1, <4>2
    <3> QED
      BY <3>4, <3>5 DEF HeldMirrored, id, n
  <2>3. ASSUME NEW n \in Nat \ {0}, n # held[s] PROVE PastMirrored(after, rest, s, n)
    <3> DEFINE id == <<s, n>>
               old == tables.positions
               new == after.positions
    <3>1. \/ id \in DOMAIN old /\ ~old[id].open
          \/ id \notin DOMAIN old /\ PositionJob(s, n) \notin Range(jobs)
          \/ Lasts(jobs, CloseJob(s, n), {PositionJob(s, n)})
      BY <2>1, <2>3 DEF PositionsMirrored, PastMirrored
    <3>2. /\ job = PositionJob(s, n) =>
               /\ id \in DOMAIN new
               /\ new[id].open <=> (id \in DOMAIN old => old[id].open)
          /\ job = CloseJob(s, n) =>
               (id \in DOMAIN new <=> id \in DOMAIN old) /\ (id \in DOMAIN new => ~new[id].open)
          /\ job # PositionJob(s, n) /\ job # CloseJob(s, n) =>
               (id \in DOMAIN new <=> id \in DOMAIN old) /\ (id \in DOMAIN old => new[id] = old[id])
      BY <1>2 DEF RowsAfter
    <3>3. PositionJob(s, n) # CloseJob(s, n)
      BY JobsDiffer
    <3> HIDE DEF id
    <3>4. \/ id \in DOMAIN new /\ ~new[id].open
          \/ id \notin DOMAIN new /\ PositionJob(s, n) \notin Range(rest)
          \/ Lasts(rest, CloseJob(s, n), {PositionJob(s, n)})
      <4>1. CASE id \in DOMAIN old /\ ~old[id].open
        BY <3>2, <4>1
      <4>2. CASE id \notin DOMAIN old /\ PositionJob(s, n) \notin Range(jobs)
        BY <1>1, <3>2, <4>2
      <4>3. CASE job = CloseJob(s, n) /\ Range(rest) \cap {PositionJob(s, n)} = {}
        BY <3>2, <4>3
      <4> QED
        BY <1>3, <3>1, <4>1, <4>2, <4>3
    <3> QED
      BY <3>4 DEF PastMirrored, id
  <2>4. ASSUME NEW n \in Nat \ {0}, n > Len(objects[s]) PROVE Untouched(after, rest, s, n)
    <3>1. Untouched(tables, jobs, s, n)
      BY <2>1, <2>4 DEF PositionsMirrored
    <3>2. job # PositionJob(s, n) /\ job # CloseJob(s, n)
      BY <1>1, <3>1 DEF Untouched
    <3>3. <<s, n>> \in DOMAIN after.positions <=> <<s, n>> \in DOMAIN tables.positions
      BY <1>2, <3>2 DEF RowsAfter
    <3> QED
      BY <1>1, <3>1, <3>3 DEF Untouched
  <2> QED
    BY <2>2, <2>3, <2>4 DEF PositionsMirrored
<1>6. BalanceMirrored(after, rest)
  <2> DEFINE mine == EquityJob(balance)
             others == OtherBalances(balance)
  <2>1. \/ tables.balance = balance /\ Range(jobs) \cap others = {}
        \/ Lasts(jobs, mine, others)
    BY DEF Mirrored, BalanceMirrored
  <2>2. job = mine => after.balance = balance
    BY <1>2 DEF RowsAfter
  <2>3. job \notin BalanceJobs => after.balance = tables.balance
    BY <1>2 DEF RowsAfter
  <2>4. \A x : x \in BalanceJobs => x \in others \/ x = mine
    BY DEF OtherBalances
  <2> HIDE DEF mine, others
  <2>5. CASE tables.balance = balance /\ Range(jobs) \cap others = {}
    <3>1. job \notin others /\ Range(rest) \cap others = {}
      BY <1>1, <2>5
    <3>2. after.balance = balance
      BY <2>2, <2>3, <2>4, <2>5, <3>1
    <3> QED
      BY <3>1, <3>2 DEF BalanceMirrored, others
  <2>6. CASE Lasts(rest, mine, others)
    BY <2>6 DEF BalanceMirrored, mine, others
  <2>7. CASE job = mine /\ Range(rest) \cap others = {}
    BY <2>2, <2>7 DEF BalanceMirrored, mine, others
  <2> QED
    BY <1>3, <2>1, <2>5, <2>6, <2>7
<1>7. TableShape(after)
  BY <1>2 DEF RowsAfter
<1> QED
  BY <1>1, <1>4, <1>5, <1>6, <1>7 DEF Mirrored, job, rest, after

-----------------------------------------------------------------------------
(* The worker and the mirror.                                                *)

\* While the engine rests, only what is written and what waits may change.
LEMMA RestKeepsMirror ==
  ASSUME SoundInv, EndedInv, HeldInv, UNCHANGED <<engineVars, objects, held>>,
         NEW tables, NEW jobs, Mirrored(tables, jobs),
         Tables' = tables, Outstanding' = jobs, WorkerShape'
  PROVE  MirrorInv'
<1>1. /\ UNCHANGED <<balance, positions, closed, events, cash, net, dust>>
      /\ UNCHANGED <<orders, pending, tick, objects, held>>
  BY DEF engineVars, accountVars, bookVars
<1>2. PendingIds' = PendingIds
  BY <1>1 DEF PendingIds
<1>3. SoundInv'
  BY <1>1, <1>2 DEF SoundInv, AccountTypeOK, TickInv
<1>4. EndedInv' /\ HeldInv'
  BY <1>1, <1>2 DEF EndedInv, HeldInv
<1>5. \A i \in DOMAIN orders' : OrderMirrored(Tables, Outstanding, i)'
  BY <1>1, <1>2 DEF Mirrored, OrderMirrored
<1>6. ASSUME NEW s \in Symbols PROVE PositionsMirrored(Tables, Outstanding, s)'
  <2>1. PositionsMirrored(tables, jobs, s)
    BY DEF Mirrored
  <2>2. held[s] # 0 => HeldMirrored(Tables, Outstanding, s)'
    BY <1>1, <2>1 DEF PositionsMirrored, HeldMirrored
  <2>3. ASSUME NEW n \in Nat \ {0}
        PROVE  /\ n # held[s] => PastMirrored(Tables, Outstanding, s, n)'
               /\ n > Len(objects[s]) => Untouched(Tables, Outstanding, s, n)'
    BY <1>1, <2>1 DEF PositionsMirrored, PastMirrored, Untouched
  <2> QED
    BY <1>1, <2>2, <2>3 DEF PositionsMirrored
<1>7. BalanceMirrored(Tables, Outstanding)'
  BY <1>1 DEF Mirrored, BalanceMirrored
<1>8. jobs \in Seq(AllJobs) /\ TableShape(tables)
  BY DEF Mirrored
<1> QED
  BY <1>3, <1>4, <1>5, <1>6, <1>7, <1>8 DEF MirrorInv, Mirrored

\* Taking a batch opens a transaction on the tables and leaves the jobs in order.
LEMMA TakeBatchKeepsMirror ==
  ASSUME MirrorInv, TakeBatch
  PROVE  MirrorInv'
<1> SUFFICES ASSUME ~lost PROVE MirrorInv'
  BY DEF MirrorInv, TakeBatch
<1> DEFINE size == Min({Len(queue), BatchSize})
<1>1. /\ worker' = [busy |-> TRUE, todo |-> SubSeq(queue, 1, size), staged |-> durable]
      /\ queue' = SubSeq(queue, size + 1, Len(queue)) /\ queue # << >> /\ ~worker.busy
      /\ UNCHANGED <<engineVars, objects, held, durable, lost>>
  BY DEF TakeBatch
<1>2. SoundInv /\ EndedInv /\ HeldInv /\ WorkerShape /\ Mirrored(Tables, Outstanding)
  BY DEF MirrorInv
<1>3. queue \in Seq(AllJobs) /\ Len(queue) \in Nat /\ worker.todo = << >>
  BY <1>1, <1>2, LenProperties DEF WorkerShape
<1>4. size \in Nat /\ size <= Len(queue)
  <2>1. \E x \in {Len(queue), BatchSize} : \A y \in {Len(queue), BatchSize} : x <= y
    BY <1>3, PersistenceAssumption
  <2> QED
    BY <1>3, <2>1, PersistenceAssumption DEF Min
<1> HIDE DEF size
<1>5. /\ SubSeq(queue, 1, size) \o SubSeq(queue, size + 1, Len(queue)) = queue
      /\ SubSeq(queue, 1, size) \in Seq(AllJobs)
      /\ SubSeq(queue, size + 1, Len(queue)) \in Seq(AllJobs)
  <2>1. \A i \in 1 .. Len(queue) : queue[i] \in AllJobs
    BY <1>3, ElementOfSeq
  <2>2. (\A i \in 1 .. size : queue[i] \in AllJobs)
        /\ \A i \in size + 1 .. Len(queue) : queue[i] \in AllJobs
    BY <1>3, <1>4, <2>1
  <2>3. SubSeq(queue, 1, size) \in Seq(AllJobs)
    BY <1>4, <2>2, SubSeqProperties
  <2>4. SubSeq(queue, size + 1, Len(queue)) \in Seq(AllJobs)
    <3>1. size + 1 \in Int /\ Len(queue) \in Int
      BY <1>3, <1>4
    <3> QED
      BY <2>2, <3>1, SubSeqProperties
  <2>5. SubSeq(queue, 1, size) \o SubSeq(queue, size + 1, Len(queue)) = SubSeq(queue, 1, Len(queue))
    <3>1. /\ 1 \in 1 .. Len(queue) + 1 /\ size \in 1 - 1 .. Len(queue)
          /\ Len(queue) \in size .. Len(queue)
      BY <1>3, <1>4
    <3> QED
      BY <1>3, <3>1, ConcatAdjacentSubSeq
  <2> QED
    BY <1>3, <2>3, <2>4, <2>5, SubSeqFull
<1>6. Outstanding = queue
  BY <1>3, ConcatEmptySeq DEF Outstanding
<1>7. Tables' = Tables /\ Outstanding' = Outstanding /\ WorkerShape'
  <2>1. Tables' = Tables
    BY <1>1 DEF Tables
  <2>2. Outstanding' = Outstanding
    BY <1>1, <1>5, <1>6 DEF Outstanding
  <2>3. WorkerShape'
    BY <1>1, <1>5 DEF WorkerShape
  <2> QED
    BY <2>1, <2>2, <2>3
<1> QED
  BY <1>1, <1>2, <1>7, RestKeepsMirror

\* Writing takes the first job off the list and puts it into the tables.
LEMMA WriteJobKeepsMirror ==
  ASSUME WorksInv, MirrorInv, WriteJob
  PROVE  MirrorInv'
<1> SUFFICES ASSUME ~lost PROVE MirrorInv'
  BY DEF MirrorInv, WriteJob
<1> DEFINE after == Written(worker.staged, Head(worker.todo))
<1>1. /\ worker' = [worker EXCEPT !.todo = Tail(worker.todo), !.staged = after]
      /\ worker.busy /\ worker.todo # << >>
      /\ UNCHANGED <<engineVars, objects, held, queue, durable, lost>>
  BY DEF WriteJob
<1>2. SoundInv /\ EndedInv /\ HeldInv /\ WorkerShape /\ Mirrored(Tables, Outstanding)
  BY DEF MirrorInv
<1>3. /\ worker.todo \in Seq(AllJobs) /\ queue \in Seq(AllJobs) /\ worker.busy = TRUE
      /\ worker = [busy |-> worker.busy, todo |-> worker.todo, staged |-> worker.staged]
  BY <1>1, <1>2 DEF WorkerShape
<1> HIDE DEF after
<1>4. /\ worker' = [busy |-> TRUE, todo |-> Tail(worker.todo), staged |-> after]
      /\ Tail(worker.todo) \in Seq(AllJobs)
  BY <1>1, <1>3, RangeOfRest
<1>5. /\ Outstanding \in Seq(AllJobs) /\ Outstanding # << >>
      /\ Head(Outstanding) = Head(worker.todo) /\ Tail(Outstanding) = Tail(worker.todo) \o queue
  <2> DEFINE a == worker.todo
             b == queue
  <2>1. /\ a \o b \in Seq(AllJobs) /\ Len(a \o b) = Len(a) + Len(b)
        /\ \A i \in 1 .. Len(a) + Len(b) :
             (a \o b)[i] = IF i <= Len(a) THEN a[i] ELSE b[i - Len(a)]
    BY <1>3, ConcatProperties
  <2>2. /\ Tail(a) \o b \in Seq(AllJobs) /\ Len(Tail(a) \o b) = Len(Tail(a)) + Len(b)
        /\ \A i \in 1 .. Len(Tail(a)) + Len(b) :
             (Tail(a) \o b)[i] = IF i <= Len(Tail(a)) THEN Tail(a)[i] ELSE b[i - Len(Tail(a))]
    BY <1>3, <1>4, ConcatProperties
  <2>3. /\ Len(a) \in Nat \ {0} /\ Len(b) \in Nat /\ Len(Tail(a)) = Len(a) - 1
        /\ \A i \in 1 .. Len(Tail(a)) : Tail(a)[i] = a[i + 1]
    BY <1>1, <1>3, LenProperties, EmptySeq, HeadTailProperties
  <2>4. Len(a \o b) # 0 /\ (a \o b) # << >>
    BY <2>1, <2>3, EmptySeq
  <2>5. /\ Tail(a \o b) \in Seq(AllJobs) /\ Len(Tail(a \o b)) = Len(a \o b) - 1
        /\ \A i \in 1 .. Len(Tail(a \o b)) : Tail(a \o b)[i] = (a \o b)[i + 1]
    BY <2>1, <2>4, HeadTailProperties
  <2>6. Head(a \o b) = Head(a)
    BY <2>1, <2>3
  <2>7. ASSUME NEW i \in 1 .. Len(Tail(a \o b)) PROVE Tail(a \o b)[i] = (Tail(a) \o b)[i]
    <3>1. i \in 1 .. Len(a) - 1 + Len(b) /\ i + 1 \in 1 .. Len(a) + Len(b)
      BY <2>1, <2>3, <2>5
    <3>2. (i <= Len(a) - 1 => i \in 1 .. Len(Tail(a)) /\ i + 1 <= Len(a))
          /\ (~(i <= Len(a) - 1) => ~(i + 1 <= Len(a)) /\ i + 1 - Len(a) = i - (Len(a) - 1))
      BY <2>3, <3>1
    <3> HIDE DEF a, b
    <3> QED
      BY <2>1, <2>2, <2>3, <2>5, <3>1, <3>2
  <2>8. Len(Tail(a \o b)) = Len(Tail(a) \o b)
    BY <2>1, <2>2, <2>3, <2>5
  <2>9. Tail(a \o b) = Tail(a) \o b
    BY <2>2, <2>5, <2>7, <2>8, SeqEqual
  <2> QED
    BY <2>1, <2>4, <2>6, <2>9 DEF Outstanding
<1>6. Mirrored(after, Tail(Outstanding))
  <2>1. Tables = worker.staged
    BY <1>1 DEF Tables
  <2> QED
    BY <1>2, <1>5, <2>1, WritingKeepsMirror DEF after
<1>7. Tables' = after /\ Outstanding' = Tail(Outstanding) /\ WorkerShape'
  <2>1. Tables' = after
    BY <1>4 DEF Tables
  <2>2. Outstanding' = Tail(Outstanding)
    BY <1>1, <1>4, <1>5 DEF Outstanding
  <2>3. WorkerShape'
    BY <1>1, <1>3, <1>4 DEF WorkerShape
  <2> QED
    BY <2>1, <2>2, <2>3
<1> QED
  BY <1>1, <1>2, <1>6, <1>7, RestKeepsMirror

\* A commit makes the tables of the transaction those of the database; a failure
\* loses writes, and nothing is claimed after that.
LEMMA BatchEndKeepsMirror ==
  ASSUME MirrorInv, Commit \/ FailBatch
  PROVE  MirrorInv'
<1>1. CASE FailBatch
  BY <1>1 DEF FailBatch, MirrorInv
<1>2. CASE Commit /\ lost
  BY <1>2 DEF Commit, MirrorInv
<1>3. CASE Commit /\ ~lost
  <2>1. /\ worker' = Idle /\ durable' = worker.staged /\ worker.busy /\ worker.todo = << >>
        /\ UNCHANGED <<engineVars, objects, held, queue>>
    BY <1>3 DEF Commit
  <2>2. SoundInv /\ EndedInv /\ HeldInv /\ WorkerShape /\ Mirrored(Tables, Outstanding)
    BY <1>3 DEF MirrorInv
  <2>3. worker' = [busy |-> FALSE, todo |-> << >>, staged |-> EmptyTables]
    BY <2>1 DEF Idle
  <2>4. Tables' = Tables
    BY <2>1, <2>3 DEF Tables
  <2>5. Outstanding' = Outstanding
    BY <2>1, <2>3 DEF Outstanding
  <2>6. WorkerShape'
    BY <2>1, <2>2, <2>3, EmptySeq DEF WorkerShape
  <2> QED
    BY <2>1, <2>2, <2>4, <2>5, <2>6, RestKeepsMirror
<1> QED
  BY <1>1, <1>2, <1>3

-----------------------------------------------------------------------------
(* The engine and the mirror.                                                *)

\* One job on a list, or none.
LEMMA ShortRange ==
  /\ Range(<< >>) = {}
  /\ \A x : Range(<<x>>) = {x}
  BY DEF Range

\* The jobs of a fill: the end of the position, the position, and the balance.
LEMMA FillJobsRange ==
  ASSUME NEW s \in Symbols, held[s] \in Nat, HeldAfter(s) \in Nat, balance' \in Int
  PROVE  /\ FillJobs(s) \in Seq(AllJobs)
         /\ Range(FillJobs(s)) =
              (IF Ends(s) THEN {CloseJob(s, held[s])} ELSE {})
              \union (IF IsOpen(positions'[s]) THEN {PositionJob(s, HeldAfter(s))} ELSE {})
              \union {EquityJob(balance')}
<1> DEFINE a == IF Ends(s) THEN <<CloseJob(s, held[s])>> ELSE << >>
           b == IF IsOpen(positions'[s]) THEN <<PositionJob(s, HeldAfter(s))>> ELSE << >>
           c == <<EquityJob(balance')>>
<1>1. /\ CloseJob(s, held[s]) \in AllJobs /\ PositionJob(s, HeldAfter(s)) \in AllJobs
      /\ EquityJob(balance') \in AllJobs
  <2>1. EquityJob(balance') \in BalanceJobs
    BY DEF BalanceJobs
  <2> QED
    BY <2>1 DEF AllJobs
<1>2. a \in Seq(AllJobs) /\ b \in Seq(AllJobs) /\ c \in Seq(AllJobs)
  <2>1. \A x \in AllJobs : <<x>> \in Seq(AllJobs)
    OBVIOUS
  <2>2. << >> \in Seq(AllJobs)
    OBVIOUS
  <2> QED
    BY <1>1, <2>1, <2>2
<1>3. /\ Range(a) = IF Ends(s) THEN {CloseJob(s, held[s])} ELSE {}
      /\ Range(b) = IF IsOpen(positions'[s]) THEN {PositionJob(s, HeldAfter(s))} ELSE {}
      /\ Range(c) = {EquityJob(balance')}
  BY ShortRange
<1>4. FillJobs(s) = (a \o b) \o c
  BY DEF FillJobs
<1> HIDE DEF a, b, c
<1>5. a \o b \in Seq(AllJobs) /\ Range(a \o b) = Range(a) \union Range(b)
  BY <1>2, JoinedRange, ConcatProperties
<1>6. (a \o b) \o c \in Seq(AllJobs) /\ Range((a \o b) \o c) = Range(a \o b) \union Range(c)
  <2> DEFINE ab == a \o b
  <2>1. ab \in Seq(AllJobs)
    BY <1>5
  <2> HIDE DEF ab
  <2>2. ab \o c \in Seq(AllJobs) /\ Range(ab \o c) = Range(ab) \union Range(c)
    BY <1>2, <2>1, JoinedRange, ConcatProperties
  <2> QED
    BY <2>2 DEF ab
<1> QED
  BY <1>3, <1>4, <1>5, <1>6

\* The jobs of the orders that are notified.
LEMMA OrderJobsRange ==
  ASSUME Listed(orders')
  PROVE  OrderJobs \in Seq(AllJobs) /\ Range(OrderJobs) = {OrderJob(i) : i \in Notified}
<1> DEFINE D == DOMAIN orders'
           N == Notified
           seq == InOrder(N)
           n == Cardinality(N)
<1>1. Len(orders') \in Nat /\ D = 1 .. Len(orders')
  BY ListedShape
<1>2. IsFiniteSet(D) /\ D \subseteq Nat /\ N \subseteq D
  BY <1>1, FS_Interval DEF Notified
<1>3. IsFiniteSet(N) /\ N \in SUBSET Int
  BY <1>2, FS_Subset
<1> HIDE DEF N
<1>4. /\ n \in Nat /\ AscendingIn(N, seq) /\ \A i \in N : \E k \in 1 .. n : seq[k] = i
  BY <1>3, InOrderIsOrdered, OrderedHasAll, FS_CardinalityType
<1> HIDE DEF D
<1>5. \A k \in 1 .. n : seq[k] \in N
  BY <1>4 DEF AscendingIn
<1>6. OrderJobs = [k \in 1 .. n |-> OrderJob(seq[k])]
  BY DEF OrderJobs, N
<1> HIDE DEF seq, n
<1>7. \A k \in 1 .. n : OrderJob(seq[k]) \in AllJobs
  BY <1>2, <1>5 DEF AllJobs
<1>8. OrderJobs \in Seq(AllJobs)
  BY <1>4, <1>6, <1>7
<1>9. Range(OrderJobs) = {OrderJob(seq[k]) : k \in 1 .. n}
  BY <1>6 DEF Range
<1>10. {OrderJob(seq[k]) : k \in 1 .. n} = {OrderJob(i) : i \in N}
  BY <1>4, <1>5
<1> QED
  BY <1>8, <1>9, <1>10 DEF N

\* A list stays one when an element is added.
LEMMA AddedIsListed ==
  ASSUME NEW seq, Listed(seq), NEW v
  PROVE  /\ Listed(Append(seq, v)) /\ Len(Append(seq, v)) = Len(seq) + 1
         /\ Append(seq, v)[Len(seq) + 1] = v
<1> DEFINE S == Range(seq) \union {v}
<1>1. seq \in Seq(S) /\ v \in S
  <2>1. seq \in Seq(Range(seq)) /\ Range(seq) \subseteq S
    BY DEF Listed
  <2> HIDE DEF S
  <2>2. seq \in Seq(S)
    BY <2>1, SeqMonotonic
  <2> QED
    BY <2>2 DEF S
<1> HIDE DEF S
<1>2. /\ Append(seq, v) \in Seq(S) /\ Len(Append(seq, v)) = Len(seq) + 1
      /\ Append(seq, v)[Len(seq) + 1] = v
  BY <1>1, AppendProperties
<1> QED
  BY <1>2, SequenceIsListed

\* The object that is held follows the position: one that ends is left behind,
\* and one that begins is a new one.
LEMMA HeldStep ==
  ASSUME HeldInv, EngineStep, NEW s \in Symbols
  PROVE  /\ held'[s] = HeldAfter(s) /\ HeldAfter(s) \in Nat
         /\ Listed(objects'[s]) /\ Len(objects'[s]) >= Len(objects[s])
         /\ held'[s] <= Len(objects'[s])
         /\ held'[s] # 0 <=> IsOpen(positions'[s])
         /\ held'[s] # 0 => SameObject(objects'[s][held'[s]], positions'[s])
<1> DEFINE h == held[s]
           old == objects[s]
           now == ObjectOf(s)'
           touched == Touched(s)
<1>1. held'[s] = HeldAfter(s) /\ objects'[s] = ObjectsAfter(s)
  BY DEF EngineStep
<1>2. /\ Listed(old) /\ Len(old) \in Nat /\ h \in Nat /\ h <= Len(old)
      /\ h # 0 <=> IsOpen(positions[s])
  BY ListedShape DEF HeldInv
<1>3. SameObject(now, positions'[s])
  BY DEF SameObject, ObjectOf, Booked
<1>4. /\ Listed(touched) /\ Len(touched) = Len(old)
      /\ h # 0 /\ ~Ends(s) => touched[h] = now
  <2>1. CASE h = 0
    BY <1>2, <2>1 DEF Touched
  <2>2. CASE h # 0
    <3> DEFINE v == IF Ends(s) THEN Final(s) ELSE now
    <3>1. touched = [old EXCEPT ![h] = v] /\ h \in 1 .. Len(old)
      BY <1>2, <2>2 DEF Touched
    <3>2. ~Ends(s) => v = now
      OBVIOUS
    <3> HIDE DEF v, touched, now, old, h
    <3>3. DOMAIN old = 1 .. Len(old)
      BY <1>2, ListedShape
    <3>4. touched = [i \in 1 .. Len(old) |-> touched[i]] /\ touched[h] = v
      BY <3>1, <3>3
    <3>5. Listed(touched) /\ Len(touched) = Len(old)
      BY <1>2, <3>4, FunctionIsListed
    <3> QED
      BY <3>2, <3>4, <3>5
  <2> QED
    BY <2>1, <2>2
<1> HIDE DEF touched, now
<1>5. CASE Begins(s)
  <2>1. /\ HeldAfter(s) = Len(old) + 1 /\ ObjectsAfter(s) = Append(touched, now)
        /\ IsOpen(positions'[s])
    BY <1>5 DEF HeldAfter, ObjectsAfter, Begins, touched, now
  <2>2. /\ Listed(Append(touched, now)) /\ Len(Append(touched, now)) = Len(old) + 1
        /\ Append(touched, now)[Len(old) + 1] = now
    BY <1>4, AddedIsListed
  <2>3. Len(old) + 1 \in Nat /\ Len(old) + 1 # 0 /\ Len(old) + 1 >= Len(old)
        /\ Len(old) + 1 <= Len(old) + 1
    BY <1>2
  <2> HIDE DEF old
  <2> QED
    BY <1>1, <1>3, <2>1, <2>2, <2>3 DEF old
<1>6. CASE ~Begins(s) /\ Ends(s)
  <2>1. HeldAfter(s) = 0 /\ ObjectsAfter(s) = touched /\ ~IsOpen(positions'[s])
    BY <1>6 DEF HeldAfter, ObjectsAfter, Begins, touched
  <2> QED
    BY <1>1, <1>2, <1>4, <2>1
<1>7. CASE ~Begins(s) /\ ~Ends(s)
  <2>1. HeldAfter(s) = h /\ ObjectsAfter(s) = touched
    BY <1>7 DEF HeldAfter, ObjectsAfter, touched
  <2>2. h # 0 <=> IsOpen(positions'[s])
    BY <1>7 DEF Begins, Ends
  <2> QED
    BY <1>1, <1>2, <1>3, <1>4, <1>7, <2>1, <2>2
<1> QED
  BY <1>5, <1>6, <1>7

(* What the jobs of a step say of the position of a symbol.                  *)
PositionJobsOf(s) ==
  /\ \A n : PositionJob(s, n) \in Range(Jobs) => IsOpen(positions'[s]) /\ n = HeldAfter(s)
  /\ \A n : CloseJob(s, n) \in Range(Jobs) => Ends(s) /\ n = held[s]
  /\ Ends(s) => CloseJob(s, held[s]) \in Range(Jobs)
  /\ \/ positions'[s] = positions[s]
     \/ IsOpen(positions'[s]) => PositionJob(s, HeldAfter(s)) \in Range(Jobs)

(* A position that does not move neither ends nor begins.                    *)
LEMMA StillPosition ==
  ASSUME HeldInv, NEW s \in Symbols, positions'[s] = positions[s]
  PROVE  ~Ends(s) /\ ~Begins(s)
  BY DEF HeldInv, Ends, Begins

\* A step that books a fill makes the jobs of the fill, and every step those of
\* the orders it notifies.
LEMMA JobsOfStep ==
  ASSUME HeldInv, EngineStep, SoundStep
  PROVE  /\ Jobs \in Seq(AllJobs)
         /\ \A i \in Notified : OrderJob(i) \in Range(Jobs)
         /\ \A s \in Symbols : PositionJobsOf(s)
         /\ \/ balance' = balance /\ Range(Jobs) \cap BalanceJobs = {}
            \/ Lasts(Jobs, EquityJob(balance'), OtherBalances(balance'))
<1> DEFINE told == {OrderJob(i) : i \in Notified}
<1>1. OrderJobs \in Seq(AllJobs) /\ Range(OrderJobs) = told
  <2>1. Listed(orders')
    BY SequenceIsListed DEF SoundStep, SoundInv
  <2> QED
    BY <2>1, OrderJobsRange
<1>2. /\ \A job \in told : job.kind = "order"
      /\ \A i \in Notified : OrderJob(i) \in told
  BY JobsDiffer
<1>3. /\ \A s, n : PositionJob(s, n).kind = "position" /\ CloseJob(s, n).kind = "close"
      /\ \A job \in BalanceJobs : job.kind = "equity"
  BY JobsDiffer DEF BalanceJobs
<1> HIDE DEF told
<1>4. CASE NothingBooked
  <2>1. Jobs = << >> \o OrderJobs
    BY <1>4 DEF NothingBooked, Jobs
  <2>2. Jobs \in Seq(AllJobs) /\ Range(Jobs) = told
    BY <1>1, <2>1, ConcatEmptySeq
  <2>3. \A s \in Symbols : positions'[s] = positions[s]
    BY <1>4 DEF NothingBooked
  <2>4. \A s \in Symbols : PositionJobsOf(s)
    <3>1. \A s, n : PositionJob(s, n) \notin Range(Jobs) /\ CloseJob(s, n) \notin Range(Jobs)
      BY <1>2, <1>3, <2>2
    <3> QED
      BY <2>3, <3>1, StillPosition DEF PositionJobsOf
  <2>5. balance' = balance /\ Range(Jobs) \cap BalanceJobs = {}
    BY <1>2, <1>3, <1>4, <2>2 DEF NothingBooked
  <2> QED
    BY <1>2, <2>2, <2>4, <2>5
<1>5. CASE FillBooked
  <2> DEFINE s == tick.book.symbol
             ending == IF Ends(s) THEN {CloseJob(s, held[s])} ELSE {}
             open == IF IsOpen(positions'[s]) THEN {PositionJob(s, HeldAfter(s))} ELSE {}
             paid == {EquityJob(balance')}
  <2>1. s \in Symbols /\ Jobs = FillJobs(s) \o OrderJobs
    BY <1>5 DEF FillBooked, Jobs
  <2>2. balance' \in Int /\ held[s] \in Nat /\ HeldAfter(s) \in Nat
    <3>1. balance' \in Int
      BY DEF SoundStep, SoundInv, AccountTypeOK
    <3> QED
      BY <2>1, <3>1, HeldStep DEF HeldInv
  <2>3. FillJobs(s) \in Seq(AllJobs) /\ Range(FillJobs(s)) = ending \union open \union paid
    BY <2>1, <2>2, FillJobsRange
  <2>4. \A t \in Symbols \ {s} : positions'[t] = positions[t]
    BY <1>5 DEF FillBooked
  <2>5. /\ \A t, n : CloseJob(t, n) \in ending => t = s /\ Ends(s) /\ n = held[s]
        /\ Ends(s) => CloseJob(s, held[s]) \in ending
        /\ \A job \in ending : job.kind = "close"
    BY JobsDiffer
  <2>6. /\ \A t, n : PositionJob(t, n) \in open => t = s /\ IsOpen(positions'[s]) /\ n = HeldAfter(s)
        /\ IsOpen(positions'[s]) => PositionJob(s, HeldAfter(s)) \in open
        /\ \A job \in open : job.kind = "position"
    BY JobsDiffer
  <2>7. EquityJob(balance') \in paid /\ paid \cap OtherBalances(balance') = {}
        /\ \A job \in paid : job.kind = "equity"
    BY JobsDiffer DEF OtherBalances
  <2> HIDE DEF s, ending, open, paid
  <2>8. Jobs \in Seq(AllJobs) /\ Range(Jobs) = Range(FillJobs(s)) \union told
    BY <1>1, <2>1, <2>3, JoinedRange, ConcatProperties
  <2>9. Range(Jobs) = ending \union open \union paid \union told
    BY <2>3, <2>8
  <2>10. ASSUME NEW t \in Symbols PROVE PositionJobsOf(t)
    <3>1. \A n : PositionJob(t, n) \in Range(Jobs) => PositionJob(t, n) \in open
      BY <1>2, <1>3, <2>5, <2>7, <2>9
    <3>2. \A n : CloseJob(t, n) \in Range(Jobs) => CloseJob(t, n) \in ending
      BY <1>2, <1>3, <2>6, <2>7, <2>9
    <3>3. CASE t = s
      BY <2>5, <2>6, <2>9, <3>1, <3>2, <3>3 DEF PositionJobsOf
    <3>4. CASE t # s
      <4>1. positions'[t] = positions[t]
        BY <2>4, <3>4
      <4> QED
        BY <2>5, <2>6, <3>1, <3>2, <3>4, <4>1, StillPosition DEF PositionJobsOf
    <3> QED
      BY <3>3, <3>4
  <2>11. Lasts(Jobs, EquityJob(balance'), OtherBalances(balance'))
    <3> DEFINE mine == EquityJob(balance')
               others == OtherBalances(balance')
    <3>1. mine \in Range(Jobs)
      BY <2>7, <2>9
    <3>2. Range(Jobs) \cap others = {}
      <4>1. others \subseteq BalanceJobs
        BY DEF OtherBalances
      <4> HIDE DEF others
      <4>2. (ending \union open \union told) \cap others = {}
        BY <1>2, <1>3, <2>5, <2>6, <4>1
      <4> QED
        BY <2>7, <2>9, <4>2 DEF others
    <3> HIDE DEF mine, others
    <3>3. Lasts(Jobs, mine, others)
      BY <3>1, <3>2, LastsAlone
    <3> QED
      BY <3>3 DEF mine, others
  <2> QED
    BY <1>2, <2>8, <2>10, <2>11
<1> QED
  BY <1>4, <1>5 DEF SoundStep

\* The rows of the positions of a symbol are still a mirror, with the jobs of
\* the step behind those that wait.
LEMMA StepMirrorsPositions ==
  ASSUME HeldInv, EngineStep, NEW s \in Symbols, PositionJobsOf(s),
         PositionsMirrored(Tables, Outstanding, s),
         Outstanding \in Seq(AllJobs), Jobs \in Seq(AllJobs),
         Tables' = Tables, Outstanding' = Outstanding \o Jobs
  PROVE  PositionsMirrored(Tables, Outstanding, s)'
<1> DEFINE h == held[s]
           len == Len(objects[s])
           now == held'[s]
           more == Len(objects'[s])
           rows == Tables.positions
<1>1. Range(Outstanding') = Range(Outstanding) \union Range(Jobs)
  BY JoinedRange
<1>2. \A job, others :
        \/ Lasts(Jobs, job, others)
        \/ Lasts(Outstanding, job, others) /\ Range(Jobs) \cap others = {}
        => Lasts(Outstanding', job, others)
  BY JoinedLasts
<1>3. /\ now = HeldAfter(s) /\ now \in Nat /\ more >= len /\ now <= more
      /\ now # 0 <=> IsOpen(positions'[s])
      /\ len \in Nat /\ more \in Nat /\ h \in Nat /\ h <= len
  BY HeldStep, ListedShape DEF HeldInv
<1>4. /\ Begins(s) => now = len + 1 /\ positions'[s] # positions[s]
      /\ ~Begins(s) /\ Ends(s) => now = 0
      /\ ~Begins(s) /\ ~Ends(s) => now = h
      /\ h # 0 /\ now # h => Ends(s)
  <2>1. positions'[s] = positions[s] => ~Begins(s)
    BY StillPosition
  <2> QED
    BY <1>3, <2>1 DEF HeldAfter, Begins
<1>5. /\ \A n : PositionJob(s, n) \in Range(Jobs) => now # 0 /\ n = now
      /\ \A n : CloseJob(s, n) \in Range(Jobs) => Ends(s) /\ n = h
      /\ Ends(s) => CloseJob(s, h) \in Range(Jobs)
      /\ positions'[s] = positions[s] \/ (now # 0 => PositionJob(s, now) \in Range(Jobs))
  BY <1>3 DEF PositionJobsOf
<1>6. now # 0 => HeldMirrored(Tables, Outstanding, s)'
  <2> SUFFICES ASSUME now # 0
               PROVE  /\ CloseJob(s, now) \notin Range(Outstanding')
                      /\ <<s, now>> \in DOMAIN rows => rows[<<s, now>>].open
                      /\ \/ PositionJob(s, now) \in Range(Outstanding')
                         \/ /\ <<s, now>> \in DOMAIN rows
                            /\ SameObject(rows[<<s, now>>].object, positions'[s])
    <3>1. Tables'.positions = Tables.positions
      OBVIOUS
    <3> HIDE DEF rows
    <3> QED
      BY <3>1 DEF HeldMirrored, rows
  <2>1. CASE Begins(s)
    <3>1. now = len + 1 /\ now \in Nat \ {0} /\ now > len /\ now # h
      BY <1>3, <1>4, <2>1
    <3>2. Untouched(Tables, Outstanding, s, now)
      BY <3>1 DEF PositionsMirrored
    <3>3. CloseJob(s, now) \notin Range(Jobs) /\ PositionJob(s, now) \in Range(Jobs)
      BY <1>4, <1>5, <2>1, <3>1
    <3> QED
      BY <1>1, <3>2, <3>3 DEF Untouched
  <2>2. CASE ~Begins(s)
    <3>1. now = h /\ ~Ends(s)
      BY <1>4, <2>2
    <3>2. HeldMirrored(Tables, Outstanding, s)
      BY <3>1 DEF PositionsMirrored
    <3>3. CloseJob(s, now) \notin Range(Jobs)
      BY <1>5, <3>1
    <3> QED
      BY <1>1, <1>5, <3>1, <3>2, <3>3 DEF HeldMirrored
  <2> QED
    BY <2>1, <2>2
<1>7. ASSUME NEW n \in Nat \ {0}, n # now
      PROVE  PastMirrored(Tables, Outstanding, s, n)'
  <2> SUFFICES \/ <<s, n>> \in DOMAIN rows /\ ~rows[<<s, n>>].open
               \/ <<s, n>> \notin DOMAIN rows /\ PositionJob(s, n) \notin Range(Outstanding')
               \/ Lasts(Outstanding', CloseJob(s, n), {PositionJob(s, n)})
    BY DEF PastMirrored
  <2>1. PositionJob(s, n) \notin Range(Jobs)
    BY <1>5, <1>7
  <2>2. CASE n = h
    <3>1. CloseJob(s, n) \in Range(Jobs)
      BY <1>4, <1>5, <1>7, <2>2
    <3>2. Lasts(Jobs, CloseJob(s, n), {PositionJob(s, n)})
      BY <2>1, <3>1, LastsAlone
    <3> QED
      BY <1>2, <3>2
  <2>3. CASE n # h
    <3>1. PastMirrored(Tables, Outstanding, s, n)
      BY <2>3 DEF PositionsMirrored
    <3>2. Range(Jobs) \cap {PositionJob(s, n)} = {}
      BY <2>1
    <3> QED
      BY <1>1, <1>2, <2>1, <3>1, <3>2 DEF PastMirrored
  <2> QED
    BY <2>2, <2>3
<1>8. ASSUME NEW n \in Nat \ {0}, n > more
      PROVE  Untouched(Tables, Outstanding, s, n)'
  <2>1. n > len /\ n # h /\ n # now
    BY <1>3, <1>8
  <2>2. Untouched(Tables, Outstanding, s, n)
    BY <2>1 DEF PositionsMirrored
  <2>3. PositionJob(s, n) \notin Range(Jobs) /\ CloseJob(s, n) \notin Range(Jobs)
    BY <1>5, <2>1
  <2> QED
    BY <1>1, <2>2, <2>3 DEF Untouched
<1> QED
  BY <1>6, <1>7, <1>8 DEF PositionsMirrored

\* A step of the engine adds its jobs behind those that wait.
LEMMA EngineKeepsMirror ==
  ASSUME DurableInv, MirrorInv, EngineStep
  PROVE  MirrorInv'
<1> SUFFICES ASSUME ~lost' PROVE MirrorInv'
  BY DEF MirrorInv
<1>1. /\ EngineNext /\ UNCHANGED <<worker, durable>> /\ ~lost /\ queue' = queue \o Jobs
      /\ held' = [s \in Symbols |-> HeldAfter(s)] /\ objects' = [s \in Symbols |-> ObjectsAfter(s)]
  BY DEF EngineStep
<1>2. SoundInv /\ EndedInv /\ HeldInv /\ WorkerShape /\ Mirrored(Tables, Outstanding)
  BY <1>1 DEF MirrorInv
<1>3. SoundStep
  BY <1>1, <1>2, EngineStepIsSound
<1>4. QueueStep
  BY <1>1, EngineStepWorks DEF DurableInv
<1>5. /\ Jobs \in Seq(AllJobs)
      /\ \A i \in Notified : OrderJob(i) \in Range(Jobs)
      /\ \A s \in Symbols : PositionJobsOf(s)
      /\ \/ balance' = balance /\ Range(Jobs) \cap BalanceJobs = {}
         \/ Lasts(Jobs, EquityJob(balance'), OtherBalances(balance'))
  BY <1>2, <1>3, JobsOfStep
<1>6. /\ Tables' = Tables /\ Outstanding' = Outstanding \o Jobs /\ WorkerShape'
      /\ Outstanding \in Seq(AllJobs)
  <2>1. worker.todo \in Seq(AllJobs) /\ queue \in Seq(AllJobs) /\ queue \o Jobs \in Seq(AllJobs)
    BY <1>2, <1>5, ConcatProperties DEF WorkerShape
  <2>2. (worker.todo \o queue) \o Jobs = worker.todo \o (queue \o Jobs)
    <3> DEFINE S == AllJobs
               a == worker.todo
               b == queue
               c == Jobs
    <3>1. a \in Seq(S) /\ b \in Seq(S) /\ c \in Seq(S)
      BY <1>5, <2>1
    <3> HIDE DEF S, a, b, c
    <3>2. (a \o b) \o c = a \o (b \o c)
      BY <3>1, ConcatAssociative
    <3> QED
      BY <3>2 DEF a, b, c
  <2>3. Tables' = Tables
    BY <1>1 DEF Tables
  <2>4. Outstanding' = Outstanding \o Jobs
    BY <1>1, <2>2 DEF Outstanding
  <2>5. WorkerShape'
    BY <1>1, <1>2, <2>1 DEF WorkerShape
  <2>6. Outstanding \in Seq(AllJobs)
    BY <2>1, ConcatProperties DEF Outstanding
  <2> QED
    BY <2>3, <2>4, <2>5, <2>6
<1>7. Range(Outstanding') = Range(Outstanding) \union Range(Jobs)
  BY <1>5, <1>6, JoinedRange
<1>8. HeldInv'
  <2>1. /\ held' \in [Symbols -> Nat] /\ objects' = [s \in Symbols |-> objects'[s]]
    BY <1>1, <1>2, HeldStep
  <2> QED
    BY <1>2, <2>1, HeldStep DEF HeldInv
<1>9. ASSUME NEW i \in DOMAIN orders' PROVE OrderMirrored(Tables, Outstanding, i)'
  <2>1. CASE i \in Notified
    BY <1>5, <1>7, <2>1 DEF OrderMirrored
  <2>2. CASE i \notin Notified
    <3>1. /\ i \in DOMAIN orders
          /\ ~(IsTerminal(orders'[i]) /\ ~IsTerminal(orders[i]))
      BY <2>2 DEF Notified
    <3>2. orders'[i].type = orders[i].type
      BY <1>3, <3>1 DEF SoundStep, OrdersStep
    <3>3. i \in PendingIds' <=> i \in PendingIds
      <4>1. CASE i \in PendingIds
        BY <1>2, <1>3, <3>1, <4>1 DEF SoundStep, OrdersStep, SoundInv, Working
      <4>2. CASE i \notin PendingIds
        BY <1>4, <3>1, <4>2 DEF QueueStep
      <4> QED
        BY <4>1, <4>2
    <3>4. OrderMirrored(Tables, Outstanding, i)
      BY <1>2, <3>1 DEF Mirrored
    <3> QED
      BY <1>6, <1>7, <3>2, <3>3, <3>4 DEF OrderMirrored
  <2> QED
    BY <2>1, <2>2
<1>10. \A s \in Symbols : PositionsMirrored(Tables, Outstanding, s)'
  BY <1>2, <1>5, <1>6, StepMirrorsPositions DEF Mirrored
<1>11. BalanceMirrored(Tables, Outstanding)'
  <2> DEFINE mine == EquityJob(balance')
             others == OtherBalances(balance')
  <2>1. \A job, rest : Lasts(Jobs, job, rest)
                       \/ (Lasts(Outstanding, job, rest) /\ Range(Jobs) \cap rest = {})
                       => Lasts(Outstanding', job, rest)
    BY <1>5, <1>6, JoinedLasts
  <2>2. CASE Lasts(Jobs, mine, others)
    <3> HIDE DEF mine, others
    <3>1. Lasts(Outstanding', mine, others)
      BY <2>1, <2>2
    <3> QED
      BY <3>1 DEF BalanceMirrored, mine, others
  <2>3. CASE balance' = balance /\ Range(Jobs) \cap BalanceJobs = {}
    <3>1. others = OtherBalances(balance) /\ mine = EquityJob(balance)
      BY <2>3
    <3>2. Range(Jobs) \cap others = {}
      BY <2>3 DEF OtherBalances
    <3>3. \/ Tables.balance = balance /\ Range(Outstanding) \cap others = {}
          \/ Lasts(Outstanding, mine, others)
      BY <1>2, <3>1 DEF Mirrored, BalanceMirrored
    <3> HIDE DEF mine, others
    <3>4. \/ Tables'.balance = balance' /\ Range(Outstanding') \cap others = {}
          \/ Lasts(Outstanding', mine, others)
      BY <1>6, <1>7, <2>1, <2>3, <3>2, <3>3
    <3> QED
      BY <3>4 DEF BalanceMirrored, mine, others
  <2> QED
    BY <1>5, <2>2, <2>3
<1>12. Outstanding' \in Seq(AllJobs) /\ TableShape(Tables)'
  <2>1. Outstanding \o Jobs \in Seq(AllJobs)
    BY <1>5, <1>6, ConcatProperties
  <2>2. TableShape(Tables)
    BY <1>2 DEF Mirrored
  <2>3. TableShape(Tables)'
    BY <1>6, <2>2 DEF TableShape
  <2> QED
    BY <1>6, <2>1, <2>3
<1> QED
  BY <1>3, <1>6, <1>8, <1>9, <1>10, <1>11, <1>12 DEF MirrorInv, Mirrored, SoundStep

-----------------------------------------------------------------------------
(* The restart, of a process that has caught up.                             *)

\* What the tables then hold is what the engine holds: the orders at work but
\* for the trailing stops, the open positions, and the balance.
LEMMA CaughtUpHolds ==
  ASSUME DurableInv, MirrorInv, CaughtUp, ~lost
  PROVE  /\ Tables = durable /\ Outstanding = << >>
         /\ RestoredIds = {i \in PendingIds : orders[i].type # "trailing_stop"}
         /\ \A s \in Symbols :
              /\ OpenRows(s) = {held[s]} \ {0}
              /\ held[s] # 0 =>
                   /\ <<s, held[s]>> \in DOMAIN durable.positions
                   /\ SameObject(durable.positions[<<s, held[s]>>].object, positions[s])
         /\ durable.balance = balance
<1>1. SoundInv /\ EndedInv /\ HeldInv /\ WorkerShape /\ Mirrored(Tables, Outstanding)
  BY DEF MirrorInv
<1>2. Tables = durable /\ Outstanding = << >>
  <2>1. worker.todo = << >> /\ queue = << >> /\ ~worker.busy
    BY <1>1 DEF CaughtUp, WorkerShape
  <2>2. << >> \o << >> = << >>
    BY EmptySeq, ConcatEmptySeq
  <2> QED
    BY <2>1, <2>2 DEF Tables, Outstanding
<1>3. /\ Mirrored(durable, << >>) /\ Range(<< >>) = {}
      /\ \A job, others : ~Lasts(<< >>, job, others)
  <2>1. DOMAIN << >> = {}
    OBVIOUS
  <2> QED
    BY <1>1, <1>2, <2>1, ShortRange DEF Lasts
<1>4. RestoredIds = {i \in PendingIds : orders[i].type # "trailing_stop"}
  <2>1. DOMAIN durable.orders \subseteq DOMAIN orders /\ PendingIds \subseteq DOMAIN orders
    BY <1>1 DEF DurableInv, Follows, SoundInv
  <2>2. \A i \in DOMAIN orders :
          /\ i \in DOMAIN durable.orders
          /\ orders[i].type # "trailing_stop" => (durable.orders[i] \in Restorable <=> i \in PendingIds)
    BY <1>3 DEF Mirrored, OrderMirrored
  <2> QED
    BY <2>1, <2>2 DEF RestoredIds
<1>5. ASSUME NEW s \in Symbols
      PROVE  /\ OpenRows(s) = {held[s]} \ {0}
             /\ held[s] # 0 =>
                  /\ <<s, held[s]>> \in DOMAIN durable.positions
                  /\ SameObject(durable.positions[<<s, held[s]>>].object, positions[s])
  <2>1. PositionsMirrored(durable, << >>, s)
    BY <1>3 DEF Mirrored
  <2>2. held[s] # 0 =>
          /\ <<s, held[s]>> \in DOMAIN durable.positions
          /\ durable.positions[<<s, held[s]>>].open
          /\ SameObject(durable.positions[<<s, held[s]>>].object, positions[s])
    BY <1>3, <2>1 DEF PositionsMirrored, HeldMirrored
  <2>3. ASSUME NEW n \in Nat \ {0}, n # held[s]
        PROVE  ~(<<s, n>> \in DOMAIN durable.positions /\ durable.positions[<<s, n>>].open)
    BY <1>3, <2>1, <2>3 DEF PositionsMirrored, PastMirrored
  <2>4. held[s] \in Nat /\ held[s] <= Len(objects[s]) /\ Len(objects[s]) \in Nat
    BY <1>1, ListedShape DEF HeldInv
  <2>5. \A n \in 1 .. Len(objects[s]) : n \in Nat \ {0}
    BY <2>4
  <2>6. OpenRows(s) \subseteq {held[s]} \ {0}
    BY <2>3, <2>5 DEF OpenRows
  <2>7. {held[s]} \ {0} \subseteq OpenRows(s)
    <3>1. held[s] # 0 => held[s] \in 1 .. Len(objects[s])
      BY <2>4
    <3> QED
      BY <2>2, <3>1 DEF OpenRows
  <2> QED
    BY <2>2, <2>6, <2>7
<1>6. durable.balance = balance
  BY <1>3 DEF Mirrored, BalanceMirrored
<1> QED
  BY <1>2, <1>4, <1>5, <1>6

\* The position that is restored is the one that was held, and so is its object.
LEMMA PositionIsRestored ==
  ASSUME DurableInv, MirrorInv, CaughtUp, ~lost, NEW s \in Symbols
  PROVE  /\ RestoredIndex(s) = held[s]
         /\ held[s] = 0 => RestoredPosition(s) = Flat
         /\ held[s] # 0 =>
              /\ RestoredPosition(s) \in Positions /\ IsOpen(RestoredPosition(s))
              /\ SameObject(RestoredObject(s), RestoredPosition(s))
<1> DEFINE h == held[s]
           id == <<s, h>>
           row == durable.positions[id].object
           pos == positions[s]
           real == {n \in OpenRows(s) : durable.positions[<<s, n>>].object.qty > 0}
<1>1. /\ OpenRows(s) = {h} \ {0}
      /\ h # 0 => SameObject(row, pos)
  BY CaughtUpHolds
<1>2. h \in Nat /\ (h # 0 <=> IsOpen(pos)) /\ pos \in Positions
  BY DEF MirrorInv, HeldInv, SoundInv, AccountTypeOK
<1>3. CASE h = 0
  <2>1. real = {}
    BY <1>1, <1>3
  <2> HIDE DEF real
  <2>2. RestoredIndex(s) = 0
    BY <2>1 DEF RestoredIndex, real
  <2> QED
    BY <1>3, <2>2 DEF RestoredPosition
<1>4. CASE h # 0
  <2>1. /\ row.side = pos.side /\ row.qty = pos.qty /\ row.avg = pos.avg
        /\ row.booked = Booked(pos) /\ pos.qty > 0
    BY <1>1, <1>2, <1>4 DEF SameObject, IsOpen
  <2>2. real = {h}
    BY <1>1, <1>4, <2>1
  <2>3. Max({h}) = h
    <3>1. h \in Int
      BY <1>2
    <3> HIDE DEF h
    <3>2. {h} \in SUBSET Int /\ IsFiniteSet({h}) /\ {h} # {}
      BY <3>1, FS_Singleton
    <3>3. Max({h}) \in {h}
      BY <3>2, MaxIsMember
    <3> QED
      BY <3>3
  <2>4. RestoredIndex(s) = h
    <3>1. RestoredIndex(s) = IF real = {} THEN 0 ELSE Max(real)
      BY DEF RestoredIndex
    <3> HIDE DEF real, h
    <3> QED
      BY <2>2, <2>3, <3>1
  <2>5. RestoredObject(s) = row
    BY <2>4 DEF RestoredObject
  <2>6. /\ pos.side \in Sides /\ pos.qty \in Nat /\ pos.avg \in Int /\ Booked(pos) \in Int
    BY <1>2 DEF Positions, Booked
  <2> HIDE DEF row, h, pos, id
  <2>7. RestoredPosition(s) = [side |-> pos.side, qty |-> pos.qty, initial |-> 0, avg |-> pos.avg,
                               realized |-> Booked(pos), fees |-> 0, funding |-> 0]
    BY <1>4, <2>1, <2>4, <2>5 DEF RestoredPosition, Flat
  <2>8. RestoredPosition(s) \in Positions /\ IsOpen(RestoredPosition(s))
    BY <2>1, <2>6, <2>7 DEF Positions, IsOpen
  <2>9. Booked(RestoredPosition(s)) = Booked(pos)
    <3> DEFINE b == Booked(pos)
    <3>1. b \in Int
      BY <2>6
    <3> HIDE DEF b
    <3>2. RestoredPosition(s).realized = b /\ RestoredPosition(s).fees = 0
          /\ RestoredPosition(s).funding = 0
      BY <2>7 DEF b
    <3>3. Booked(RestoredPosition(s)) = b
      BY <3>1, <3>2 DEF Booked
    <3> QED
      BY <3>3 DEF b
  <2>10. SameObject(RestoredObject(s), RestoredPosition(s))
    BY <2>1, <2>5, <2>7, <2>9 DEF SameObject
  <2> QED
    BY <1>4, <2>4, <2>8, <2>10 DEF h
<1> QED
  BY <1>3, <1>4

\* An order that is restored is at work again, from the beginning.
LEMMA OrderIsRestored ==
  ASSUME SoundInv, NEW i \in PendingIds, durable.orders[i] \in Restorable
  PROVE  Working(RestoredOrder(i)) /\ RestoredOrder(i).type = orders[i].type
<1> DEFINE old == orders[i]
           status == durable.orders[i]
           order == [old EXCEPT !.status = status, !.filled = 0, !.rested = TRUE,
                       !.tif = "gtc", !.stopLoss = NoPrice, !.takeProfit = NoPrice]
<1>1. old \in Orders /\ old.filled < old.qty
  BY DEF SoundInv, Working
<1>2. old.filled \in Nat /\ old.qty \in Nat
  BY <1>1, OrderFields
<1>3. status \in OrderStatuses /\ status \notin {"filled", "cancelled", "rejected"}
  BY DEF Restorable, OrderStatuses
<1>4. RestoredOrder(i) = order
  BY DEF RestoredOrder
<1> HIDE DEF old, status
<1>5. order \in Orders
  BY <1>1, <1>3 DEF Orders, TimesInForce, NoPrice
<1>6. /\ order.status = status /\ order.filled = 0 /\ order.qty = old.qty /\ order.tif = "gtc"
      /\ order.type = old.type
  BY <1>1 DEF Orders
<1> HIDE DEF order
<1>7. Working(order) /\ order.type = old.type
  BY <1>1, <1>2, <1>3, <1>5, <1>6 DEF Working, IsTerminal
<1> QED
  BY <1>4, <1>7 DEF old

\* A restart of a process that has caught up changes nothing that the tables
\* tell of; of one that has not, nothing is claimed.
LEMMA RestartKeepsMirror ==
  ASSUME DurableInv, MirrorInv, Restart
  PROVE  MirrorInv'
<1> SUFFICES ASSUME ~lost' PROVE MirrorInv'
  BY DEF MirrorInv
<1>1. /\ balance' = durable.balance
      /\ positions' = [s \in Symbols |-> RestoredPosition(s)]
      /\ orders' = [i \in DOMAIN orders |-> IF i \in RestoredIds THEN RestoredOrder(i) ELSE orders[i]]
      /\ pending' = [i \in RestoredIds |-> MaxAge]
      /\ tick' = Quiet
      /\ held' = [s \in Symbols |-> RestoredIndex(s)]
      /\ objects' = [s \in Symbols |->
                       IF RestoredIndex(s) = 0 THEN objects[s]
                       ELSE [objects[s] EXCEPT ![RestoredIndex(s)] = RestoredObject(s)]]
      /\ queue' = << >> /\ worker' = Idle /\ ~lost /\ CaughtUp
      /\ UNCHANGED <<closed, events, cash, net, dust, durable>>
  BY DEF Restart
<1>2. SoundInv /\ EndedInv /\ HeldInv /\ WorkerShape /\ Mirrored(Tables, Outstanding)
  BY <1>1 DEF MirrorInv
<1>3. /\ Tables = durable /\ Outstanding = << >>
      /\ RestoredIds = {i \in PendingIds : orders[i].type # "trailing_stop"}
      /\ \A s \in Symbols :
           /\ OpenRows(s) = {held[s]} \ {0}
           /\ held[s] # 0 =>
                /\ <<s, held[s]>> \in DOMAIN durable.positions
                /\ SameObject(durable.positions[<<s, held[s]>>].object, positions[s])
      /\ durable.balance = balance
  BY <1>1, CaughtUpHolds
<1>4. \A s \in Symbols :
        /\ RestoredIndex(s) = held[s]
        /\ held[s] = 0 => RestoredPosition(s) = Flat
        /\ held[s] # 0 =>
             /\ RestoredPosition(s) \in Positions /\ IsOpen(RestoredPosition(s))
             /\ SameObject(RestoredObject(s), RestoredPosition(s))
  BY <1>1, PositionIsRestored
<1>5. PendingIds' = RestoredIds /\ RestoredIds \subseteq PendingIds
  BY <1>1, <1>3 DEF PendingIds
<1>6. ASSUME NEW i \in RestoredIds
      PROVE  /\ Working(orders'[i]) /\ orders'[i].type = orders[i].type
             /\ i \in DOMAIN durable.orders /\ durable.orders[i] \in Restorable
  <2>1. i \in PendingIds /\ i \in DOMAIN orders
    BY <1>2, <1>3 DEF SoundInv
  <2>2. i \in DOMAIN durable.orders /\ durable.orders[i] \in Restorable
    BY DEF RestoredIds
  <2>3. orders'[i] = RestoredOrder(i)
    BY <1>1, <2>1
  <2> QED
    BY <1>2, <2>1, <2>2, <2>3, OrderIsRestored
<1>7. /\ DOMAIN orders' = DOMAIN orders
      /\ \A i \in DOMAIN orders \ RestoredIds : orders'[i] = orders[i]
  BY <1>1
<1>8. SoundInv'
  <2>1. AccountTypeOK'
    <3>1. positions' \in [Symbols -> Positions]
          /\ \A s \in Symbols : ~IsOpen(positions'[s]) => positions'[s] = Flat
      <4>1. Flat \in Positions
        BY DEF Flat, Positions, Sides
      <4>2. \A s \in Symbols : RestoredPosition(s) \in Positions
                               /\ (~IsOpen(RestoredPosition(s)) => RestoredPosition(s) = Flat)
        BY <1>4, <4>1
      <4> QED
        BY <1>1, <4>2
    <3> QED
      BY <1>1, <1>2, <1>3, <3>1 DEF SoundInv, AccountTypeOK
  <2>2. orders' \in Seq(Orders)
    <3>1. Len(orders) \in Nat /\ DOMAIN orders = 1 .. Len(orders)
          /\ \A i \in 1 .. Len(orders) : orders[i] \in Orders
      BY <1>2, LenProperties, ElementOfSeq DEF SoundInv
    <3>2. \A i \in 1 .. Len(orders) : orders'[i] \in Orders
      BY <1>6, <1>7, <3>1 DEF Working
    <3>3. orders' = [i \in 1 .. Len(orders) |-> orders'[i]]
      BY <1>1, <3>1
    <3> QED
      BY <3>1, <3>2, <3>3
  <2>3. PendingIds' \subseteq DOMAIN orders' /\ \A i \in PendingIds' : Working(orders'[i])
    BY <1>2, <1>5, <1>6, <1>7 DEF SoundInv
  <2>4. TickInv'
    BY <1>1 DEF TickInv, Quiet
  <2> QED
    BY <2>1, <2>2, <2>3, <2>4 DEF SoundInv
<1>9. EndedInv'
  <2>1. ASSUME NEW i \in DOMAIN orders, i \notin RestoredIds PROVE Gone(orders[i])
    BY <1>2, <1>3, <2>1 DEF EndedInv, Gone
  <2> QED
    BY <1>5, <1>7, <2>1 DEF EndedInv
<1>10. ASSUME NEW s \in Symbols
       PROVE  /\ held'[s] = held[s] /\ held'[s] \in Nat
              /\ Listed(objects'[s]) /\ Len(objects'[s]) = Len(objects[s])
              /\ held'[s] <= Len(objects'[s]) /\ (held'[s] # 0 <=> IsOpen(positions'[s]))
              /\ held'[s] # 0 => SameObject(objects'[s][held'[s]], positions'[s])
  <2> DEFINE h == held[s]
             old == objects[s]
             new == objects'[s]
             object == RestoredObject(s)
  <2>1. /\ held'[s] = h /\ positions'[s] = RestoredPosition(s)
        /\ new = IF h = 0 THEN old ELSE [old EXCEPT ![h] = object]
    BY <1>1, <1>4
  <2>2. /\ Listed(old) /\ Len(old) \in Nat /\ DOMAIN old = 1 .. Len(old) /\ h \in Nat /\ h <= Len(old)
    BY <1>2, ListedShape DEF HeldInv
  <2>3. CASE h = 0
    <3>1. ~IsOpen(Flat)
      BY DEF IsOpen, Flat
    <3> QED
      BY <1>4, <2>1, <2>2, <2>3, <3>1
  <2>4. CASE h # 0
    <3>1. IsOpen(RestoredPosition(s)) /\ SameObject(object, RestoredPosition(s))
      BY <1>4, <2>4
    <3> HIDE DEF h, old, new, object
    <3>2. new = [k \in 1 .. Len(old) |-> new[k]] /\ new[h] = object
      <4>1. new = [old EXCEPT ![h] = object] /\ h \in 1 .. Len(old)
        BY <2>1, <2>2, <2>4
      <4> QED
        BY <2>2, <4>1
    <3>3. Listed(new) /\ Len(new) = Len(old)
      BY <2>2, <3>2, FunctionIsListed
    <3> QED
      BY <2>1, <2>2, <2>4, <3>1, <3>2, <3>3 DEF h, old, new
  <2> QED
    BY <2>3, <2>4
<1>11. HeldInv'
  <2>1. held' \in [Symbols -> Nat] /\ objects' = [s \in Symbols |-> objects'[s]]
    BY <1>1, <1>10
  <2> QED
    BY <1>10, <2>1 DEF HeldInv
<1>12. Tables' = durable /\ Outstanding' = << >> /\ WorkerShape'
  <2>1. worker' = [busy |-> FALSE, todo |-> << >>, staged |-> EmptyTables]
    BY <1>1 DEF Idle
  <2>2. << >> \o << >> = << >> /\ << >> \in Seq(AllJobs)
    BY EmptySeq, ConcatEmptySeq
  <2> QED
    BY <1>1, <2>1, <2>2 DEF Tables, Outstanding, WorkerShape
<1>13. Mirrored(durable, << >>) /\ Range(<< >>) = {}
  BY <1>2, <1>3, ShortRange
<1>14. ASSUME NEW i \in DOMAIN orders' PROVE OrderMirrored(Tables, Outstanding, i)'
  <2>1. OrderMirrored(durable, << >>, i)
    BY <1>7, <1>13 DEF Mirrored
  <2>2. orders'[i].type = orders[i].type
    BY <1>6, <1>7
  <2>3. orders[i].type # "trailing_stop" => (i \in PendingIds' <=> i \in PendingIds)
    BY <1>3, <1>5
  <2> QED
    BY <1>1, <1>12, <1>13, <2>1, <2>2, <2>3 DEF OrderMirrored
<1>15. ASSUME NEW s \in Symbols PROVE PositionsMirrored(Tables, Outstanding, s)'
  <2>1. PositionsMirrored(durable, << >>, s)
    BY <1>13 DEF Mirrored
  <2>2. held'[s] = held[s] /\ Len(objects'[s]) = Len(objects[s]) /\ positions'[s] = RestoredPosition(s)
    BY <1>1, <1>10
  <2>3. ASSUME held[s] # 0 PROVE HeldMirrored(Tables, Outstanding, s)'
    <3>1. /\ <<s, held[s]>> \in DOMAIN durable.positions
          /\ durable.positions[<<s, held[s]>>].open
      BY <1>3, <2>3 DEF OpenRows
    <3>2. SameObject(durable.positions[<<s, held[s]>>].object, positions'[s])
      BY <1>4, <2>2, <2>3 DEF RestoredObject
    <3> QED
      BY <1>12, <1>13, <2>2, <3>1, <3>2 DEF HeldMirrored
  <2>4. ASSUME NEW n \in Nat \ {0}
        PROVE  /\ n # held[s] => PastMirrored(Tables, Outstanding, s, n)'
               /\ n > Len(objects[s]) => Untouched(Tables, Outstanding, s, n)'
    <3>1. \A job, others : ~Lasts(<< >>, job, others)
      <4>1. DOMAIN << >> = {}
        OBVIOUS
      <4> QED
        BY <4>1 DEF Lasts
    <3>2. n # held[s] => \/ <<s, n>> \in DOMAIN durable.positions /\ ~durable.positions[<<s, n>>].open
                         \/ <<s, n>> \notin DOMAIN durable.positions
      BY <2>1, <3>1 DEF PositionsMirrored, PastMirrored
    <3>3. n > Len(objects[s]) => <<s, n>> \notin DOMAIN durable.positions
      BY <2>1 DEF PositionsMirrored, Untouched
    <3> QED
      BY <1>12, <1>13, <3>2, <3>3 DEF PastMirrored, Untouched
  <2> QED
    BY <2>2, <2>3, <2>4 DEF PositionsMirrored
<1>16. BalanceMirrored(Tables, Outstanding)'
  BY <1>1, <1>12, <1>13 DEF BalanceMirrored
<1>17. Outstanding' \in Seq(AllJobs) /\ TableShape(Tables)'
  <2>1. TableShape(durable) /\ << >> \in Seq(AllJobs)
    BY <1>13 DEF Mirrored
  <2> QED
    BY <1>12, <2>1 DEF TableShape
<1> QED
  BY <1>8, <1>9, <1>11, <1>12, <1>14, <1>15, <1>16, <1>17 DEF MirrorInv, Mirrored

-----------------------------------------------------------------------------
\* A fresh process: nothing held, nothing written, nothing waiting.
LEMMA MirrorInitial == PersistentInit => MirrorInv
<1> SUFFICES ASSUME PersistentInit PROVE MirrorInv
  OBVIOUS
<1>1. /\ EngineInit /\ orders = << >> /\ pending = << >> /\ tick = Quiet /\ queue = << >>
      /\ worker = Idle /\ durable = EmptyTables /\ balance = StartingBalance
      /\ objects = [s \in Symbols |-> << >>] /\ held = [s \in Symbols |-> 0]
      /\ positions = [s \in Symbols |-> Flat]
  BY DEF PersistentInit, EngineInit, AccountInit
<1>2. DOMAIN << >> = {} /\ << >> \o << >> = << >> /\ << >> \in Seq(AllJobs) /\ Len(<< >>) = 0
  BY EmptySeq, ConcatEmptySeq
<1>3. PendingIds = {} /\ DOMAIN orders = {}
  BY <1>1, <1>2 DEF PendingIds
<1>4. SoundInv
  <2>1. AccountTypeOK
    BY <1>1, AccountInitial DEF EngineInit, AccountInv
  <2>2. orders \in Seq(Orders)
    BY <1>1
  <2> QED
    BY <1>1, <1>3, <2>1, <2>2 DEF SoundInv, TickInv, Quiet
<1>5. EndedInv
  BY <1>3 DEF EndedInv
<1>6. HeldInv
  <2>1. Listed(<< >>) /\ Len(<< >>) = 0
    <3>1. << >> \in Seq({})
      OBVIOUS
    <3> QED
      BY <1>2, <3>1, SequenceIsListed
  <2>2. ~IsOpen(Flat)
    BY DEF IsOpen, Flat
  <2> QED
    BY <1>1, <2>1, <2>2 DEF HeldInv
<1>7. worker = [busy |-> FALSE, todo |-> << >>, staged |-> EmptyTables]
  BY <1>1 DEF Idle
<1>8. WorkerShape
  BY <1>1, <1>2, <1>7 DEF WorkerShape
<1>9. Tables = EmptyTables /\ Outstanding = << >>
  BY <1>1, <1>2, <1>7 DEF Tables, Outstanding
<1>10. /\ EmptyTables = [orders |-> << >>, positions |-> << >>, balance |-> StartingBalance]
       /\ Range(<< >>) = {}
  BY ShortRange DEF EmptyTables
<1>11. Mirrored(EmptyTables, << >>)
  <2>1. TableShape(EmptyTables)
    BY <1>2, <1>10 DEF TableShape
  <2>2. \A s \in Symbols : PositionsMirrored(EmptyTables, << >>, s)
    BY <1>1, <1>2, <1>10 DEF PositionsMirrored, PastMirrored, Untouched
  <2>3. BalanceMirrored(EmptyTables, << >>)
    BY <1>1, <1>10 DEF BalanceMirrored
  <2> QED
    BY <1>2, <1>3, <2>1, <2>2, <2>3 DEF Mirrored
<1> QED
  BY <1>4, <1>5, <1>6, <1>8, <1>9, <1>11 DEF MirrorInv

\* Every step of the process and of its database keeps the mirror, or loses a
\* write.
LEMMA MirrorStep == DurableInv /\ MirrorInv /\ [PersistentNext]_allVars => MirrorInv'
<1>1. CASE DurableInv /\ MirrorInv /\ UNCHANGED allVars
  <2>1. CASE lost
    BY <1>1, <2>1 DEF MirrorInv, allVars, persistenceVars
  <2>2. CASE ~lost
    <3>1. SoundInv /\ EndedInv /\ HeldInv /\ WorkerShape /\ Mirrored(Tables, Outstanding)
      BY <1>1, <2>2 DEF MirrorInv
    <3>2. UNCHANGED <<engineVars, objects, held, worker, queue, durable>>
      BY <1>1 DEF allVars, persistenceVars
    <3>3. Tables' = Tables /\ Outstanding' = Outstanding /\ WorkerShape'
      BY <3>1, <3>2 DEF Tables, Outstanding, WorkerShape
    <3> QED
      BY <3>1, <3>2, <3>3, RestKeepsMirror
  <2> QED
    BY <2>1, <2>2
<1>2. CASE DurableInv /\ MirrorInv /\ PersistentNext
  BY <1>2, EngineKeepsMirror, TakeBatchKeepsMirror, WriteJobKeepsMirror,
     BatchEndKeepsMirror, RestartKeepsMirror DEF PersistentNext, Work, DurableInv
<1> QED
  BY <1>1, <1>2

\* As long as no write is lost, the tables with the jobs that wait written into
\* them, in their order, are what the engine holds.
THEOREM TablesMirrorEngine == PersistentSpec => []MirrorInv
  BY MirrorInitial, MirrorStep, RowsFollowOrders, PTL DEF PersistentSpec

(* Once the worker has caught up and nothing was lost, a recovery finds what   *)
(* the engine holds: the working orders, trailing stops apart, the open        *)
(* positions with what they have booked, and the balance.                      *)
THEOREM CaughtUpIsMirrored == PersistentSpec => []CaughtUpMirrors
<1>1. DurableInv /\ MirrorInv => CaughtUpMirrors
  BY CaughtUpHolds DEF CaughtUpMirrors, SameObject
<1> QED
  BY RowsFollowOrders, TablesMirrorEngine, <1>1, PTL
=============================================================================
