--------------------------- MODULE BatcherProofs ---------------------------
(***************************************************************************)
(* Proofs about Batcher, for any number of requests, items and results and *)
(* any batch size and concurrency limit.                                   *)
(*                                                                         *)
(* The conjunction IInv of the module's invariants is inductive.  Every    *)
(* action that moves batches goes through sealBatchAndDispatch or          *)
(* forceDispatch; the lemmas SealMoves and ForceMoves say what these do to *)
(* the places where items are, from the fact that no call of dispatch has  *)
(* room for more than one queued batch.                                    *)
(***************************************************************************)
EXTENDS Batcher, TLAPS, FiniteSetTheorems, SequenceTheorems

\* The items in a current batch, a queue and a set of batches at the API.
HeldBy(cur, queue, flying) ==
    cur \cup (UNION {queue[i] : i \in 1..Len(queue)}) \cup (UNION flying)

\* No item is in two of these places.
Apart(cur, queue, flying) ==
    /\ \A i \in 1..Len(queue) : queue[i] \cap cur = {}
    /\ \A c \in flying : c \cap cur = {}
    /\ \A i \in 1..Len(queue), c \in flying : queue[i] \cap c = {}
    /\ \A b, c \in flying : b # c => b \cap c = {}
    /\ \A i, j \in 1..Len(queue) : i # j => queue[i] \cap queue[j] = {}

\* The places as a whole, with `out` batches at the API.
Placed(cur, queue, flying, out) ==
    /\ cur \in SUBSET Hash
    /\ queue \in Seq(Batch)
    /\ flying \in SUBSET Batch
    /\ out \in 0..TargetConcurrency
    /\ out = Cardinality(flying)
    /\ Apart(cur, queue, flying)

\* What a dispatch from the places (cur, pendingBatches, flying) leads to.
Dispatched(cur, flying) ==
    /\ Placed(currentBatch', pendingBatches', inFlight', numOutstanding')
    /\ HeldBy(currentBatch', pendingBatches', inFlight')
         = HeldBy(cur, pendingBatches, flying)
    /\ pendingBatches' # <<>> => numOutstanding' = TargetConcurrency
    /\ inFlight' = flying \/ \E b \in Batch : inFlight' = flying \cup {b}

-----------------------------------------------------------------------------

LEMMA FiniteFlying == ASSUME NEW flying \in SUBSET Batch PROVE IsFiniteSet(flying)
<1>1. IsFiniteSet(SUBSET Hash)
  BY HashAssumption, FS_SUBSET
<1> QED
  BY <1>1, FS_Subset DEF Batch

\* With one batch queued, or one slot free, the loop of dispatch runs at most
\* once.
LEMMA DispatchAtMostOne ==
    ASSUME NEW out \in 0..TargetConcurrency, NEW queue \in Seq(Batch), NEW flying,
           Len(queue) > 1 => out >= TargetConcurrency - 1,
           dispatch(out, queue, flying)
    PROVE  \/ /\ queue = <<>> \/ out = TargetConcurrency
              /\ numOutstanding' = out
              /\ pendingBatches' = queue
              /\ inFlight' = flying
           \/ /\ queue # <<>>
              /\ out < TargetConcurrency
              /\ numOutstanding' = out + 1
              /\ pendingBatches' = Tail(queue)
              /\ inFlight' = flying \cup {queue[1]}
<1> DEFINE n == Dispatchable(out, queue)
<1>1. Len(queue) \in Nat /\ (queue = <<>> <=> Len(queue) = 0)
  BY EmptySeq, LenProperties
<1>2. CASE queue = <<>> \/ out = TargetConcurrency
  <2>1. n = 0
    BY <1>1, <1>2, LimitAssumption DEF Dispatchable
  <2>2. pendingBatches' = queue
    BY <2>1, SubSeqFull DEF dispatch
  <2>3. inFlight' = flying
    BY <2>1 DEF dispatch
  <2>4. numOutstanding' = out
    BY <2>1, LimitAssumption DEF dispatch
  <2> QED
    BY <1>2, <2>2, <2>3, <2>4
<1>3. CASE queue # <<>> /\ out < TargetConcurrency
  <2>1. n = 1
    <3> DEFINE len == Len(queue)
               room == TargetConcurrency - out
    <3>1. len \in Nat \ {0} /\ room \in Nat \ {0} /\ (len > 1 => room <= 1)
      BY <1>1, <1>3, LimitAssumption
    <3>2. n = IF len < room THEN len ELSE room
      BY DEF Dispatchable
    <3> HIDE DEF len, room, n
    <3> QED
      BY <3>1, <3>2
  <2>2. pendingBatches' = Tail(queue)
    BY <1>3, <2>1, TailIsSubSeq DEF dispatch
  <2>3. inFlight' = flying \cup {queue[1]}
    <3>1. 1..n = {1}
      BY <2>1
    <3> HIDE DEF n
    <3>2. {queue[i] : i \in 1..n} = {queue[1]}
      BY <3>1
    <3> QED
      BY <3>2 DEF dispatch, n
  <2>4. numOutstanding' = out + 1
    BY <2>1, LimitAssumption DEF dispatch
  <2> QED
    BY <1>3, <2>2, <2>3, <2>4
<1> QED
  BY <1>2, <1>3, LimitAssumption

\* Sealing the current batch keeps every item in one place.
LEMMA SealApart ==
    ASSUME NEW cur \in Batch, NEW queue \in Seq(Batch), NEW flying \in SUBSET Batch,
           Apart(cur, queue, flying)
    PROVE  /\ Apart({}, Append(queue, cur), flying)
           /\ HeldBy({}, Append(queue, cur), flying) = HeldBy(cur, queue, flying)
<1> DEFINE q == Append(queue, cur)
           m == Len(queue)
<1>1. /\ m \in Nat
      /\ Len(q) = m + 1
      /\ \A i \in 1..m : q[i] = queue[i]
      /\ q[m + 1] = cur
  BY AppendProperties, LenProperties
<1>2. 1..Len(q) = 1..m \cup {m + 1}
  BY <1>1
<1> HIDE DEF q
<1>3. {q[i] : i \in 1..Len(q)} = {queue[i] : i \in 1..m} \cup {cur}
  BY <1>1, <1>2
<1>4. HeldBy({}, q, flying) = HeldBy(cur, queue, flying)
  BY <1>3 DEF HeldBy
<1>5. Apart({}, q, flying)
  <2>1. \A i \in 1..Len(q), c \in flying : q[i] \cap c = {}
    BY <1>1, <1>2 DEF Apart
  <2>2. \A i, j \in 1..Len(q) : i # j => q[i] \cap q[j] = {}
    BY <1>1, <1>2 DEF Apart
  <2> QED
    BY <2>1, <2>2 DEF Apart
<1> QED
  BY <1>4, <1>5 DEF q

\* Sending the oldest queued batch keeps every item in one place, and adds a
\* batch that was not at the API.
LEMMA SendApart ==
    ASSUME NEW cur \in SUBSET Hash, NEW queue \in Seq(Batch), queue # <<>>,
           NEW flying \in SUBSET Batch, Apart(cur, queue, flying)
    PROVE  /\ queue[1] \in Batch \ flying
           /\ Apart(cur, Tail(queue), flying \cup {queue[1]})
           /\ HeldBy(cur, Tail(queue), flying \cup {queue[1]}) = HeldBy(cur, queue, flying)
<1> DEFINE q == Tail(queue)
           m == Len(queue)
           sent == flying \cup {queue[1]}
<1>1. /\ m \in Nat \ {0}
      /\ Len(q) = m - 1
      /\ \A i \in 1..(m - 1) : q[i] = queue[i + 1]
  BY HeadTailProperties, LenProperties, EmptySeq
<1>2. queue[1] \in Batch
  BY <1>1, ElementOfSeq
<1>3. queue[1] \notin flying
  BY <1>1, <1>2 DEF Apart, Batch
<1>4. \A i \in 1..Len(q) : i + 1 \in 1..m /\ i + 1 # 1 /\ q[i] = queue[i + 1]
  BY <1>1
<1>5. \A k \in 1..m : k = 1 \/ (k - 1 \in 1..Len(q) /\ queue[k] = q[k - 1])
  BY <1>1
<1> HIDE DEF q
<1>6. {queue[i] : i \in 1..m} = {q[i] : i \in 1..Len(q)} \cup {queue[1]}
  <2>1. \A i \in 1..Len(q) : q[i] \in {queue[k] : k \in 1..m}
    BY <1>4
  <2>2. \A k \in 1..m : queue[k] \in {q[i] : i \in 1..Len(q)} \cup {queue[1]}
    BY <1>5
  <2>3. 1 \in 1..m
    BY <1>1
  <2> QED
    BY <2>1, <2>2, <2>3
<1>7. HeldBy(cur, q, sent) = HeldBy(cur, queue, flying)
  BY <1>6 DEF HeldBy
<1>8. Apart(cur, q, sent)
  <2>1. \A i \in 1..Len(q) : q[i] \cap cur = {}
    BY <1>4 DEF Apart
  <2>2. \A c \in sent : c \cap cur = {}
    BY <1>1 DEF Apart
  <2>3. \A i \in 1..Len(q), c \in sent : q[i] \cap c = {}
    BY <1>1, <1>4 DEF Apart
  <2>4. \A b, c \in sent : b # c => b \cap c = {}
    BY <1>1 DEF Apart
  <2>5. \A i, j \in 1..Len(q) : i # j => q[i] \cap q[j] = {}
    <3> SUFFICES ASSUME NEW i \in 1..Len(q), NEW j \in 1..Len(q), i # j
                 PROVE  q[i] \cap q[j] = {}
      OBVIOUS
    <3>1. i + 1 # j + 1
      BY <1>1
    <3> QED
      BY <1>4, <3>1 DEF Apart
  <2> QED
    BY <2>1, <2>2, <2>3, <2>4, <2>5 DEF Apart
<1> QED
  BY <1>2, <1>3, <1>7, <1>8 DEF q
-----------------------------------------------------------------------------

LEMMA SealMoves ==
    ASSUME NEW batch \in Batch, NEW out, NEW flying,
           Placed(batch, pendingBatches, flying, out),
           pendingBatches # <<>> => out = TargetConcurrency,
           sealBatchAndDispatch(batch, out, flying)
    PROVE  Dispatched(batch, flying) /\ currentBatch' = {} /\ numOutstanding' >= out
<1> DEFINE q == Append(pendingBatches, batch)
<1>1. /\ out \in 0..TargetConcurrency
      /\ flying \in SUBSET Batch
      /\ pendingBatches \in Seq(Batch)
      /\ out = Cardinality(flying)
  BY DEF Placed
<1>2. /\ q \in Seq(Batch)
      /\ q # <<>>
      /\ Len(q) > 1 => pendingBatches # <<>>
  BY <1>1, AppendProperties, LenProperties, EmptySeq
<1>3. /\ Apart({}, q, flying)
      /\ HeldBy({}, q, flying) = HeldBy(batch, pendingBatches, flying)
  BY <1>1, SealApart DEF Placed
<1>4. currentBatch' = {} /\ dispatch(out, q, flying)
  BY DEF sealBatchAndDispatch
<1> HIDE DEF q
<1>5. Len(q) > 1 => out >= TargetConcurrency - 1
  BY <1>2, LimitAssumption
<1>6. CASE /\ out = TargetConcurrency
           /\ numOutstanding' = out
           /\ pendingBatches' = q
           /\ inFlight' = flying
  <2>1. Placed(currentBatch', pendingBatches', inFlight', numOutstanding')
    BY <1>1, <1>2, <1>3, <1>4, <1>6 DEF Placed
  <2> QED
    BY <1>1, <1>3, <1>4, <1>6, <2>1, LimitAssumption DEF Dispatched
<1>7. CASE /\ out < TargetConcurrency
           /\ numOutstanding' = out + 1
           /\ pendingBatches' = Tail(q)
           /\ inFlight' = flying \cup {q[1]}
  <2>1. /\ q[1] \in Batch \ flying
        /\ Apart({}, Tail(q), flying \cup {q[1]})
        /\ HeldBy({}, Tail(q), flying \cup {q[1]}) = HeldBy({}, q, flying)
    BY <1>1, <1>2, <1>3, SendApart
  <2>2. Tail(q) = <<>>
    <3>1. Len(q) = 1
      BY <1>1, <1>2, <1>7, AppendProperties, LenProperties, EmptySeq DEF q
    <3>2. Tail(q) \in Seq(Batch) /\ Len(Tail(q)) = 0
      BY <1>2, <3>1, HeadTailProperties
    <3> QED
      BY <3>2, EmptySeq
  <2>3. Cardinality(inFlight') = out + 1
    BY <1>1, <1>7, <2>1, FiniteFlying, FS_AddElement
  <2>4. Placed(currentBatch', pendingBatches', inFlight', numOutstanding')
    BY <1>1, <1>2, <1>4, <1>7, <2>1, <2>2, <2>3, EmptySeq, LimitAssumption DEF Placed
  <2> QED
    BY <1>1, <1>3, <1>4, <1>7, <2>1, <2>2, <2>4 DEF Dispatched
<1> QED
  BY <1>1, <1>2, <1>4, <1>5, <1>6, <1>7, DispatchAtMostOne

LEMMA ForceMoves ==
    ASSUME NEW out, NEW flying,
           Placed(currentBatch, pendingBatches, flying, out),
           out < TargetConcurrency,
           pendingBatches # <<>> => out = TargetConcurrency - 1,
           forceDispatch(out, flying)
    PROVE  /\ Dispatched(currentBatch, flying)
           /\ numOutstanding' < TargetConcurrency => currentBatch' = {}
<1>1. /\ out \in 0..TargetConcurrency
      /\ flying \in SUBSET Batch
      /\ pendingBatches \in Seq(Batch)
      /\ out = Cardinality(flying)
      /\ currentBatch \in SUBSET Hash
      /\ Apart(currentBatch, pendingBatches, flying)
  BY DEF Placed
<1>2. CASE pendingBatches = <<>> /\ currentBatch # {}
  <2>1. currentBatch \in Batch
    BY <1>1, <1>2 DEF Batch
  <2>2. sealBatchAndDispatch(currentBatch, out, flying)
    BY <1>2 DEF forceDispatch
  <2> QED
    BY <1>2, <2>1, <2>2, SealMoves
<1>3. CASE ~(pendingBatches = <<>> /\ currentBatch # {})
  <2>1. dispatch(out, pendingBatches, flying) /\ currentBatch' = currentBatch
    BY <1>3 DEF forceDispatch
  <2>2. Len(pendingBatches) > 1 => out >= TargetConcurrency - 1
    BY <1>1, EmptySeq, LimitAssumption
  <2>3. CASE /\ pendingBatches = <<>>
             /\ numOutstanding' = out
             /\ pendingBatches' = pendingBatches
             /\ inFlight' = flying
    <3>1. Dispatched(currentBatch, flying)
      <4>1. Placed(currentBatch', pendingBatches', inFlight', numOutstanding')
        BY <1>1, <2>1, <2>3 DEF Placed
      <4> QED
        BY <1>1, <2>1, <2>3, <4>1 DEF Dispatched
    <3> QED
      BY <1>3, <2>1, <2>3, <3>1
  <2>4. CASE /\ pendingBatches # <<>>
             /\ numOutstanding' = out + 1
             /\ pendingBatches' = Tail(pendingBatches)
             /\ inFlight' = flying \cup {pendingBatches[1]}
    <3>1. /\ pendingBatches[1] \in Batch \ flying
          /\ Apart(currentBatch, Tail(pendingBatches), flying \cup {pendingBatches[1]})
          /\ HeldBy(currentBatch, Tail(pendingBatches), flying \cup {pendingBatches[1]})
               = HeldBy(currentBatch, pendingBatches, flying)
      BY <1>1, <2>4, SendApart
    <3>2. Cardinality(inFlight') = out + 1
      BY <1>1, <2>4, <3>1, FiniteFlying, FS_AddElement
    <3>3. Tail(pendingBatches) \in Seq(Batch)
      BY <1>1, <2>4, HeadTailProperties
    <3>4. numOutstanding' = TargetConcurrency /\ numOutstanding' \in 0..TargetConcurrency
      BY <1>1, <2>4, LimitAssumption
    <3>5. Placed(currentBatch', pendingBatches', inFlight', numOutstanding')
      BY <1>1, <2>1, <2>4, <3>1, <3>2, <3>3, <3>4 DEF Placed
    <3> QED
      BY <2>1, <2>4, <3>1, <3>4, <3>5, LimitAssumption DEF Dispatched
  <2> QED
    BY <1>1, <2>1, <2>2, <2>3, <2>4, DispatchAtMostOne
<1> QED
  BY <1>2, <1>3

-----------------------------------------------------------------------------

\* The inductive invariant.
IInv ==
    /\ TypeOK
    /\ OneHome
    /\ ConcurrencyBound
    /\ NoStall
    /\ CallbacksAreWaiting
    /\ SameAnswer
    /\ NoRefetch

\* What is true of the places after every step.
PlacesNext ==
    /\ Placed(currentBatch', pendingBatches', inFlight', numOutstanding')
    /\ NoStall'
    /\ timer' \in {"none", "armed", "fired"}
    /\ \E b : inFlight' \ inFlight \subseteq {b}

HeldNext == HeldBy(currentBatch', pendingBatches', inFlight')

LEMMA InvPlaced ==
    ASSUME IInv
    PROVE  /\ Placed(currentBatch, pendingBatches, inFlight, numOutstanding)
           /\ Held = HeldBy(currentBatch, pendingBatches, inFlight)
           /\ \A h \in Hash : itemCallbacks[h] # {} <=> h \in Held
<1>1. Apart(currentBatch, pendingBatches, inFlight)
  BY DEF IInv, OneHome, Apart, Queued
<1> QED
  BY <1>1 DEF IInv, TypeOK, ConcurrencyBound, OneHome, Placed, Held, HeldBy, Queued

LEMMA HomesNext ==
    ASSUME Placed(currentBatch', pendingBatches', inFlight', numOutstanding'),
           \A h \in Hash : itemCallbacks'[h] # {} <=> h \in HeldNext
    PROVE  OneHome' /\ Held' = HeldNext
<1>1. Apart(currentBatch', pendingBatches', inFlight')
  BY DEF Placed
<1>2. Held' = HeldNext
  BY DEF Held, HeldNext, HeldBy, Queued
<1>3. \A b \in (Queued \cup inFlight)' : b \cap currentBatch' = {}
  BY <1>1 DEF Apart, Queued
<1>4. \A b \in Queued', c \in inFlight' : b \cap c = {}
  BY <1>1 DEF Apart, Queued
<1>5. /\ \A b, c \in inFlight' : b # c => b \cap c = {}
      /\ \A i, j \in 1..Len(pendingBatches') :
            i # j => pendingBatches'[i] \cap pendingBatches'[j] = {}
  BY <1>1 DEF Apart
<1> QED
  BY <1>2, <1>3, <1>4, <1>5 DEF OneHome

LEMMA NewItemMoves ==
    ASSUME IInv, NEW r \in Req, NewItem(r)
    PROVE  /\ PlacesNext
           /\ HeldNext = Held \cup {HashOf[r]}
           /\ inFlight \subseteq inFlight'
<1> DEFINE h == HashOf[r]
           batch == currentBatch \cup {h}
<1>1. h \in Hash /\ h \notin Held
  BY InvPlaced, RequestAssumption DEF NewItem
<1>2. Placed(currentBatch, pendingBatches, inFlight, numOutstanding)
  BY InvPlaced
<1>3. batch \in Batch
  BY <1>1, <1>2 DEF Placed, Batch
<1>4. Apart(batch, pendingBatches, inFlight)
  BY <1>1, <1>2 DEF Placed, Apart, Held, Queued
<1>5. Placed(batch, pendingBatches, inFlight, numOutstanding)
  BY <1>2, <1>3, <1>4 DEF Placed, Batch
<1>6. HeldBy(batch, pendingBatches, inFlight) = Held \cup {h}
  BY InvPlaced DEF HeldBy
<1>7. CASE Cardinality(batch) >= MaxBatchSize
  <2>1. timer' = "none" /\ sealBatchAndDispatch(batch, numOutstanding, inFlight)
    BY <1>7 DEF NewItem
  <2>2. pendingBatches # <<>> => numOutstanding = TargetConcurrency
    BY DEF IInv, NoStall
  <2>3. Dispatched(batch, inFlight) /\ currentBatch' = {}
    BY <1>3, <1>5, <2>1, <2>2, SealMoves
  <2> QED
    BY <1>6, <2>1, <2>3 DEF Dispatched, PlacesNext, HeldNext, NoStall
<1>8. CASE ~(Cardinality(batch) >= MaxBatchSize)
  <2>1. /\ timer' = "armed"
        /\ currentBatch' = batch
        /\ UNCHANGED <<pendingBatches, inFlight, numOutstanding>>
    BY <1>8 DEF NewItem
  <2>2. Placed(currentBatch', pendingBatches', inFlight', numOutstanding')
    BY <1>5, <2>1
  <2>3. NoStall'
    BY <2>1 DEF IInv, NoStall
  <2> QED
    BY <1>6, <2>1, <2>2, <2>3 DEF PlacesNext, HeldNext
<1> QED
  BY <1>7, <1>8

LEMMA ForwardMoves ==
    ASSUME IInv, makeForwardProgress
    PROVE  PlacesNext /\ HeldNext = Held /\ inFlight \subseteq inFlight'
<1>1. Placed(currentBatch, pendingBatches, inFlight, numOutstanding)
  BY InvPlaced
<1>2. CASE numOutstanding < TargetConcurrency
  <2>1. forceDispatch(numOutstanding, inFlight) /\ timer' = "none"
    BY <1>2 DEF makeForwardProgress
  <2>2. pendingBatches = <<>>
    BY <1>2, <1>1, LimitAssumption DEF IInv, NoStall, Placed
  <2>3. /\ Dispatched(currentBatch, inFlight)
        /\ numOutstanding' < TargetConcurrency => currentBatch' = {}
    BY <1>1, <1>2, <2>1, <2>2, ForceMoves
  <2>4. HeldNext = Held /\ inFlight \subseteq inFlight'
    BY <2>3, InvPlaced DEF Dispatched, HeldNext
  <2> QED
    BY <2>1, <2>3, <2>4 DEF Dispatched, PlacesNext, NoStall
<1>3. CASE ~(numOutstanding < TargetConcurrency)
  <2>1. /\ timer' = "fired"
        /\ UNCHANGED <<currentBatch, pendingBatches, inFlight, numOutstanding>>
    BY <1>3 DEF makeForwardProgress
  <2>2. HeldNext = Held
    BY <2>1, InvPlaced DEF HeldNext
  <2> QED
    BY <1>1, <1>3, <2>1, <2>2 DEF PlacesNext, IInv, NoStall
<1> QED
  BY <1>2, <1>3

LEMMA CompleteMoves ==
    ASSUME IInv, NEW b \in Batch, CompleteBatch(b)
    PROVE  /\ PlacesNext
           /\ HeldNext = Held \ b
           /\ inFlight \ {b} \subseteq inFlight'
<1> DEFINE flying == inFlight \ {b}
           out == numOutstanding - 1
<1>1. Placed(currentBatch, pendingBatches, inFlight, numOutstanding) /\ b \in inFlight
  BY InvPlaced DEF CompleteBatch
<1>2. flying \in SUBSET Batch /\ Cardinality(flying) = out
  BY <1>1, FiniteFlying, FS_RemoveElement DEF Placed
<1>3. out \in 0..TargetConcurrency /\ out < TargetConcurrency
  <2>1. Cardinality(flying) \in Nat
    BY <1>2, FiniteFlying, FS_CardinalityType
  <2> QED
    BY <1>1, <1>2, <2>1, LimitAssumption DEF Placed
<1>4. Apart(currentBatch, pendingBatches, flying)
  BY <1>1 DEF Placed, Apart
<1>5. Placed(currentBatch, pendingBatches, flying, out)
  BY <1>1, <1>2, <1>3, <1>4 DEF Placed
<1>6. HeldBy(currentBatch, pendingBatches, flying) = Held \ b
  <2>1. /\ currentBatch \cap b = {}
        /\ \A i \in 1..Len(pendingBatches) : pendingBatches[i] \cap b = {}
        /\ \A c \in flying : c \cap b = {}
    BY <1>1 DEF Placed, Apart
  <2> QED
    BY <1>1, <2>1 DEF Held, HeldBy, Queued
<1>7. pendingBatches # <<>> => out = TargetConcurrency - 1
  BY DEF IInv, NoStall
<1>8. forceDispatch(out, flying) /\ timer' = timer
  BY DEF CompleteBatch
<1>9. /\ Dispatched(currentBatch, flying)
      /\ numOutstanding' < TargetConcurrency => currentBatch' = {}
  BY <1>3, <1>5, <1>7, <1>8, ForceMoves
<1> QED
  BY <1>6, <1>8, <1>9 DEF Dispatched, PlacesNext, NoStall, HeldNext, IInv, TypeOK

-----------------------------------------------------------------------------

\* The part of TypeOK and of the invariant that the places do not settle.
LEMMA PlacesTyped ==
    ASSUME PlacesNext,
           answer' \in [Req -> Service!Answers],
           itemCallbacks' \in [Hash -> SUBSET Req],
           resultCache' \in [Hash -> Result \cup {NotCached}],
           timedOut' \subseteq inFlight',
           process' \in {"up", "dying", "exited"},
           \A h \in Hash : itemCallbacks'[h] # {} <=> h \in HeldNext,
           CallbacksAreWaiting', SameAnswer',
           \A h \in HeldNext : resultCache'[h] = NotCached
    PROVE  IInv'
<1>1. OneHome' /\ Held' = HeldNext
  BY HomesNext DEF PlacesNext
<1>2. TypeOK'
  BY DEF PlacesNext, Placed, TypeOK
<1>3. ConcurrencyBound'
  BY LimitAssumption DEF PlacesNext, Placed, ConcurrencyBound
<1> QED
  BY <1>1, <1>2, <1>3 DEF PlacesNext, IInv, NoRefetch

LEMMA InvInit == Init => IInv
<1> SUFFICES ASSUME Init PROVE IInv
  OBVIOUS
<1>1. pendingBatches \in Seq(Batch) /\ 1..Len(pendingBatches) = {} /\ Queued = {}
  BY EmptySeq DEF Init, Queued
<1>2. TypeOK
  BY <1>1, LimitAssumption DEF Init, TypeOK, Service!Answers
<1>3. Held = {}
  BY <1>1 DEF Held, Init
<1>4. OneHome
  BY <1>1, <1>3 DEF OneHome, Init
<1>5. ConcurrencyBound
  BY FS_EmptySet, LimitAssumption DEF ConcurrencyBound, Init
<1>6. CallbacksAreWaiting
  BY DEF CallbacksAreWaiting, Init
<1>7. SameAnswer
  BY ResultAssumption DEF SameAnswer, Init
<1> QED
  BY <1>2, <1>3, <1>4, <1>5, <1>6, <1>7 DEF IInv, NoStall, NoRefetch, Init

\* A step that only answers a request from the cache, or only concerns the
\* response timers and the process.
LEMMA InvQuiet ==
    ASSUME IInv,
           UNCHANGED <<itemCallbacks, currentBatch, pendingBatches, inFlight,
                       numOutstanding, timer, resultCache>>,
           answer' \in [Req -> Service!Answers],
           timedOut' \subseteq inFlight',
           process' \in {"up", "dying", "exited"},
           CallbacksAreWaiting', SameAnswer'
    PROVE  IInv'
<1>1. PlacesNext
  BY InvPlaced DEF PlacesNext, IInv, NoStall, TypeOK
<1>2. HeldNext = Held
  BY InvPlaced DEF HeldNext
<1> QED
  BY <1>1, <1>2, InvPlaced, PlacesTyped DEF IInv, TypeOK, NoRefetch

LEMMA InvCacheHit == ASSUME IInv, NEW r \in Req, CacheHit(r) PROVE IInv'
<1> USE DEF IInv, TypeOK
<1>1. /\ HashOf[r] \in Hash
      /\ resultCache[HashOf[r]] \in Result
      /\ answer[r] = "idle"
      /\ answer' = [answer EXCEPT ![r] = resultCache[HashOf[r]]]
  BY RequestAssumption DEF CacheHit
<1>2. answer' \in [Req -> Service!Answers]
  BY <1>1 DEF Service!Answers
<1>3. CallbacksAreWaiting'
  BY <1>1, ResultAssumption DEF CacheHit, CallbacksAreWaiting
<1>4. SameAnswer'
  BY <1>1 DEF CacheHit, SameAnswer
<1> QED
  BY <1>2, <1>3, <1>4, InvQuiet DEF CacheHit

LEMMA InvPushGeneric == ASSUME IInv, NEW r \in Req, pushGeneric(r) PROVE IInv'
<1> DEFINE h == HashOf[r]
<1>1. /\ h \in Hash
      /\ resultCache[h] = NotCached
      /\ answer[r] = "idle"
      /\ answer' = [answer EXCEPT ![r] = "waiting"]
      /\ itemCallbacks' = [itemCallbacks EXCEPT ![h] = @ \cup {r}]
      /\ UNCHANGED <<resultCache, timedOut, process>>
      /\ JoinItem(r) \/ NewItem(r)
  BY RequestAssumption DEF pushGeneric
<1>2. /\ answer' \in [Req -> Service!Answers]
      /\ itemCallbacks' \in [Hash -> SUBSET Req]
  BY <1>1 DEF IInv, TypeOK, Service!Answers
<1>3. CallbacksAreWaiting'
  <2>1. \A g \in Hash : itemCallbacks'[g] = IF g = h THEN itemCallbacks[g] \cup {r}
                                                   ELSE itemCallbacks[g]
    BY <1>1 DEF IInv, TypeOK
  <2>2. \A q \in Req : answer'[q] = IF q = r THEN "waiting" ELSE answer[q]
    BY <1>1 DEF IInv, TypeOK
  <2> QED
    BY <1>1, <2>1, <2>2 DEF IInv, CallbacksAreWaiting
<1>4. SameAnswer'
  <2>1. "waiting" \notin Result
    BY ResultAssumption
  <2>2. \A q \in Req : answer'[q] = IF q = r THEN "waiting" ELSE answer[q]
    BY <1>1 DEF IInv, TypeOK
  <2> QED
    BY <1>1, <2>1, <2>2 DEF IInv, SameAnswer
<1>5. \A g \in Hash : itemCallbacks'[g] # {} <=> g \in Held \cup {h}
  BY <1>1, InvPlaced DEF IInv, TypeOK
<1>6. PlacesNext /\ HeldNext = Held \cup {h} /\ inFlight \subseteq inFlight'
  <2>1. CASE JoinItem(r)
    <3>1. UNCHANGED <<currentBatch, pendingBatches, inFlight, numOutstanding, timer>>
      BY <2>1 DEF JoinItem
    <3>2. h \in Held
      BY <1>1, <2>1, InvPlaced DEF JoinItem
    <3>3. HeldNext = Held
      BY <3>1, InvPlaced DEF HeldNext
    <3> QED
      BY <3>1, <3>2, <3>3, InvPlaced DEF PlacesNext, IInv, NoStall, TypeOK
  <2>2. CASE NewItem(r)
    BY <2>2, NewItemMoves
  <2> QED
    BY <1>1, <2>1, <2>2
<1>7. \A g \in HeldNext : resultCache'[g] = NotCached
  BY <1>1, <1>6 DEF IInv, NoRefetch
<1> QED
  BY <1>1, <1>2, <1>3, <1>4, <1>5, <1>6, <1>7, PlacesTyped DEF IInv, TypeOK

LEMMA InvForward == ASSUME IInv, makeForwardProgress PROVE IInv'
<1>1. PlacesNext /\ HeldNext = Held /\ inFlight \subseteq inFlight'
  BY ForwardMoves
<1>2. UNCHANGED <<answer, itemCallbacks, resultCache, timedOut, process>>
  BY DEF makeForwardProgress
<1>3. CallbacksAreWaiting' /\ SameAnswer'
  BY <1>2 DEF IInv, CallbacksAreWaiting, SameAnswer
<1> QED
  BY <1>1, <1>2, <1>3, InvPlaced, PlacesTyped DEF IInv, TypeOK, NoRefetch

\* The items of a batch at the API are held, so somebody waits for each and
\* none is cached; afterwards nobody waits for them.
LEMMA CompletedItems ==
    ASSUME IInv, NEW b \in Batch, CompleteBatch(b)
    PROVE  /\ b \subseteq Held
           /\ \A h \in b : resultCache[h] = NotCached
           /\ Called(b) = {r \in Req : answer[r] = "waiting" /\ HashOf[r] \in b}
           /\ itemCallbacks' \in [Hash -> SUBSET Req]
           /\ \A h \in Hash : itemCallbacks'[h] = IF h \in b THEN {} ELSE itemCallbacks[h]
           /\ \A h \in Hash : itemCallbacks'[h] # {} <=> h \in Held \ b
           /\ timedOut' \subseteq inFlight'
           /\ process' \in {"up", "dying", "exited"}
<1>1. b \in inFlight /\ b \subseteq Hash
  BY DEF CompleteBatch, Batch
<1>2. b \subseteq Held
  BY <1>1 DEF Held
<1>3. \A h \in b : resultCache[h] = NotCached
  BY <1>2 DEF IInv, NoRefetch
<1>4. Called(b) = {r \in Req : answer[r] = "waiting" /\ HashOf[r] \in b}
  BY <1>1 DEF IInv, CallbacksAreWaiting, Called
<1>5. itemCallbacks' = [h \in Hash |-> IF h \in b THEN {} ELSE itemCallbacks[h]]
  BY DEF CompleteBatch
<1>6. itemCallbacks' \in [Hash -> SUBSET Req]
  BY <1>5 DEF IInv, TypeOK
<1>7. \A h \in Hash : itemCallbacks'[h] # {} <=> h \in Held \ b
  BY <1>5, InvPlaced
<1>8. timedOut' \subseteq inFlight' /\ process' = process
  BY CompleteMoves DEF CompleteBatch, IInv, TypeOK
<1> QED
  BY <1>2, <1>3, <1>4, <1>5, <1>6, <1>7, <1>8 DEF IInv, TypeOK

LEMMA InvBatchResult ==
    ASSUME IInv, NEW b \in Batch, NEW result \in [b -> Result], BatchResult(b, result)
    PROVE  IInv'
<1>1. /\ CompleteBatch(b)
      /\ answer' = [r \in Req |-> IF r \in Called(b) THEN result[HashOf[r]] ELSE answer[r]]
      /\ resultCache' = [h \in Hash |-> IF h \in b THEN result[h] ELSE resultCache[h]]
  BY DEF BatchResult
<1>2. PlacesNext /\ HeldNext = Held \ b
  BY <1>1, CompleteMoves
<1>3. \A r \in Called(b) : answer[r] = "waiting" /\ HashOf[r] \in b
  BY <1>1, CompletedItems
<1>4. answer' \in [Req -> Service!Answers]
  BY <1>1, <1>3 DEF IInv, TypeOK, Service!Answers
<1>5. resultCache' \in [Hash -> Result \cup {NotCached}]
  BY <1>1 DEF IInv, TypeOK
<1>6. CallbacksAreWaiting'
  <2>1. \A r \in Req : answer'[r] = "waiting" <=> answer[r] = "waiting" /\ HashOf[r] \notin b
    BY <1>1, CompletedItems, ResultAssumption
  <2> QED
    BY <1>1, <2>1, CompletedItems DEF IInv, CallbacksAreWaiting
<1>7. SameAnswer'
  <2> SUFFICES ASSUME NEW r \in Req, answer'[r] \in Result
               PROVE  resultCache'[HashOf[r]] = answer'[r]
    BY DEF SameAnswer
  <2>1. HashOf[r] \in Hash
    BY RequestAssumption
  <2>2. CASE r \in Called(b)
    BY <1>1, <1>3, <2>1, <2>2
  <2>3. CASE r \notin Called(b)
    <3>1. answer'[r] = answer[r] /\ resultCache[HashOf[r]] = answer[r]
      BY <1>1, <2>3 DEF IInv, SameAnswer
    <3>2. HashOf[r] \notin b
      BY <1>1, <3>1, CompletedItems, ResultAssumption
    <3> QED
      BY <1>1, <2>1, <3>1, <3>2
  <2> QED
    BY <2>2, <2>3
<1>8. \A h \in HeldNext : resultCache'[h] = NotCached
  <2>1. Held \subseteq Hash
    BY InvPlaced DEF HeldBy, Placed, Held, Queued, Batch, IInv, TypeOK
  <2> QED
    BY <1>1, <1>2, <2>1 DEF IInv, NoRefetch
<1> QED
  BY <1>1, <1>2, <1>4, <1>5, <1>6, <1>7, <1>8, CompletedItems, PlacesTyped

LEMMA InvBatchError == ASSUME IInv, NEW b \in Batch, BatchError(b) PROVE IInv'
<1>1. /\ CompleteBatch(b)
      /\ answer' = [r \in Req |-> IF r \in Called(b) THEN "error" ELSE answer[r]]
      /\ resultCache' = resultCache
  BY DEF BatchError
<1>2. PlacesNext /\ HeldNext = Held \ b
  BY <1>1, CompleteMoves
<1>3. answer' \in [Req -> Service!Answers]
  BY <1>1 DEF IInv, TypeOK, Service!Answers
<1>4. CallbacksAreWaiting'
  <2>1. \A r \in Req : answer'[r] = "waiting" <=> answer[r] = "waiting" /\ HashOf[r] \notin b
    BY <1>1, CompletedItems
  <2> QED
    BY <1>1, <2>1, CompletedItems DEF IInv, CallbacksAreWaiting
<1>5. SameAnswer'
  BY <1>1, ResultAssumption DEF IInv, SameAnswer
<1>6. \A h \in HeldNext : resultCache'[h] = NotCached
  BY <1>1, <1>2 DEF IInv, NoRefetch
<1> QED
  BY <1>1, <1>2, <1>3, <1>4, <1>5, <1>6, CompletedItems, PlacesTyped DEF IInv, TypeOK

LEMMA InvNext == IInv /\ [Next]_vars => IInv'
<1> SUFFICES ASSUME IInv, [Next]_vars PROVE IInv'
  OBVIOUS
<1>1. CASE \E r \in Req : Request(r)
  BY <1>1, InvCacheHit, InvPushGeneric DEF Request
<1>2. CASE makeForwardProgress
  BY <1>2, InvForward
<1>3. CASE \E b \in Batch : Respond(b)
  BY <1>3, InvBatchResult, InvBatchError DEF Respond
<1>4. CASE \E b \in Batch : handleResponseTimeout(b)
  <2>1. CallbacksAreWaiting' /\ SameAnswer'
    BY <1>4 DEF handleResponseTimeout, IInv, CallbacksAreWaiting, SameAnswer
  <2> QED
    BY <1>4, <2>1, InvQuiet DEF handleResponseTimeout, IInv, TypeOK
<1>5. CASE Exit
  <2>1. CallbacksAreWaiting' /\ SameAnswer'
    BY <1>5 DEF Exit, IInv, CallbacksAreWaiting, SameAnswer
  <2> QED
    BY <1>5, <2>1, InvQuiet DEF Exit, IInv, TypeOK
<1>6. CASE UNCHANGED vars
  <2>1. CallbacksAreWaiting' /\ SameAnswer'
    BY <1>6 DEF vars, IInv, CallbacksAreWaiting, SameAnswer
  <2> QED
    BY <1>6, <2>1, InvQuiet DEF vars, IInv, TypeOK
<1> QED
  BY <1>1, <1>2, <1>3, <1>4, <1>5, <1>6 DEF Next, BatchStep

\* In every behaviour of the batcher, whatever the limits: everything has its
\* type, every awaited item is in exactly one place, the concurrency limit is
\* kept, there is always a pending event that moves the next batch, callbacks
\* are exactly the waiting callers, and answers agree with the cache.
THEOREM BatcherInvariant == Spec => []IInv
<1>1. Init => IInv
  BY InvInit
<1>2. IInv /\ [Next]_vars => IInv'
  BY InvNext
<1> QED
  BY <1>1, <1>2, PTL DEF Spec

\* The parts of the invariant, by name.

\* The batcher's state always has its type; in particular the counter of
\* outstanding batches stays between 0 and batchConcurrency.
THEOREM BatcherTypeOK == Spec => []TypeOK
  BY BatcherInvariant, PTL DEF IInv

\* No item is sent twice, none is dropped while somebody waits for it.
THEOREM BatcherOneHome == Spec => []OneHome
  BY BatcherInvariant, PTL DEF IInv

\* At most batchConcurrency batches are at the API, and the counter is exact.
THEOREM BatcherConcurrencyBound == Spec => []ConcurrencyBound
  BY BatcherInvariant, PTL DEF IInv

\* Whenever there is work, a response or an armed timer will move it.
THEOREM BatcherNoStall == Spec => []NoStall
  BY BatcherInvariant, PTL DEF IInv

\* The registered callbacks are those of the callers that wait.
THEOREM BatcherCallbacks == Spec => []CallbacksAreWaiting
  BY BatcherInvariant, PTL DEF IInv

\* All callers of an item are told the same result.
THEOREM BatcherSameAnswer == Spec => []SameAnswer
  BY BatcherInvariant, PTL DEF IInv

\* An expanded item is not sent to the API again.
THEOREM BatcherNoRefetch == Spec => []NoRefetch
  BY BatcherInvariant, PTL DEF IInv

-----------------------------------------------------------------------------

LEMMA OneDispatchStep ==
    ASSUME IInv, [Next]_vars PROVE Cardinality(inFlight' \ inFlight) <= 1
<1> SUFFICES \E b : inFlight' \ inFlight \subseteq {b}
  <2> DEFINE new == inFlight' \ inFlight
  <2>1. ASSUME NEW b, new \subseteq {b} PROVE Cardinality(new) <= 1
    <3>1. CASE new = {}
      BY <3>1, FS_EmptySet
    <3>2. CASE new # {}
      <4>1. new = {b}
        BY <2>1, <3>2
      <4>2. Cardinality({b}) = 1
        BY FS_Singleton
      <4> HIDE DEF new
      <4> QED
        BY <4>1, <4>2
    <3> QED
      BY <3>1, <3>2
  <2> QED
    BY <2>1
<1>1. CASE inFlight' = inFlight
  BY <1>1
<1>2. CASE \E r \in Req : pushGeneric(r)
  BY <1>2, NewItemMoves DEF pushGeneric, JoinItem, PlacesNext
<1>3. CASE makeForwardProgress
  BY <1>3, ForwardMoves DEF PlacesNext
<1>4. CASE \E b \in Batch : CompleteBatch(b)
  BY <1>4, CompleteMoves DEF PlacesNext
<1> QED
  BY <1>1, <1>2, <1>3, <1>4 DEF Next, Request, CacheHit, BatchStep, Respond,
     BatchResult, BatchError, handleResponseTimeout, Exit, vars

\* dispatch never sends two batches in one call, so the loop variable that the
\* response listeners close over is never shared by two batches.
THEOREM BatcherOneDispatch == Spec => OneDispatchPerCall
<1>1. IInv /\ [Next]_vars => [Cardinality(inFlight' \ inFlight) <= 1]_vars
  BY OneDispatchStep
<1> QED
  BY <1>1, BatcherInvariant, PTL DEF Spec, OneDispatchPerCall

-----------------------------------------------------------------------------

\* What a response does to the answers.
LEMMA ResponseAnswers ==
    ASSUME IInv, NEW b \in Batch, CompleteBatch(b)
    PROVE  /\ \A h \in b : resultCache[h] = NotCached
           /\ \A r \in Req : r \in Called(b) <=> Service!Waiting(r, b)
  BY CompletedItems DEF Service!Waiting

\* Every step of the batcher is a step of the expansion service, or leaves the
\* answers and the recorded results alone.
LEMMA RefinementStep == IInv /\ [Next]_vars => [Service!Next]_(Service!svars)
<1> SUFFICES ASSUME IInv, [Next]_vars PROVE Service!Next \/ UNCHANGED Service!svars
  OBVIOUS
<1>1. CASE \E r \in Req : CacheHit(r) \/ pushGeneric(r)
  <2> PICK r \in Req : CacheHit(r) \/ pushGeneric(r)
    BY <1>1
  <2>1. Service!Ask(r)
    BY DEF CacheHit, pushGeneric, Service!Ask
  <2> QED
    BY <2>1 DEF Service!Next
<1>2. CASE \E b \in Batch : BatchError(b)
  <2> PICK b \in Batch : BatchError(b)
    BY <1>2
  <2>1. Service!Fail(b) /\ b \in SUBSET Hash
    BY ResponseAnswers DEF BatchError, Service!Fail, Batch
  <2> QED
    BY <2>1 DEF Service!Next
<1>3. CASE \E b \in Batch : \E result \in [b -> Result] : BatchResult(b, result)
  <2> PICK b \in Batch : \E result \in [b -> Result] : BatchResult(b, result)
    BY <1>3
  <2> PICK result \in [b -> Result] : BatchResult(b, result)
    OBVIOUS
  <2>1. Service!Settle(b, result) /\ b \in SUBSET Hash
    BY ResponseAnswers DEF BatchResult, Service!Settle, Batch
  <2> QED
    BY <2>1 DEF Service!Next
<1>4. CASE UNCHANGED <<answer, resultCache>>
  BY <1>4 DEF Service!svars
<1> QED
  BY <1>1, <1>2, <1>3, <1>4 DEF Next, Request, makeForwardProgress, BatchStep,
     Respond, handleResponseTimeout, Exit, vars

\* The batcher, with its batches, queue, timers and limits, implements the
\* expansion service the token transforms rely on.
THEOREM BatcherImplementsService == Spec => ImplementsService
<1>1. Init => Service!Init
  BY DEF Init, Service!Init
<1>2. IInv /\ [Next]_vars => [Service!Next]_(Service!svars)
  BY RefinementStep
<1> QED
  BY <1>1, <1>2, BatcherInvariant, PTL DEF Spec, ImplementsService, Service!Spec

LEMMA AnsweredOnceStep ==
    ASSUME IInv, [Next]_vars, NEW r \in Req, answer[r] \in Service!Final
    PROVE  answer'[r] = answer[r]
<1>1. answer[r] \notin {"idle", "waiting"}
  BY ResultAssumption DEF Service!Final
<1>2. CASE \E q \in Req : Request(q)
  BY <1>1, <1>2 DEF Request, CacheHit, pushGeneric, IInv, TypeOK
<1>3. CASE \E b \in Batch : Respond(b)
  BY <1>1, <1>3, CompletedItems DEF Respond, BatchResult, BatchError
<1>4. CASE answer' = answer
  BY <1>4
<1> QED
  BY <1>2, <1>3, <1>4 DEF Next, makeForwardProgress, BatchStep, handleResponseTimeout,
     Exit, vars

\* A caller is told its answer once, however the batches are answered.
THEOREM BatcherAnsweredOnce == Spec => AnsweredOnce
<1>1. IInv /\ [Next]_vars =>
        [\A r \in Req : answer[r] \in Service!Final => answer'[r] = answer[r]]_vars
  BY AnsweredOnceStep
<1> QED
  BY <1>1, BatcherInvariant, PTL DEF Spec, AnsweredOnce
=============================================================================
