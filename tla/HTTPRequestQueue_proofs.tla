----------------------- MODULE HTTPRequestQueue_proofs -----------------------
(***************************************************************************)
(* Proofs about the request queue, for every set of sockets, every finite  *)
(* non-empty set of workers and every capacity.                            *)
(***************************************************************************)
EXTENDS HTTPRequestQueue, FiniteSetTheorems, SequenceTheorems, TLAPS

(* Below twice the capacity, the modulo of the ring arithmetic is at most  *)
(* one subtraction.                                                        *)
LEMMA ModWrap ==
  ASSUME NEW C \in Nat \ {0}, NEW x \in 0 .. 2 * C - 1
  PROVE  x % C = IF x < C THEN x ELSE x - C
<1>1. x \div C \in Nat /\ x % C \in 0 .. C - 1 /\ x = (C * (x \div C)) + (x % C)
  BY SMT
<1>2. CASE x < C
  BY <1>1, <1>2, SMT
<1>3. CASE x >= C
  BY <1>1, <1>3, SMT
<1> QED BY <1>2, <1>3

(* The slot a places after h in the ring. *)
LEMMA SlotValue ==
  ASSUME NEW h \in Slots, NEW a \in 0 .. Capacity
  PROVE  /\ Slot(h, a) \in Slots
         /\ Slot(h, a) = IF h + a < Capacity THEN h + a ELSE h + a - Capacity
<1>1. h + a \in 0 .. 2 * Capacity - 1
  BY CapacityAssumption DEF Slots
<1>2. PICK x \in 0 .. 2 * Capacity - 1 : x = h + a
  BY <1>1
<1>3. x % Capacity = IF x < Capacity THEN x ELSE x - Capacity
  BY ModWrap, CapacityAssumption, Zenon
<1>4. Slot(h, a) = x % Capacity
  BY <1>2, Zenon DEF Slot
<1> QED BY <1>1, <1>2, <1>3, <1>4, CapacityAssumption DEF Slots

(* Two different distances below the capacity lead to different slots, so  *)
(* a push never overwrites a queued socket.                                *)
LEMMA SlotsDiffer ==
  ASSUME NEW h \in Slots, NEW a \in 0 .. Capacity - 1, NEW b \in 0 .. Capacity - 1, a # b
  PROVE  Slot(h, a) # Slot(h, b)
<1>1. /\ Slot(h, a) = IF h + a < Capacity THEN h + a ELSE h + a - Capacity
      /\ Slot(h, b) = IF h + b < Capacity THEN h + b ELSE h + b - Capacity
  BY SlotValue, CapacityAssumption
<1> QED BY <1>1, CapacityAssumption DEF Slots

(* Moving the origin by one slot and the distance by one the other way     *)
(* leads to the same slot.                                                 *)
LEMMA SlotShift ==
  ASSUME NEW h \in Slots, NEW a \in 0 .. Capacity - 1
  PROVE  /\ NextSlot(h) \in Slots
         /\ Slot(NextSlot(h), a) = Slot(h, a + 1)
<1>1. NextSlot(h) \in Slots /\ NextSlot(h) = IF h + 1 < Capacity THEN h + 1 ELSE h + 1 - Capacity
  BY SlotValue, CapacityAssumption DEF NextSlot
<1>2. Slot(NextSlot(h), a)
        = IF NextSlot(h) + a < Capacity THEN NextSlot(h) + a ELSE NextSlot(h) + a - Capacity
  BY <1>1, SlotValue, CapacityAssumption
<1>3. Slot(h, a + 1)
        = IF h + (a + 1) < Capacity THEN h + (a + 1) ELSE h + (a + 1) - Capacity
  BY SlotValue, CapacityAssumption
<1> QED BY <1>1, <1>2, <1>3, CapacityAssumption DEF Slots

(* The slot after the one a places away is the one a + 1 places away. *)
LEMMA NextSlotAfter ==
  ASSUME NEW h \in Slots, NEW a \in 0 .. Capacity - 1
  PROVE  NextSlot(Slot(h, a)) = Slot(h, a + 1)
<1>1. Slot(h, a) \in Slots /\ Slot(h, a) = IF h + a < Capacity THEN h + a ELSE h + a - Capacity
  BY SlotValue, CapacityAssumption
<1>2. NextSlot(Slot(h, a))
        = IF Slot(h, a) + 1 < Capacity THEN Slot(h, a) + 1 ELSE Slot(h, a) + 1 - Capacity
  BY <1>1, SlotValue, CapacityAssumption DEF NextSlot
<1>3. Slot(h, a + 1)
        = IF h + (a + 1) < Capacity THEN h + (a + 1) ELSE h + (a + 1) - Capacity
  BY SlotValue, CapacityAssumption
<1> QED BY <1>1, <1>2, <1>3, CapacityAssumption DEF Slots

-----------------------------------------------------------------------------

(* The initial state of http_request_queue_init satisfies the invariants.  *)
LEMMA InitInv == Init => TypeOK /\ RingOK
<1> SUFFICES ASSUME Init PROVE TypeOK /\ RingOK
  OBVIOUS
<1>1. TypeOK
  <2>1. 0 \in Slots /\ 0 \in 0 .. Capacity
    BY CapacityAssumption DEF Slots
  <2>2. /\ items \in [Slots -> Sockets \union {NoSocket}]
        /\ client_socket \in [Workers -> Sockets \union {NoSocket}]
        /\ worker \in [Workers -> WorkerStates]
    BY DEF Init, WorkerStates
  <2> QED BY <2>1, <2>2 DEF Init, TypeOK
<1>2. Slot(0, 0) = 0
  BY SlotValue, CapacityAssumption DEF Slots
<1> QED BY <1>1, <1>2 DEF Init, RingOK

(* A push keeps the ring in order: it fills the free slot at tail.         *)
LEMMA PushInv ==
  ASSUME TypeOK, RingOK, NEW s \in Sockets, http_request_queue_push(s)
  PROVE  TypeOK' /\ RingOK'
<1> USE CapacityAssumption DEF TypeOK, RingOK
<1>1. /\ count < Capacity /\ count' = count + 1 /\ head' = head
      /\ items' = [items EXCEPT ![tail] = s] /\ tail' = NextSlot(tail)
      /\ UNCHANGED <<shutting_down, client_socket>>
  BY DEF http_request_queue_push, HasRoom
<1>2. /\ worker' \in [Workers -> WorkerStates]
      /\ \A w \in Workers : worker'[w] = "busy" <=> worker[w] = "busy"
  BY DEF http_request_queue_push, platform_cond_signal, In, WorkerStates
<1>3. tail = Slot(head, count) /\ tail' = Slot(head, count + 1)
  BY <1>1, NextSlotAfter
<1>4. tail' \in Slots
  BY <1>1, <1>3, SlotValue
<1>5. TypeOK'
  BY <1>1, <1>2, <1>4
<1>6. ASSUME NEW i \in 0 .. count' - 1
      PROVE  items'[Slot(head', i)] \in Sockets
  <2>1. CASE i = count
    BY <1>1, <1>3, <2>1
  <2>2. CASE i # count
    <3>1. i \in 0 .. count - 1 /\ i \in 0 .. Capacity - 1 /\ count \in 0 .. Capacity - 1
      BY <1>1, <2>2
    <3>2. Slot(head, i) # tail /\ Slot(head, i) \in Slots
      BY <3>1, <2>2, <1>3, SlotsDiffer, SlotValue
    <3> QED BY <3>1, <3>2, <1>1
  <2> QED BY <2>1, <2>2
<1> QED BY <1>1, <1>2, <1>3, <1>5, <1>6

(* A pop keeps the ring in order: it frees the slot at head.               *)
LEMMA TakeInv ==
  ASSUME TypeOK, RingOK, NEW w \in Workers, PopTake(w)
  PROVE  TypeOK' /\ RingOK'
<1> USE CapacityAssumption DEF TypeOK, RingOK
<1>1. /\ count > 0 /\ count' = count - 1 /\ head' = NextSlot(head)
      /\ client_socket' = [client_socket EXCEPT ![w] = items[head]]
      /\ worker' = [worker EXCEPT ![w] = "busy"]
      /\ UNCHANGED <<items, tail, shutting_down>>
  BY DEF PopTake
<1>2. items[head] \in Sockets
  <2>1. Slot(head, 0) = head
    BY SlotValue DEF Slots
  <2> QED BY <2>1, <1>1
<1>3. head' \in Slots /\ \A a \in 0 .. count - 1 : Slot(head', a) = Slot(head, a + 1)
  BY <1>1, SlotShift DEF Slots
<1>4. TypeOK'
  BY <1>1, <1>2, <1>3 DEF WorkerStates
<1>5. tail' = Slot(head', count')
  BY <1>1, <1>3
<1>6. \A i \in 0 .. count' - 1 : items'[Slot(head', i)] \in Sockets
  BY <1>1, <1>3
<1> QED BY <1>1, <1>2, <1>4, <1>5, <1>6

(* Shutting the queue down, going to sleep, waking up, leaving and coming  *)
(* back for more leave the ring alone.                                     *)
LEMMA ShutdownInv ==
  ASSUME TypeOK, RingOK, http_request_queue_shutdown
  PROVE  TypeOK' /\ RingOK'
BY DEF TypeOK, RingOK, http_request_queue_shutdown, platform_cond_broadcast, WorkerStates

LEMMA WorkerInv ==
  ASSUME TypeOK, RingOK, NEW w \in Workers,
         PopWait(w) \/ PopExit(w) \/ SpuriousWakeup(w) \/ WorkerDone(w)
  PROVE  TypeOK' /\ RingOK'
<1> USE DEF TypeOK, RingOK, WorkerStates
<1>1. CASE PopWait(w)
  BY <1>1 DEF PopWait
<1>2. CASE PopExit(w)
  BY <1>2 DEF PopExit
<1>3. CASE SpuriousWakeup(w)
  BY <1>3 DEF SpuriousWakeup
<1>4. CASE WorkerDone(w)
  BY <1>4 DEF WorkerDone, queueVars
<1> QED BY <1>1, <1>2, <1>3, <1>4

(* Every step keeps the types and the shape of the ring.                   *)
LEMMA NextInv == TypeOK /\ RingOK /\ [Next]_vars => TypeOK' /\ RingOK'
<1> SUFFICES ASSUME TypeOK, RingOK, [Next]_vars
             PROVE  TypeOK' /\ RingOK'
  OBVIOUS
<1>1. CASE UNCHANGED vars
  BY <1>1 DEF vars, TypeOK, RingOK
<1> QED BY <1>1, PushInv, TakeInv, ShutdownInv, WorkerInv DEF Next, http_request_queue_pop

(* The ring of http_request_queue_push and http_request_queue_pop stays    *)
(* well formed: tail is count slots after head, the slots between them     *)
(* hold sockets, and a worker owns a socket exactly while it is busy.      *)
THEOREM RingCorrect == Spec => [](TypeOK /\ RingOK)
BY InitInv, NextInv, PTL DEF Spec

-----------------------------------------------------------------------------

(* Sets of workers are finite, so their sizes are natural numbers. *)
LEMMA WorkersFinite ==
  ASSUME NEW state
  PROVE  IsFiniteSet(In(state)) /\ Cardinality(In(state)) \in Nat
<1>1. IsFiniteSet(In(state))
  BY WorkersAssumption, FS_Subset DEF In
<1> QED BY <1>1, FS_CardinalityType

(* Every step keeps WorkConserving: a push adds one socket and, if anybody *)
(* sleeps, one worker that is on its way; a worker that takes a socket     *)
(* leaves with it; and nobody goes to sleep while a socket is queued.      *)
LEMMA NextWorkConserving ==
  TypeOK /\ WorkConserving /\ [Next]_vars => WorkConserving'
<1> SUFFICES ASSUME TypeOK, WorkConserving, [Next]_vars, In("waiting")' # {}
             PROVE  count' <= Cardinality(In("ready")')
  BY DEF WorkConserving
<1> USE DEF TypeOK
<1>1. ASSUME NEW s \in Sockets, http_request_queue_push(s)
      PROVE  count' <= Cardinality(In("ready")')
  <2>1. count' = count + 1
    BY <1>1 DEF http_request_queue_push
  <2>2. In("waiting") # {}
    BY <1>1 DEF http_request_queue_push, platform_cond_signal, In
  <2>3. PICK w \in In("waiting") : worker' = [worker EXCEPT ![w] = "ready"]
    BY <1>1, <2>2 DEF http_request_queue_push, platform_cond_signal
  <2>4. In("ready")' = In("ready") \union {w} /\ w \notin In("ready")
    BY <2>3 DEF In
  <2>5. Cardinality(In("ready")') = Cardinality(In("ready")) + 1
    BY <2>4, WorkersFinite, FS_AddElement
  <2> QED BY <2>1, <2>2, <2>5, WorkersFinite DEF WorkConserving
<1>2. CASE http_request_queue_shutdown
  BY <1>2 DEF http_request_queue_shutdown, platform_cond_broadcast, In
<1>3. ASSUME NEW w \in Workers, PopWait(w)
      PROVE  count' <= Cardinality(In("ready")')
  <2>1. count' = 0
    BY <1>3 DEF PopWait
  <2>2. In("ready")' \subseteq In("ready")
    BY <1>3 DEF PopWait, In
  <2> QED BY <2>1, <2>2, WorkersFinite, FS_Subset, FS_CardinalityType
<1>4. ASSUME NEW w \in Workers, PopTake(w)
      PROVE  count' <= Cardinality(In("ready")')
  <2>1. count' = count - 1
    BY <1>4 DEF PopTake
  <2>2. In("ready")' = In("ready") \ {w} /\ w \in In("ready")
    BY <1>4 DEF PopTake, In
  <2>3. Cardinality(In("ready")') = Cardinality(In("ready")) - 1
    BY <2>2, WorkersFinite, FS_RemoveElement
  <2>4. In("waiting") # {}
    BY <1>4 DEF PopTake, In
  <2> QED BY <2>1, <2>3, <2>4, WorkersFinite DEF WorkConserving
<1>5. ASSUME NEW w \in Workers, PopExit(w)
      PROVE  count' <= Cardinality(In("ready")')
  <2>1. count' = 0
    BY <1>5 DEF PopExit
  <2>2. In("ready")' \subseteq In("ready")
    BY <1>5 DEF PopExit, In
  <2> QED BY <2>1, <2>2, WorkersFinite, FS_Subset, FS_CardinalityType
<1>6. ASSUME NEW w \in Workers, SpuriousWakeup(w) \/ WorkerDone(w)
      PROVE  count' <= Cardinality(In("ready")')
  <2>1. count' = count
    BY <1>6 DEF SpuriousWakeup, WorkerDone, queueVars
  <2>2. In("ready")' = In("ready") \union {w} /\ w \notin In("ready")
    BY <1>6 DEF SpuriousWakeup, WorkerDone, In
  <2>3. Cardinality(In("ready")') = Cardinality(In("ready")) + 1
    BY <2>2, WorkersFinite, FS_AddElement
  <2>4. In("waiting") # {}
    BY <1>6 DEF SpuriousWakeup, WorkerDone, In
  <2> QED BY <2>1, <2>3, <2>4, WorkersFinite DEF WorkConserving
<1>7. CASE UNCHANGED vars
  BY <1>7 DEF vars, In, WorkConserving
<1> QED BY <1>1, <1>2, <1>3, <1>4, <1>5, <1>6, <1>7
        DEF Next, http_request_queue_pop

(* One platform_cond_signal per http_request_queue_push is enough, for any *)
(* number of workers: no worker sleeps over a socket nobody has come for.  *)
THEOREM SignalPerPushSuffices == Spec => []WorkConserving
<1>1. Init => WorkConserving
  BY DEF Init, WorkConserving, In
<1> QED BY <1>1, NextWorkConserving, RingCorrect, PTL DEF Spec

-----------------------------------------------------------------------------

(* Reading c slots from h on gives a sequence of c sockets. *)
LEMMA RingRead ==
  ASSUME NEW its \in [Slots -> Sockets \union {NoSocket}], NEW h \in Slots,
         NEW c \in 0 .. Capacity
  PROVE  /\ Read(its, h, c) \in Seq(Sockets \union {NoSocket})
         /\ Len(Read(its, h, c)) = c
         /\ \A i \in 1 .. c : Read(its, h, c)[i] = its[Slot(h, i - 1)]
<1>1. c \in Nat
  BY CapacityAssumption
<1>2. \A i \in 1 .. c : its[Slot(h, i - 1)] \in Sockets \union {NoSocket}
  <2> TAKE i \in 1 .. c
  <2>1. i - 1 \in 0 .. Capacity
    BY <1>1, CapacityAssumption
  <2> QED BY <2>1, SlotValue
<1>3. Read(its, h, c) \in [1 .. c -> Sockets \union {NoSocket}]
  BY <1>2 DEF Read
<1>4. \A i \in 1 .. c : Read(its, h, c)[i] = its[Slot(h, i - 1)]
  BY DEF Read
<1> QED BY <1>1, <1>3, <1>4

(* The queued sockets are such a sequence, in this state and in the next.  *)
LEMMA ContentsType ==
  ASSUME TypeOK
  PROVE  /\ Contents \in Seq(Sockets \union {NoSocket})
         /\ Len(Contents) = count
         /\ \A i \in 1 .. count : Contents[i] = items[Slot(head, i - 1)]
BY RingRead DEF TypeOK, Contents

LEMMA ContentsNextType ==
  ASSUME TypeOK'
  PROVE  /\ Contents' \in Seq(Sockets \union {NoSocket})
         /\ Len(Contents') = count'
         /\ \A i \in 1 .. count' : Contents'[i] = items'[Slot(head', i - 1)]
<1>1. Contents' = Read(items', head', count')
  BY DEF Contents, Read, Slot
<1>2. /\ items' \in [Slots -> Sockets \union {NoSocket}] /\ head' \in Slots
      /\ count' \in 0 .. Capacity
  BY DEF TypeOK
<1> QED BY <1>1, <1>2, RingRead

(* A push appends the new socket to the line. *)
LEMMA PushContents ==
  ASSUME TypeOK, RingOK, NEW s \in Sockets, http_request_queue_push(s)
  PROVE  Contents' = Append(Contents, s)
<1>1. TypeOK' /\ RingOK'
  BY PushInv
<1>2. /\ count < Capacity /\ count' = count + 1 /\ head' = head /\ count \in Nat
      /\ items' = [items EXCEPT ![tail] = s]
  BY CapacityAssumption DEF http_request_queue_push, HasRoom, TypeOK
<1>3. tail = Slot(head, count) /\ tail \in Slots
  BY DEF RingOK, TypeOK
<1>4. /\ Contents' \in Seq(Sockets \union {NoSocket}) /\ Len(Contents') = count'
      /\ \A i \in 1 .. count' : Contents'[i] = items'[Slot(head', i - 1)]
  BY <1>1, ContentsNextType
<1>5. ASSUME NEW i \in 1 .. count + 1
      PROVE  Contents'[i] = Append(Contents, s)[i]
  <2>1. CASE i = count + 1
    <3>1. Contents'[i] = items'[tail]
      BY <1>2, <1>3, <1>4, <2>1
    <3>2. items'[tail] = s
      BY <1>2, <1>3 DEF TypeOK
    <3>3. Append(Contents, s)[i] = s
      BY <1>2, <2>1, ContentsType, AppendProperties
    <3> QED BY <3>1, <3>2, <3>3
  <2>2. CASE i # count + 1
    <3>1. i \in 1 .. count /\ i - 1 \in 0 .. Capacity - 1 /\ count \in 0 .. Capacity - 1
      BY <1>2, <2>2, CapacityAssumption
    <3>2. Slot(head, i - 1) # tail /\ Slot(head, i - 1) \in Slots
      BY <3>1, <1>2, <1>3, SlotsDiffer, SlotValue, CapacityAssumption DEF TypeOK
    <3>3. Contents'[i] = items[Slot(head, i - 1)]
      BY <3>2, <1>2, <1>4 DEF TypeOK
    <3>4. Append(Contents, s)[i] = Contents[i]
      BY <3>1, ContentsType, AppendProperties
    <3> QED BY <3>1, <3>3, <3>4, ContentsType
  <2> QED BY <2>1, <2>2
<1>6. /\ Append(Contents, s) \in Seq(Sockets \union {NoSocket})
      /\ Len(Append(Contents, s)) = count + 1
  BY ContentsType, AppendProperties
<1> QED BY <1>2, <1>4, <1>5, <1>6, SeqEqual

(* A pop removes the first socket of the line and hands it to the worker.  *)
LEMMA TakeContents ==
  ASSUME TypeOK, RingOK, NEW w \in Workers, PopTake(w)
  PROVE  /\ Contents # <<>>
         /\ Contents' = Tail(Contents)
         /\ items[head] = Head(Contents)
<1>1. TypeOK' /\ RingOK'
  BY TakeInv
<1>2. /\ count > 0 /\ count \in Nat /\ count <= Capacity /\ count' = count - 1
      /\ head' = NextSlot(head) /\ items' = items
  BY CapacityAssumption DEF PopTake, TypeOK
<1>3. Contents # <<>> /\ Head(Contents) = Contents[1]
  BY <1>2, ContentsType
<1>4. Contents[1] = items[head]
  <2>1. Slot(head, 0) = head
    BY SlotValue, CapacityAssumption DEF TypeOK, Slots
  <2> QED BY <2>1, <1>2, ContentsType
<1>5. /\ Contents' \in Seq(Sockets \union {NoSocket}) /\ Len(Contents') = count'
      /\ \A i \in 1 .. count' : Contents'[i] = items'[Slot(head', i - 1)]
  BY <1>1, ContentsNextType
<1>6. /\ Tail(Contents) \in Seq(Sockets \union {NoSocket})
      /\ Len(Tail(Contents)) = count - 1
      /\ \A i \in 1 .. count - 1 : Tail(Contents)[i] = Contents[i + 1]
  BY <1>2, <1>3, ContentsType, HeadTailProperties
<1>7. ASSUME NEW i \in 1 .. count - 1
      PROVE  Contents'[i] = Tail(Contents)[i]
  <2>1. i - 1 \in 0 .. Capacity - 1 /\ i + 1 \in 1 .. count /\ i \in 1 .. count'
    BY <1>2, CapacityAssumption
  <2>2. Slot(NextSlot(head), i - 1) = Slot(head, (i - 1) + 1)
    BY <2>1, SlotShift DEF TypeOK
  <2>3. (i - 1) + 1 = (i + 1) - 1
    BY <2>1
  <2>4. Contents'[i] = items[Slot(head, (i + 1) - 1)]
    BY <2>1, <2>2, <2>3, <1>2, <1>5
  <2>5. Tail(Contents)[i] = Contents[i + 1]
    BY <1>6
  <2>6. Contents[i + 1] = items[Slot(head, (i + 1) - 1)]
    BY <2>1, ContentsType
  <2> QED BY <2>4, <2>5, <2>6
<1>8. Contents' = Tail(Contents)
  BY <1>2, <1>5, <1>6, <1>7, SeqEqual
<1> QED BY <1>3, <1>4, <1>8

(* Leaving count, head and items alone leaves the line alone. *)
LEMMA SameContents ==
  ASSUME UNCHANGED <<items, head, count>>
  PROVE  Contents' = Contents
BY DEF Contents

(* Every step of the ring buffer is a step of the bounded FIFO or leaves   *)
(* its state as it is.                                                     *)
LEMMA StepRefines ==
  ASSUME TypeOK, RingOK, [Next]_vars
  PROVE  [Fifo!Next]_(Fifo!vars)
<1> USE DEF Fifo!Next, Fifo!vars
<1>1. ASSUME NEW s \in Sockets, http_request_queue_push(s)
      PROVE  Fifo!Enter(s)
  <2>1. Contents' = Append(Contents, s) /\ Len(Contents) = count
    BY <1>1, PushContents, ContentsType
  <2>2. In("exited")' = In("exited")
    BY <1>1 DEF http_request_queue_push, platform_cond_signal, In, TypeOK
  <2> QED BY <1>1, <2>1, <2>2 DEF Fifo!Enter, http_request_queue_push, HasRoom
<1>2. ASSUME http_request_queue_shutdown
      PROVE  Fifo!Close
  <2>1. Contents' = Contents
    BY <1>2, SameContents DEF http_request_queue_shutdown
  <2>2. In("exited")' = In("exited")
    BY <1>2 DEF http_request_queue_shutdown, platform_cond_broadcast, In, TypeOK
  <2> QED BY <1>2, <2>1, <2>2 DEF Fifo!Close, http_request_queue_shutdown
<1>3. ASSUME NEW w \in Workers, PopWait(w) \/ SpuriousWakeup(w)
      PROVE  UNCHANGED Fifo!vars
  <2>1. Contents' = Contents
    BY <1>3, SameContents DEF PopWait, SpuriousWakeup
  <2>2. In("exited")' = In("exited")
    BY <1>3 DEF PopWait, SpuriousWakeup, In, TypeOK
  <2> QED BY <1>3, <2>1, <2>2 DEF PopWait, SpuriousWakeup
<1>4. ASSUME NEW w \in Workers, PopTake(w)
      PROVE  Fifo!Call(w)
  <2>1. w \notin In("exited") /\ In("exited")' = In("exited")
    BY <1>4 DEF PopTake, In, TypeOK
  <2>2. client_socket[w] = NoSocket
    BY <1>4 DEF PopTake, RingOK
  <2> QED BY <1>4, <2>1, <2>2, TakeContents DEF Fifo!Call, PopTake
<1>5. ASSUME NEW w \in Workers, PopExit(w)
      PROVE  Fifo!Leave(w)
  <2>1. Contents' = Contents
    BY <1>5, SameContents DEF PopExit
  <2>2. In("exited")' = In("exited") \union {w}
    BY <1>5 DEF PopExit, In, TypeOK
  <2>3. Contents = <<>>
    BY <1>5, ContentsType DEF PopExit
  <2>4. client_socket[w] = NoSocket
    BY <1>5 DEF PopExit, RingOK
  <2> QED BY <1>5, <2>1, <2>2, <2>3, <2>4 DEF Fifo!Leave, PopExit
<1>6. ASSUME NEW w \in Workers, WorkerDone(w)
      PROVE  Fifo!Finish(w)
  <2>1. Contents' = Contents
    BY <1>6, SameContents DEF WorkerDone, queueVars
  <2>2. In("exited")' = In("exited")
    BY <1>6 DEF WorkerDone, In, TypeOK
  <2>3. client_socket[w] # NoSocket
    BY <1>6, NoSocketAssumption DEF WorkerDone, RingOK
  <2> QED BY <1>6, <2>1, <2>2, <2>3 DEF Fifo!Finish, WorkerDone, queueVars
<1>7. CASE UNCHANGED vars
  <2>1. Contents' = Contents
    BY <1>7, SameContents DEF vars
  <2> QED BY <1>7, <2>1 DEF vars, In
<1> QED BY <1>1, <1>2, <1>3, <1>4, <1>5, <1>6, <1>7
        DEF Next, http_request_queue_pop

(* HTTPRequestQueue implements BoundedFifo: sockets reach the workers in   *)
(* the order in which the accept loop pushed them, none lost or handed out *)
(* twice, and worker_main returns only when the queue is closed and empty. *)
THEOREM RingImplementsFifo == Spec => ImplementsFifo
<1>1. Init => Fifo!Init
  <2> SUFFICES ASSUME Init PROVE Fifo!Init
    OBVIOUS
  <2>1. Contents = <<>>
    BY InitInv, ContentsType DEF Init
  <2> QED BY <2>1 DEF Init, Fifo!Init, In
<1>2. TypeOK /\ RingOK /\ [Next]_vars => [Fifo!Next]_(Fifo!vars)
  BY StepRefines
<1> QED BY <1>1, <1>2, RingCorrect, PTL DEF Spec, ImplementsFifo, Fifo!Spec

-----------------------------------------------------------------------------

(* A push puts a socket into the line that nobody holds. *)
LEMMA PushSingleOwner ==
  ASSUME TypeOK, RingOK, SingleOwner, NEW s \in Sockets \ OpenSockets, http_request_queue_push(s)
  PROVE  SingleOwner'
<1>1. Contents' = Append(Contents, s) /\ count' = count + 1 /\ client_socket' = client_socket
  BY PushContents DEF http_request_queue_push
<1>2. In("busy")' = In("busy")
  BY DEF http_request_queue_push, platform_cond_signal, In, TypeOK
<1>3. /\ Contents'[count + 1] = s
      /\ \A i \in 1 .. count : Contents'[i] = Contents[i] /\ Contents[i] # s
  <2>1. /\ Len(Contents) = count /\ Contents \in Seq(Sockets \union {NoSocket})
        /\ \A i \in 1 .. count : Contents[i] # s
    BY ContentsType DEF OpenSockets
  <2> QED BY <1>1, <2>1, AppendProperties
<1>4. \A w \in In("busy") : client_socket[w] # s
  BY DEF OpenSockets
<1>5. count \in Nat
  BY CapacityAssumption DEF TypeOK
<1>6. \A i, j \in 1 .. count' : Contents'[i] = Contents'[j] => i = j
  BY <1>1, <1>3, <1>5 DEF SingleOwner
<1>7. \A w \in In("busy")' : \A i \in 1 .. count' : Contents'[i] # client_socket'[w]
  BY <1>1, <1>2, <1>3, <1>4, <1>5 DEF SingleOwner
<1> QED BY <1>1, <1>2, <1>6, <1>7 DEF SingleOwner

(* A pop moves the first socket of the line to the worker that took it. *)
LEMMA TakeSingleOwner ==
  ASSUME TypeOK, RingOK, SingleOwner, NEW w \in Workers, PopTake(w)
  PROVE  SingleOwner'
<1>1. /\ count > 0 /\ count \in Nat /\ count' = count - 1
      /\ client_socket' = [client_socket EXCEPT ![w] = items[head]]
  BY CapacityAssumption DEF PopTake, TypeOK
<1>2. In("busy")' = In("busy") \union {w} /\ w \notin In("busy")
  BY DEF PopTake, In, TypeOK
<1>3. \A i \in 1 .. count' : i + 1 \in 2 .. count /\ Contents'[i] = Contents[i + 1]
  <2>1. /\ Contents' = Tail(Contents) /\ Contents # <<>> /\ Len(Contents) = count
        /\ Contents \in Seq(Sockets \union {NoSocket})
    BY TakeContents, ContentsType
  <2>2. \A i \in 1 .. count - 1 : Tail(Contents)[i] = Contents[i + 1]
    BY <1>1, <2>1
  <2> QED BY <1>1, <2>1, <2>2
<1>4. items[head] = Contents[1]
  BY TakeContents
<1>5. \A v \in In("busy") : client_socket'[v] = client_socket[v]
  BY <1>1, <1>2 DEF In, TypeOK
<1>6. client_socket'[w] = Contents[1]
  BY <1>1, <1>4 DEF TypeOK
<1>7. \A i, j \in 1 .. count' : Contents'[i] = Contents'[j] => i = j
  BY <1>1, <1>3 DEF SingleOwner
<1>8. \A v \in In("busy")' : \A i \in 1 .. count' : Contents'[i] # client_socket'[v]
  BY <1>1, <1>2, <1>3, <1>5, <1>6 DEF SingleOwner
<1>9. \A v \in In("busy")' : \A u \in In("busy")' \ {v} : client_socket'[u] # client_socket'[v]
  BY <1>1, <1>2, <1>5, <1>6 DEF SingleOwner
<1> QED BY <1>7, <1>8, <1>9 DEF SingleOwner

(* Every step keeps the owners of a socket down to one. *)
LEMMA NextSingleOwner ==
  ASSUME TypeOK, RingOK, SingleOwner, [Next]_vars
  PROVE  SingleOwner'
<1>1. ASSUME NEW s \in Sockets \ OpenSockets, http_request_queue_push(s)
      PROVE  SingleOwner'
  BY <1>1, PushSingleOwner
<1>2. CASE http_request_queue_shutdown
  <2>1. Contents' = Contents /\ In("busy")' = In("busy")
    BY <1>2, SameContents DEF http_request_queue_shutdown, platform_cond_broadcast, In, TypeOK
  <2> QED BY <1>2, <2>1 DEF http_request_queue_shutdown, SingleOwner
<1>3. ASSUME NEW w \in Workers, PopTake(w)
      PROVE  SingleOwner'
  BY <1>3, TakeSingleOwner
<1>4. ASSUME NEW w \in Workers, PopWait(w) \/ PopExit(w) \/ SpuriousWakeup(w)
      PROVE  SingleOwner'
  <2>1. /\ Contents' = Contents /\ In("busy")' = In("busy")
        /\ count' = count /\ client_socket' = client_socket
    BY <1>4, SameContents DEF PopWait, PopExit, SpuriousWakeup, In, TypeOK
  <2> QED BY <2>1 DEF SingleOwner
<1>5. ASSUME NEW w \in Workers, WorkerDone(w)
      PROVE  SingleOwner'
  <2>1. Contents' = Contents /\ count' = count /\ In("busy")' = In("busy") \ {w}
    BY <1>5, SameContents DEF WorkerDone, queueVars, In, TypeOK
  <2>2. \A v \in In("busy")' : client_socket'[v] = client_socket[v]
    BY <1>5, <2>1 DEF WorkerDone, In, TypeOK
  <2> QED BY <2>1, <2>2 DEF SingleOwner
<1>6. CASE UNCHANGED vars
  <2>1. Contents' = Contents /\ In("busy")' = In("busy")
    BY <1>6, SameContents DEF vars, In
  <2> QED BY <1>6, <2>1 DEF vars, SingleOwner
<1> QED BY <1>1, <1>2, <1>3, <1>4, <1>5, <1>6 DEF Next, http_request_queue_pop

(* Two workers never hold the same descriptor, and none holds one that is  *)
(* still queued, however their pops, wakeups and closes interleave.        *)
THEOREM SocketsOwnedOnce == Spec => []SingleOwner
<1>1. Init => SingleOwner
  <2> SUFFICES ASSUME Init PROVE SingleOwner
    OBVIOUS
  <2>1. count = 0 /\ In("busy") = {}
    BY DEF Init, In
  <2> QED BY <2>1 DEF SingleOwner
<1> QED BY <1>1, NextSingleOwner, RingCorrect, PTL DEF Spec

=============================================================================
