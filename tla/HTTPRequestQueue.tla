-------------------------- MODULE HTTPRequestQueue --------------------------
(***************************************************************************)
(* The request queue between the accept loop and the worker threads        *)
(* (HTTPRequestQueue in src/server/http_server.c): a ring buffer of client *)
(* sockets guarded by one mutex, with one condition variable on which idle *)
(* workers sleep.                                                          *)
(*                                                                         *)
(* Every access to the queue runs between platform_mutex_lock and          *)
(* platform_mutex_unlock, so each critical section is one step here.  The  *)
(* one place that gives the mutex up in the middle is platform_cond_wait:  *)
(* a worker that finds nothing becomes "waiting", and takes the mutex and  *)
(* evaluates the loop condition again only after it has been woken.        *)
(***************************************************************************)
EXTENDS Naturals, Sequences, FiniteSets

CONSTANTS Sockets,   \* descriptors accept() can return while they are not open
          Workers,   \* worker threads
          Capacity,  \* queue->capacity, at least 1 (http_request_queue_init)
          NoSocket   \* HTTP_INVALID_SOCKET

ASSUME CapacityAssumption == Capacity \in Nat \ {0}
ASSUME NoSocketAssumption == NoSocket \notin Sockets
ASSUME WorkersAssumption  == IsFiniteSet(Workers) /\ Workers # {}

VARIABLES items,          \* queue->items
          head,           \* queue->head
          tail,           \* queue->tail
          count,          \* queue->count
          shutting_down,  \* queue->shutting_down
          worker,         \* where each worker thread is, see WorkerStates
          client_socket   \* the socket each worker thread popped last

queueVars == <<items, head, tail, count, shutting_down>>
vars == <<items, head, tail, count, shutting_down, worker, client_socket>>

(***************************************************************************)
(* "ready": about to evaluate the loop condition of pop, either on entry   *)
(* or after being woken; "waiting": asleep in platform_cond_wait;          *)
(* "busy": handling client_socket[w]; "exited": worker_main returned.      *)
(***************************************************************************)
WorkerStates == {"ready", "waiting", "busy", "exited"}

In(state) == {w \in Workers : worker[w] = state}

Slots == 0 .. Capacity - 1

(* The ring position a places after i.  The code only ever moves by one:   *)
(* (i + 1U) % queue->capacity.                                             *)
Slot(i, a) == (i + a) % Capacity

NextSlot(i) == Slot(i, 1)

(* The c sockets from slot h on, and the queued sockets, oldest first. *)
Read(its, h, c) == [i \in 1 .. c |-> its[Slot(h, i - 1)]]

Contents == Read(items, head, count)

(* The sockets some part of the server still has open. *)
OpenSockets ==
  {Contents[i] : i \in 1 .. count} \union {client_socket[w] : w \in In("busy")}

-----------------------------------------------------------------------------

(* http_request_queue_init, and the workers before their first pop.  The   *)
(* malloc'ed items hold nothing yet, written NoSocket here.                *)
Init ==
  /\ items = [i \in Slots |-> NoSocket]
  /\ head = 0
  /\ tail = 0
  /\ count = 0
  /\ shutting_down = FALSE
  /\ worker = [w \in Workers |-> "ready"]
  /\ client_socket = [w \in Workers |-> NoSocket]

(* platform_cond_signal: one sleeping worker, if there is any, wakes up.   *)
platform_cond_signal ==
  IF In("waiting") = {}
    THEN UNCHANGED worker
    ELSE \E w \in In("waiting") : worker' = [worker EXCEPT ![w] = "ready"]

(* platform_cond_broadcast: every sleeping worker wakes up.                *)
platform_cond_broadcast ==
  worker' = [w \in Workers |-> IF worker[w] = "waiting" THEN "ready" ELSE worker[w]]

(* The test under which http_request_queue_push accepts a socket. *)
HasRoom == ~shutting_down /\ count < Capacity

(* Mutant of http_request_queue_push: it signals only into an empty queue. *)
http_request_queue_push_WhenEmpty(s) ==
  /\ HasRoom
  /\ items' = [items EXCEPT ![tail] = s]
  /\ tail' = NextSlot(tail)
  /\ count' = count + 1
  /\ IF count = 0 THEN platform_cond_signal ELSE UNCHANGED worker
  /\ UNCHANGED <<head, shutting_down, client_socket>>

(* The accept loop pushes a socket that the queue has room for.  When      *)
(* HasRoom is false the call returns 0 and changes nothing.                *)
http_request_queue_push(s) ==
  /\ HasRoom
  /\ items' = [items EXCEPT ![tail] = s]
  /\ tail' = NextSlot(tail)
  /\ count' = count + 1
  /\ platform_cond_signal
  /\ UNCHANGED <<head, shutting_down, client_socket>>

(* Worker w finds the queue empty and goes to sleep. *)
PopWait(w) ==
  /\ worker[w] = "ready"
  /\ count = 0
  /\ ~shutting_down
  /\ worker' = [worker EXCEPT ![w] = "waiting"]
  /\ UNCHANGED <<items, head, tail, count, shutting_down, client_socket>>

(* Mutants of PopTake: head is not advanced, the socket stays queued, or   *)
(* nothing is taken any more once the queue shuts down.                    *)
PopTake_KeepsHead(w) ==
  /\ worker[w] = "ready"
  /\ count > 0
  /\ client_socket' = [client_socket EXCEPT ![w] = items[head]]
  /\ count' = count - 1
  /\ worker' = [worker EXCEPT ![w] = "busy"]
  /\ UNCHANGED <<items, head, tail, shutting_down>>

PopTake_Peeks(w) ==
  /\ worker[w] = "ready"
  /\ count > 0
  /\ client_socket' = [client_socket EXCEPT ![w] = items[head]]
  /\ worker' = [worker EXCEPT ![w] = "busy"]
  /\ UNCHANGED queueVars

PopTake_StopsAtShutdown(w) ==
  /\ worker[w] = "ready"
  /\ count > 0
  /\ ~shutting_down
  /\ client_socket' = [client_socket EXCEPT ![w] = items[head]]
  /\ head' = NextSlot(head)
  /\ count' = count - 1
  /\ worker' = [worker EXCEPT ![w] = "busy"]
  /\ UNCHANGED <<items, tail, shutting_down>>

(* Worker w takes the oldest socket. *)
PopTake(w) ==
  /\ worker[w] = "ready"
  /\ count > 0
  /\ client_socket' = [client_socket EXCEPT ![w] = items[head]]
  /\ head' = NextSlot(head)
  /\ count' = count - 1
  /\ worker' = [worker EXCEPT ![w] = "busy"]
  /\ UNCHANGED <<items, tail, shutting_down>>

(* Mutant of PopExit: shutdown does not drain the queue. *)
PopExit_Undrained(w) ==
  /\ worker[w] = "ready"
  /\ shutting_down
  /\ worker' = [worker EXCEPT ![w] = "exited"]
  /\ UNCHANGED <<items, head, tail, count, shutting_down, client_socket>>

(* Worker w finds the queue empty and shutting down: pop returns           *)
(* HTTP_INVALID_SOCKET and worker_main leaves its loop.                    *)
PopExit(w) ==
  /\ worker[w] = "ready"
  /\ count = 0
  /\ shutting_down
  /\ worker' = [worker EXCEPT ![w] = "exited"]
  /\ UNCHANGED <<items, head, tail, count, shutting_down, client_socket>>

http_request_queue_pop(w) == PopWait(w) \/ PopTake(w) \/ PopExit(w)

(* platform_cond_wait may also return with no signal. *)
SpuriousWakeup(w) ==
  /\ worker[w] = "waiting"
  /\ worker' = [worker EXCEPT ![w] = "ready"]
  /\ UNCHANGED <<items, head, tail, count, shutting_down, client_socket>>

(* Worker w has handled its client, closes the socket and loops.           *)
WorkerDone(w) ==
  /\ worker[w] = "busy"
  /\ worker' = [worker EXCEPT ![w] = "ready"]
  /\ client_socket' = [client_socket EXCEPT ![w] = NoSocket]
  /\ UNCHANGED queueVars

http_request_queue_shutdown ==
  /\ shutting_down' = TRUE
  /\ platform_cond_broadcast
  /\ UNCHANGED <<items, head, tail, count, client_socket>>

Next ==
  \/ \E s \in Sockets \ OpenSockets : http_request_queue_push(s)
  \/ ~shutting_down /\ http_request_queue_shutdown
  \/ \E w \in Workers : http_request_queue_pop(w) \/ SpuriousWakeup(w) \/ WorkerDone(w)

Spec == Init /\ [][Next]_vars

(* A worker that is runnable inside pop is eventually scheduled.  Neither  *)
(* the arrival of a client, nor a spurious wakeup, nor a shutdown is owed  *)
(* by anybody, nor the end of WorkerDone's client: recv has no timeout.    *)
Fairness == \A w \in Workers : WF_vars(http_request_queue_pop(w))

FairSpec == Spec /\ Fairness

-----------------------------------------------------------------------------

(* The ranges of the queue's fields and of the workers' control points. *)
TypeOK ==
  /\ items \in [Slots -> Sockets \union {NoSocket}]
  /\ head \in Slots
  /\ tail \in Slots
  /\ count \in 0 .. Capacity
  /\ shutting_down \in BOOLEAN
  /\ worker \in [Workers -> WorkerStates]
  /\ client_socket \in [Workers -> Sockets \union {NoSocket}]

(* head, tail and count, which the code keeps separately, stay three views *)
(* of one queue: tail is count slots after head.  The socket slots between *)
(* them hold descriptors that push put there, and a worker has a           *)
(* descriptor exactly while it handles a client.                           *)
RingOK ==
  /\ tail = Slot(head, count)
  /\ \A i \in 0 .. count - 1 : items[Slot(head, i)] \in Sockets
  /\ \A w \in Workers :
       IF worker[w] = "busy" THEN client_socket[w] \in Sockets
                             ELSE client_socket[w] = NoSocket

(* http_request_queue_push wakes one worker per socket, never all.  That is *)
(* enough: while any worker sleeps, at least as many workers are on their   *)
(* way into pop as there are queued sockets, so no worker sleeps over work  *)
(* nobody has come for.                                                     *)
WorkConserving == In("waiting") # {} => count <= Cardinality(In("ready"))

(* No two threads ever hold, or will ever be handed, the same descriptor:   *)
(* the queue does not duplicate a socket that pop already gave away.        *)
SingleOwner ==
  /\ \A i, j \in 1 .. count : Contents[i] = Contents[j] => i = j
  /\ \A w \in In("busy") :
       /\ \A i \in 1 .. count : Contents[i] # client_socket[w]
       /\ \A v \in In("busy") \ {w} : client_socket[v] # client_socket[w]

(* The ring buffer with its sleeping workers implements the bounded FIFO:  *)
(* in particular sockets leave in the order they came, none is lost, and a *)
(* worker exits only when the queue is shut down and drained.              *)
Fifo == INSTANCE BoundedFifo
          WITH line <- Contents, open <- ~shutting_down,
               served <- client_socket, gone <- In("exited")

ImplementsFifo == Fifo!Spec

(* A socket the queue accepted is eventually taken by a worker, also when  *)
(* the server shuts down in the meantime, as long as there is a worker     *)
(* that no client keeps busy for ever: one such worker is enough, whatever *)
(* the other workers are kept by.                                          *)
EverySocketServed ==
  (\E w \in Workers : []<>(worker[w] # "busy")) =>
    \A s \in Sockets :
      (\E i \in 1 .. count : Contents[i] = s) ~> (\E w \in In("busy") : client_socket[w] = s)

=============================================================================
