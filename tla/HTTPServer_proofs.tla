-------------------------- MODULE HTTPServer_proofs --------------------------
(***************************************************************************)
(* Proofs about the HTTP server, for every finite set of connections,      *)
(* every finite non-empty set of workers, every capacity of the queue,     *)
(* every response limit and every set of requests and faults.              *)
(***************************************************************************)
EXTENDS HTTPServer, FiniteSetTheorems, TLAPS

(* What is proved of the request queue, for the queue of this server. *)
Ring == INSTANCE HTTPRequestQueue_proofs WITH Sockets <- Conns

(* The responses of the server. *)
StatementErrors == {"400 syntax_error", "400 query_error", "500 internal_error",
                    "503 lock_timeout"}
Answers == {"200", "400 malformed_http", "404", "405", "503 queue_full"} \union StatementErrors

(* The types that TypeOK leaves open. *)
TypeInv ==
  /\ TypeOK
  /\ Queue!RingOK
  /\ response \in [Workers -> Answers \union {"none"}]
  /\ \A w \in Workers : stage[w] = "sending" => response[w] \in Answers
  /\ said \in [Conns -> AllRequests \union {Nothing, Eof}]
  /\ replies \in [Conns -> Seq(Answers)]

(* How the accept loop, the queue's shutdown and the workers go together.  *)
LifeInv ==
  /\ main = "returned" <=> db = "destroyed"
  /\ shutting_down <=> main \in {"joining", "abandoning", "returned"}
  /\ incoming # NoSocket <=> main \in {"pushing", "refusing", "refused"}
  /\ main \notin {"spawning", "abandoning", "returned"} => running = Workers
  /\ main \in {"spawning", "binding", "abandoning"} => \A c \in Conns : conn[c] = "absent"
  /\ \A w \in Workers :
       /\ w \notin running => worker[w] = "ready"
       /\ worker[w] = "busy" <=> stage[w] # "none"
       /\ worker[w] = "exited" => shutting_down /\ count = 0
       /\ main = "returned" /\ w \in running => worker[w] = "exited"
  /\ DestroyedLast

(* A connection is open exactly while somebody has it, and then only one.  *)
OwnInv ==
  /\ incoming # NoSocket => conn[incoming] = "open"
  /\ \A i \in 1 .. count :
       /\ conn[Queue!Contents[i]] = "open"
       /\ Queue!Contents[i] # incoming
       /\ \A j \in 1 .. count : Queue!Contents[i] = Queue!Contents[j] => i = j
       /\ \A w \in Workers : Queue!Contents[i] # Client(w)
  /\ \A w \in Workers : Client(w) # NoSocket =>
       /\ conn[Client(w)] = "open"
       /\ Client(w) # incoming
       /\ \A v \in Workers : Client(v) = Client(w) => v = w
  /\ \A c \in Conns : conn[c] = "open" =>
       \/ incoming = c
       \/ \E i \in 1 .. count : Queue!Contents[i] = c
       \/ \E w \in Workers : Client(w) = c

(* The connections for which the server is done with sending. *)
Answered(c) ==
  \/ conn[c] = "closed"
  \/ incoming = c /\ main = "refused"
  \/ \E w \in Workers : Client(w) = c /\ stage[w] \in {"counting", "closing"}

(* Only such a connection has a response, and it has one. *)
ReplyInv ==
  \A c \in Conns :
    /\ replies[c] # <<>> => Answered(c)
    /\ Len(replies[c]) <= 1
    /\ Answered(c) /\ "memory" \notin Faults => Len(replies[c]) = 1

(* Response r answers what the client has said, q. *)
Matches(r, q) ==
  LET served == \/ q.method = "GET" /\ q.path \in {"/health", "/metrics"}
                \/ q.method = "POST" /\ q.path = "/query"
  IN  /\ r \in {"200"} \union StatementErrors => served
      /\ r \in StatementErrors => q.path = "/query"
      /\ r = "405" => ~served /\ q \notin {Malformed, Eof, Nothing}
      /\ r = "404" => q.path = "/other" /\ q.method \in {"GET", "POST"}
      /\ r = "400 malformed_http" /\ "signal" \notin Faults => q \in {Malformed, Eof}

(* The responses sent, and the ones chosen, match the requests. *)
MatchInv ==
  /\ \A c \in Conns : \A i \in DOMAIN replies[c] : Matches(replies[c][i], said[c])
  /\ \A w \in Workers :
       /\ stage[w] = "executing" => said[Client(w)] = [method |-> "POST", path |-> "/query"]
       /\ stage[w] = "sending" => Matches(response[w], said[Client(w)])

(* The workers whose response is not yet counted. *)
Uncounted == {w \in Workers : stage[w] \in {"reading", "executing", "sending", "counting"}}

(* The connection the accept loop has, or may still accept. *)
InHand == IF main \in {"selecting", "pushing", "refusing", "refused"} THEN 1 ELSE 0

(* What the server will have counted when it has stopped. *)
LimitInv ==
  MaxResponses > 0 =>
    /\ ~stop => completed < MaxResponses
    /\ stop => completed + Cardinality(Uncounted) + count + InHand
                 <= MaxResponses + Cardinality(Workers) + Capacity

-----------------------------------------------------------------------------
(* The queue.                                                              *)

(* The assumptions under which the queue's theorems are proved. *)
LEMMA RingAssumptions ==
  /\ Capacity \in Nat \ {0} /\ NoSocket \notin Conns
  /\ Ring!IsFiniteSet(Workers) /\ Workers # {}
BY CapacityAssumption, ConnsAssumption, WorkersAssumption DEF Ring!IsFiniteSet, IsFiniteSet

(* The server's queue is the one the theorems are about. *)
LEMMA SameRing ==
  /\ Queue!Init <=> Ring!Init
  /\ Queue!TypeOK <=> Ring!TypeOK
  /\ Queue!RingOK <=> Ring!RingOK
  /\ Queue!Contents = Ring!Contents
  /\ \A s : Queue!http_request_queue_push(s) <=> Ring!http_request_queue_push(s)
  /\ \A w : Queue!PopTake(w) <=> Ring!PopTake(w)
  /\ \A w : Queue!PopWait(w) <=> Ring!PopWait(w)
  /\ \A w : Queue!PopExit(w) <=> Ring!PopExit(w)
  /\ \A w : Queue!SpuriousWakeup(w) <=> Ring!SpuriousWakeup(w)
  /\ \A w : Queue!WorkerDone(w) <=> Ring!WorkerDone(w)
  /\ Queue!http_request_queue_shutdown <=> Ring!http_request_queue_shutdown
BY DEF Queue!Init, Ring!Init, Queue!TypeOK, Ring!TypeOK, Queue!Slots, Ring!Slots,
       Queue!WorkerStates, Ring!WorkerStates, Queue!RingOK, Ring!RingOK, Queue!Slot, Ring!Slot,
       Queue!Contents, Ring!Contents, Queue!Read, Ring!Read,
       Queue!http_request_queue_push, Ring!http_request_queue_push, Queue!HasRoom, Ring!HasRoom,
       Queue!NextSlot, Ring!NextSlot, Queue!platform_cond_signal, Ring!platform_cond_signal,
       Queue!In, Ring!In, Queue!PopTake, Ring!PopTake, Queue!PopWait, Ring!PopWait,
       Queue!PopExit, Ring!PopExit, Queue!SpuriousWakeup, Ring!SpuriousWakeup,
       Queue!WorkerDone, Ring!WorkerDone, Queue!queueVars, Ring!queueVars,
       Queue!http_request_queue_shutdown, Ring!http_request_queue_shutdown,
       Queue!platform_cond_broadcast, Ring!platform_cond_broadcast

LEMMA SameRingNext ==
  /\ Queue!TypeOK' <=> Ring!TypeOK'
  /\ Queue!RingOK' <=> Ring!RingOK'
  /\ Queue!Contents' = Ring!Contents'
BY DEF Queue!TypeOK, Ring!TypeOK, Queue!Slots, Ring!Slots, Queue!WorkerStates,
       Ring!WorkerStates, Queue!RingOK, Ring!RingOK, Queue!Slot, Ring!Slot,
       Queue!Contents, Ring!Contents, Queue!Read, Ring!Read

(* http_request_queue_push puts the connection behind the ones queued. *)
LEMMA QueuePush ==
  ASSUME Queue!TypeOK, Queue!RingOK, NEW s \in Conns, Queue!http_request_queue_push(s)
  PROVE  /\ Queue!TypeOK' /\ Queue!RingOK'
         /\ count \in Nat /\ count' = count + 1
         /\ Queue!Contents'[count + 1] = s
         /\ \A i \in 1 .. count : Queue!Contents'[i] = Queue!Contents[i]
<1>1. Ring!TypeOK /\ Ring!RingOK /\ Ring!http_request_queue_push(s)
  BY SameRing
<1>2. Ring!TypeOK' /\ Ring!RingOK'
  BY <1>1, Ring!PushInv, RingAssumptions
<1>3. /\ Ring!Contents' = Append(Ring!Contents, s) /\ Len(Ring!Contents) = count
      /\ Ring!Contents \in Seq(Conns \union {NoSocket})
  BY <1>1, Ring!PushContents, Ring!ContentsType, RingAssumptions
<1>4. count \in Nat /\ count' = count + 1
  BY CapacityAssumption DEF Queue!TypeOK, Queue!http_request_queue_push
<1>5. /\ Ring!Contents'[count + 1] = s
      /\ \A i \in 1 .. count : Ring!Contents'[i] = Ring!Contents[i]
  BY <1>3, <1>4
<1> QED BY <1>2, <1>4, <1>5, SameRing, SameRingNext

(* PopTake hands the worker the first of the queued connections. *)
LEMMA QueueTake ==
  ASSUME Queue!TypeOK, Queue!RingOK, NEW w \in Workers, Queue!PopTake(w)
  PROVE  /\ Queue!TypeOK' /\ Queue!RingOK'
         /\ count \in Nat \ {0} /\ count' = count - 1
         /\ client_socket' = [client_socket EXCEPT ![w] = Queue!Contents[1]]
         /\ \A i \in 1 .. count - 1 : Queue!Contents'[i] = Queue!Contents[i + 1]
<1>1. Ring!TypeOK /\ Ring!RingOK /\ Ring!PopTake(w)
  BY SameRing
<1>2. Ring!TypeOK' /\ Ring!RingOK'
  BY <1>1, Ring!TakeInv, RingAssumptions
<1>3. /\ Ring!Contents # <<>> /\ Ring!Contents' = Tail(Ring!Contents)
      /\ items[head] = Head(Ring!Contents) /\ Len(Ring!Contents) = count
      /\ Ring!Contents \in Seq(Conns \union {NoSocket})
  BY <1>1, Ring!TakeContents, Ring!ContentsType, RingAssumptions
<1>4. count \in Nat \ {0} /\ count' = count - 1
  BY CapacityAssumption DEF Queue!TypeOK, Queue!PopTake
<1>5. /\ items[head] = Ring!Contents[1]
      /\ \A i \in 1 .. count - 1 : Ring!Contents'[i] = Ring!Contents[i + 1]
  BY <1>3, <1>4
<1> QED BY <1>2, <1>4, <1>5, SameRing, SameRingNext DEF Queue!PopTake

(* The other operations of the queue leave its contents alone. *)
LEMMA QueueQuiet ==
  ASSUME Queue!TypeOK, Queue!RingOK,
         \/ Queue!http_request_queue_shutdown
         \/ \E w \in Workers : \/ Queue!PopWait(w) \/ Queue!PopExit(w)
                               \/ Queue!SpuriousWakeup(w) \/ Queue!WorkerDone(w)
  PROVE  Queue!TypeOK' /\ Queue!RingOK'
<1>1. Ring!TypeOK /\ Ring!RingOK
  BY SameRing
<1>2. CASE Queue!http_request_queue_shutdown
  BY <1>1, <1>2, Ring!ShutdownInv, RingAssumptions, SameRing, SameRingNext
<1>3. ASSUME NEW w \in Workers,
             Queue!PopWait(w) \/ Queue!PopExit(w) \/ Queue!SpuriousWakeup(w) \/ Queue!WorkerDone(w)
      PROVE  Queue!TypeOK' /\ Queue!RingOK'
  BY <1>1, <1>3, Ring!WorkerInv, RingAssumptions, SameRing, SameRingNext
<1> QED BY <1>2, <1>3

(* The queued connections are connections. *)
LEMMA QueuedConns ==
  ASSUME Queue!TypeOK, Queue!RingOK
  PROVE  count \in Nat /\ \A i \in 1 .. count : Queue!Contents[i] \in Conns
<1>1. count \in Nat
  BY CapacityAssumption DEF Queue!TypeOK
<1>2. \A i \in 1 .. count : items[Queue!Slot(head, i - 1)] \in Conns
  BY <1>1 DEF Queue!RingOK
<1> QED BY <1>1, <1>2 DEF Queue!Contents, Queue!Read

-----------------------------------------------------------------------------
(* Types.                                                                  *)

(* A worker inside http_server_handle_client has a connection. *)
LEMMA HandlerHasClient ==
  ASSUME TypeInv, LifeInv, NEW w \in Workers, stage[w] # "none"
  PROVE  Client(w) \in Conns /\ Client(w) # NoSocket /\ worker[w] = "busy"
BY ConnsAssumption DEF TypeInv, LifeInv, Queue!RingOK, Client

(* Only a worker inside http_server_handle_client has one. *)
LEMMA ClientHasHandler ==
  ASSUME TypeInv, LifeInv, NEW w \in Workers, NEW c \in Conns, Client(w) = c
  PROVE  stage[w] # "none"
BY ConnsAssumption DEF TypeInv, LifeInv, Queue!RingOK, Client

(* The accept loop has one from Accept to Push or RefuseDone. *)
LEMMA LoopHasIncoming ==
  ASSUME TypeInv, LifeInv, main \in {"pushing", "refusing", "refused"}
  PROVE  incoming \in Conns
BY DEF TypeInv, TypeOK, LifeInv

(* The responses that are chosen are responses. *)
LEMMA ChosenAnswers ==
  /\ \A r : Route(r) # "execute" => Route(r) \in Answers
  /\ \A st \in ExecStatuses : api_build_execution_response(st) \in Answers
BY DEF Route, api_build_execution_response, ExecStatuses, Done, Answers, StatementErrors

(* Every step uses the queue as its own module says. *)
LEMMA NextQueueType ==
  ASSUME TypeInv, LifeInv, [Next]_vars
  PROVE  Queue!TypeOK' /\ Queue!RingOK'
<1> USE DEF TypeInv, TypeOK
<1>1. CASE Push
  BY <1>1, LoopHasIncoming, QueuePush DEF Push
<1>2. CASE BindFails \/ LoopEnds
  BY <1>2, QueueQuiet DEF BindFails, LoopEnds
<1>3. ASSUME NEW w \in Workers, Pop(w)
      PROVE  Queue!TypeOK' /\ Queue!RingOK'
  BY <1>3, QueueTake, QueueQuiet DEF Pop, Queue!http_request_queue_pop
<1>4. ASSUME NEW w \in Workers, Wakeup(w) \/ CloseClient(w)
      PROVE  Queue!TypeOK' /\ Queue!RingOK'
  BY <1>4, QueueQuiet DEF Wakeup, CloseClient
<1>5. CASE SpawnFails
  BY <1>5 DEF SpawnFails, Queue!TypeOK, Queue!RingOK
<1>6. CASE UNCHANGED queueVars
  BY <1>6 DEF queueVars, Queue!TypeOK, Queue!RingOK
<1>7. CASE Signal
  BY <1>6, <1>7, QueueQuiet DEF Signal, queueVars
<1> QED BY <1>1, <1>2, <1>3, <1>4, <1>5, <1>6, <1>7
        DEF Next, MainStep, WorkerStep, vars, queueVars, Spawn, Bind, LoopContinues,
            NothingAccepted, Accept, PushFails, Refuse, RefuseDone, JoinAll, ReadAndRoute,
            Executed, SendResponse, CountResponse, Connect, Say

(* Sending appends a response, or nothing. *)
LEMMA SendType ==
  ASSUME TypeInv, NEW c \in Conns, NEW r \in Answers, http_server_send_response(c, r)
  PROVE  replies' \in [Conns -> Seq(Answers)]
<1>1. replies \in [Conns -> Seq(Answers)] /\ Append(replies[c], r) \in Seq(Answers)
  BY DEF TypeInv
<1> QED BY <1>1 DEF http_server_send_response

(* Every step keeps the types of the rest of the server. *)
LEMMA NextTypeInv ==
  ASSUME TypeInv, LifeInv, [Next]_vars
  PROVE  TypeInv'
<1> USE DEF TypeInv, TypeOK
<1> DEFINE Rest == /\ main' \in MainPoints
                   /\ running' \subseteq Workers
                   /\ stop' \in BOOLEAN
                   /\ incoming' \in Conns \union {NoSocket}
                   /\ stage' \in [Workers -> Stages]
                   /\ {completed', total_requests', total_errors'} \subseteq Nat
                   /\ db' \in {"live", "destroyed"}
                   /\ conn' \in [Conns -> ConnStates]
                   /\ response' \in [Workers -> Answers \union {"none"}]
                   /\ \A w \in Workers : stage'[w] = "sending" => response'[w] \in Answers
                   /\ said' \in [Conns -> AllRequests \union {Nothing, Eof}]
                   /\ replies' \in [Conns -> Seq(Answers)]
<1> SUFFICES Rest
  BY NextQueueType
<1>1. CASE (\E w \in Workers : Spawn(w)) \/ SpawnFails \/ Bind \/ BindFails
  BY <1>1 DEF Spawn, SpawnFails, Bind, BindFails, queueVars, handlerVars, countVars, clientVars,
              MainPoints
<1>2. CASE LoopContinues \/ LoopEnds \/ NothingAccepted \/ Push \/ PushFails \/ JoinAll
  BY <1>2 DEF LoopContinues, LoopEnds, NothingAccepted, Push, PushFails, JoinAll,
              queueVars, handlerVars, countVars, clientVars, MainPoints
<1>3. ASSUME NEW c \in Conns, Accept(c) PROVE Rest
  BY <1>3 DEF Accept, handlerVars, countVars, MainPoints, ConnStates
<1>4. CASE Refuse
  <2>1. replies' \in [Conns -> Seq(Answers)]
    BY <1>4, SendType, LoopHasIncoming DEF Refuse, Answers
  <2> QED BY <1>4, <2>1 DEF Refuse, handlerVars, countVars, MainPoints
<1>5. CASE RefuseDone
  BY <1>5, LoopHasIncoming DEF RefuseDone, http_server_note_response_complete, metricsVars,
                               handlerVars, MainPoints, ConnStates
<1>6. CASE Signal
  BY <1>6 DEF Signal, Goto, countVars, clientVars, handlerVars, MainPoints, Stages, Answers
<1>7. ASSUME NEW w \in Workers, Pop(w) \/ Wakeup(w)
      PROVE  Rest
  BY <1>7 DEF Pop, Wakeup, Goto, mainVars, handlerVars, countVars, clientVars, Stages
<1>8. ASSUME NEW w \in Workers, ReadAndRoute(w)
      PROVE  Rest
  BY <1>8, ChosenAnswers DEF ReadAndRoute, Goto, mainVars, clientVars, Stages
<1>9. ASSUME NEW w \in Workers, Executed(w)
      PROVE  Rest
  <2>1. PICK r \in Answers : response' = [response EXCEPT ![w] = r]
    BY <1>9, ChosenAnswers DEF Executed, Answers, StatementErrors
  <2>2. total_errors' \in {total_errors, total_errors + 1}
    <3>1. PICK st \in ExecStatuses : total_errors' = total_errors + (IF st \in Done THEN 0 ELSE 1)
      BY <1>9, Zenon DEF Executed
    <3>2. total_errors \in Nat
      OBVIOUS
    <3> QED BY <3>1, <3>2
  <2>3. /\ stage' = [stage EXCEPT ![w] = "sending"]
        /\ UNCHANGED <<main, running, incoming, db, stop, completed, total_requests, conn, said,
                       replies>>
    BY <1>9 DEF Executed, Goto, mainVars, clientVars
  <2> QED BY <2>1, <2>2, <2>3 DEF Stages
<1>10. ASSUME NEW w \in Workers, SendResponse(w)
       PROVE  Rest
  <2>1. replies' \in [Conns -> Seq(Answers)]
    BY <1>10, SendType, HandlerHasClient DEF SendResponse
  <2> QED BY <1>10, <2>1 DEF SendResponse, Goto, mainVars, countVars, Stages
<1>11. ASSUME NEW w \in Workers, CountResponse(w)
       PROVE  Rest
  BY <1>11 DEF CountResponse, Goto, http_server_note_response_complete, metricsVars, mainVars,
               clientVars, Stages
<1>12. ASSUME NEW w \in Workers, CloseClient(w)
       PROVE  Rest
  BY <1>12, HandlerHasClient DEF CloseClient, Goto, mainVars, countVars, Stages, ConnStates
<1>13. ASSUME NEW c \in Conns, Connect(c) \/ Say(c)
       PROVE  Rest
  BY <1>13, RequestsAssumption DEF Connect, Say, mainVars, handlerVars, countVars, ConnStates
<1>14. CASE UNCHANGED vars
  BY <1>14 DEF vars
<1> QED
  BY <1>1, <1>2, <1>3, <1>4, <1>5, <1>6, <1>7, <1>8, <1>9, <1>10, <1>11, <1>12, <1>13, <1>14
     DEF Next, MainStep, WorkerStep

-----------------------------------------------------------------------------
(* The life of the server.                                                 *)

(* Without an open connection the queue is empty. *)
LEMMA NobodyQueued ==
  ASSUME TypeInv, OwnInv, \A c \in Conns : conn[c] # "open"
  PROVE  count = 0
<1>1. count \in Nat /\ \A i \in 1 .. count : Queue!Contents[i] \in Conns
  BY QueuedConns DEF TypeInv, TypeOK
<1> QED BY <1>1 DEF OwnInv

(* When all workers that were created have exited, the server has nothing  *)
(* left: the queue is drained and every accepted connection is closed.     *)
LEMMA JoinDrained ==
  ASSUME TypeInv, LifeInv, OwnInv, JoinAll
  PROVE  DestroyedLast'
<1>1. \A w \in Workers : stage[w] = "none" /\ Client(w) = NoSocket
  <2> TAKE w \in Workers
  <2>1. worker[w] # "busy"
    BY DEF JoinAll, LifeInv
  <2> QED BY <2>1 DEF LifeInv, TypeInv, Queue!RingOK, Client
<1>2. incoming = NoSocket
  BY DEF JoinAll, LifeInv
<1>3. count = 0
  <2>1. CASE main = "abandoning"
    BY <2>1, NobodyQueued DEF LifeInv
  <2>2. CASE main = "joining"
    BY <2>2, WorkersAssumption DEF JoinAll, LifeInv
  <2> QED BY <2>1, <2>2 DEF JoinAll
<1>4. \A c \in Conns : conn[c] # "open"
  BY <1>1, <1>2, <1>3, ConnsAssumption DEF OwnInv
<1> QED BY <1>1, <1>3, <1>4 DEF DestroyedLast, JoinAll, queueVars, handlerVars, clientVars

(* A step of a worker that has returned, or that was never created, is not *)
(* possible any more when http_server_run has returned.                    *)
LEMMA NextLifeInv ==
  ASSUME TypeInv, LifeInv, OwnInv, [Next]_vars
  PROVE  LifeInv'
<1> USE DEF TypeInv, TypeOK, LifeInv
<1>1. CASE (\E w \in Workers : Spawn(w)) \/ SpawnFails \/ Bind
  BY <1>1 DEF Spawn, SpawnFails, Bind, queueVars, handlerVars, clientVars, MainPoints,
              DestroyedLast
<1>2. CASE BindFails \/ LoopEnds
  BY <1>2 DEF BindFails, LoopEnds, Queue!http_request_queue_shutdown,
              Queue!platform_cond_broadcast, Queue!TypeOK, Queue!WorkerStates, handlerVars,
              clientVars, DestroyedLast
<1>3. CASE LoopContinues \/ NothingAccepted \/ PushFails \/ Refuse
  <2>1. /\ UNCHANGED <<running, incoming, db, conn, shutting_down, worker, count, stage>>
        /\ \/ main \in {"looping", "selecting"} /\ main' \in {"looping", "selecting"}
           \/ main \in {"pushing", "refusing"} /\ main' \in {"refusing", "refused"}
    BY <1>3 DEF LoopContinues, NothingAccepted, PushFails, Refuse, queueVars, handlerVars,
                clientVars
  <2> QED BY <2>1 DEF DestroyedLast
<1>4. ASSUME NEW c \in Conns, Accept(c) PROVE LifeInv'
  BY <1>4, ConnsAssumption DEF Accept, queueVars, handlerVars, DestroyedLast
<1>5. CASE Push
  <2>1. /\ main = "pushing" /\ main' = "looping" /\ incoming' = NoSocket
        /\ ~shutting_down /\ ~shutting_down'
        /\ UNCHANGED <<running, db, conn, stage>>
    BY <1>5 DEF Push, Queue!http_request_queue_push, Queue!HasRoom, handlerVars, clientVars
  <2>2. worker' = worker \/ \E v \in Workers : /\ worker[v] = "waiting"
                                             /\ worker' = [worker EXCEPT ![v] = "ready"]
    BY <1>5 DEF Push, Queue!http_request_queue_push, Queue!platform_cond_signal, Queue!In
  <2>3. worker \in [Workers -> Queue!WorkerStates]
    BY DEF Queue!TypeOK
  <2> QED BY <2>1, <2>2, <2>3 DEF DestroyedLast
<1>6. CASE RefuseDone
  <2>1. /\ main = "refused" /\ main' = "looping" /\ incoming' = NoSocket
        /\ UNCHANGED <<running, db, shutting_down, worker, count, stage>>
    BY <1>6 DEF RefuseDone, queueVars, handlerVars
  <2> QED BY <2>1 DEF DestroyedLast
<1>7. CASE JoinAll
  <2>1. /\ main \in {"joining", "abandoning"} /\ main' = "returned" /\ db' = "destroyed"
        /\ \A w \in running : worker[w] = "exited"
        /\ UNCHANGED <<running, incoming, conn, shutting_down, worker, count, stage>>
    BY <1>7 DEF JoinAll, queueVars, handlerVars, clientVars
  <2> QED BY <1>7, <2>1, JoinDrained
<1>8. CASE Signal
  <2>1. db # "destroyed" /\ UNCHANGED <<running, incoming, conn, db, count>>
    BY <1>8 DEF Signal, Queue!http_request_queue_shutdown, queueVars, clientVars
  <2>2. CASE main = "selecting" /\ main' = "joining" /\ shutting_down' /\ stage' = stage
             /\ Queue!http_request_queue_shutdown
    BY <2>1, <2>2 DEF Queue!http_request_queue_shutdown, Queue!platform_cond_broadcast,
                      Queue!TypeOK, DestroyedLast
  <2>3. CASE /\ UNCHANGED <<main, shutting_down, worker>>
             /\ \/ stage' = stage
                \/ \E w \in Workers : /\ stage[w] = "reading"
                                      /\ stage' = [stage EXCEPT ![w] = "sending"]
    BY <2>1, <2>3 DEF DestroyedLast
  <2> QED BY <1>8, <2>2, <2>3 DEF Signal, Queue!http_request_queue_shutdown, Goto, queueVars,
                                  handlerVars
<1>9. ASSUME NEW w \in Workers, Pop(w) PROVE LifeInv'
  <2>1. /\ w \in running /\ worker[w] = "ready" /\ stage[w] = "none"
        /\ UNCHANGED <<main, running, incoming, db, conn, shutting_down>>
    BY <1>9 DEF Pop, Queue!http_request_queue_pop, Queue!PopWait, Queue!PopTake, Queue!PopExit,
                mainVars, clientVars
  <2>2. main # "returned"
    BY <2>1
  <2>3. \/ \E st \in {"waiting", "exited"} :
             /\ worker' = [worker EXCEPT ![w] = st] /\ stage' = stage /\ count' = count
             /\ st = "exited" => count = 0 /\ shutting_down
        \/ /\ worker' = [worker EXCEPT ![w] = "busy"]
           /\ stage' = [stage EXCEPT ![w] = "reading"] /\ count > 0
    BY <1>9 DEF Pop, Queue!http_request_queue_pop, Queue!PopWait, Queue!PopTake, Queue!PopExit,
                Queue!TypeOK, Goto
  <2>4. worker \in [Workers -> Queue!WorkerStates]
    BY DEF Queue!TypeOK
  <2> QED BY <2>1, <2>2, <2>3, <2>4 DEF DestroyedLast
<1>10. ASSUME NEW w \in Workers, Wakeup(w) PROVE LifeInv'
  BY <1>10 DEF Wakeup, Queue!SpuriousWakeup, Queue!TypeOK, Queue!WorkerStates, mainVars,
               handlerVars, clientVars, DestroyedLast
<1>11. ASSUME NEW w \in Workers,
              ReadAndRoute(w) \/ Executed(w) \/ SendResponse(w) \/ CountResponse(w)
       PROVE  LifeInv'
  <2>1. /\ stage[w] # "none"
        /\ UNCHANGED <<main, running, incoming, db, conn, shutting_down, worker, count>>
        /\ \E st \in Stages \ {"none"} : stage' = [stage EXCEPT ![w] = st]
    BY <1>11 DEF ReadAndRoute, Executed, SendResponse, CountResponse, Goto, queueVars, mainVars,
                 clientVars, Stages
  <2>2. db # "destroyed"
    BY <2>1 DEF DestroyedLast
  <2> QED BY <2>1, <2>2 DEF DestroyedLast
<1>12. ASSUME NEW w \in Workers, CloseClient(w) PROVE LifeInv'
  <2>1. /\ stage[w] # "none" /\ worker[w] = "busy"
        /\ UNCHANGED <<main, running, incoming, db, shutting_down, count>>
        /\ worker' = [worker EXCEPT ![w] = "ready"]
        /\ stage' = [stage EXCEPT ![w] = "none"]
        /\ conn' = [conn EXCEPT ![Client(w)] = "closed"]
    BY <1>12 DEF CloseClient, Queue!WorkerDone, Queue!queueVars, Goto, mainVars
  <2>2. db # "destroyed" /\ w \in running
    BY <2>1 DEF DestroyedLast
  <2>3. Client(w) \in Conns /\ conn[Client(w)] = "open"
    BY <2>1, HandlerHasClient DEF OwnInv
  <2>4. worker \in [Workers -> Queue!WorkerStates]
    BY DEF Queue!TypeOK
  <2> QED BY <2>1, <2>2, <2>3, <2>4 DEF DestroyedLast
<1>13. ASSUME NEW c \in Conns, Connect(c) \/ Say(c) PROVE LifeInv'
  BY <1>13 DEF Connect, Say, queueVars, mainVars, handlerVars, DestroyedLast
<1>14. CASE UNCHANGED vars
  BY <1>14 DEF vars, DestroyedLast
<1> QED BY <1>1, <1>2, <1>3, <1>4, <1>5, <1>6, <1>7, <1>8, <1>9, <1>10, <1>11, <1>12, <1>13,
           <1>14 DEF Next, MainStep, WorkerStep

-----------------------------------------------------------------------------
(* The owners of connections.                                              *)

LEMMA SameContents ==
  ASSUME UNCHANGED <<items, head, count>>
  PROVE  Queue!Contents' = Queue!Contents
BY DEF Queue!Contents, Queue!Read, Queue!Slot

(* Connecting gives nobody a connection, accepting gives it to the loop. *)
LEMMA AcceptOwn ==
  ASSUME TypeInv, LifeInv, OwnInv, NEW c \in Conns, Connect(c) \/ Accept(c)
  PROVE  OwnInv'
<1>1. UNCHANGED <<items, head, count, client_socket>>
  BY DEF Connect, Accept, queueVars
<1>2. Queue!Contents' = Queue!Contents /\ \A i \in 1 .. count : Queue!Contents[i] \in Conns
  BY <1>1, SameContents, QueuedConns DEF TypeInv, TypeOK
<1>3. \A w \in Workers : Client(w)' = Client(w) /\ Client(w) \in Conns \union {NoSocket}
  BY <1>1 DEF Client, TypeInv, TypeOK, Queue!TypeOK
<1>4. CASE Connect(c)
  <2>1. /\ conn[c] = "absent" /\ conn' = [conn EXCEPT ![c] = "backlog"]
        /\ incoming' = incoming /\ incoming \in Conns \union {NoSocket}
        /\ conn \in [Conns -> ConnStates]
    BY <1>4 DEF Connect, mainVars, TypeInv, TypeOK
  <2> QED BY <1>1, <1>2, <1>3, <2>1, ConnsAssumption DEF OwnInv
<1>5. CASE Accept(c)
  <2>1. /\ conn[c] = "backlog" /\ conn' = [conn EXCEPT ![c] = "open"]
        /\ incoming' = c /\ incoming = NoSocket /\ conn \in [Conns -> ConnStates]
    BY <1>5 DEF Accept, LifeInv, TypeInv, TypeOK
  <2> QED BY <1>1, <1>2, <1>3, <2>1, ConnsAssumption DEF OwnInv
<1> QED BY <1>4, <1>5

(* A push moves the connection from the loop to the end of the queue. *)
LEMMA PushOwn ==
  ASSUME TypeInv, LifeInv, OwnInv, Push
  PROVE  OwnInv'
<1> DEFINE C == Queue!Contents
<1>1. incoming \in Conns
  BY LoopHasIncoming DEF Push
<1>2. /\ count \in Nat /\ count' = count + 1 /\ C'[count + 1] = incoming
      /\ \A i \in 1 .. count : C'[i] = C[i] /\ C[i] \in Conns
  BY <1>1, QueuePush, QueuedConns DEF Push, TypeInv, TypeOK
<1>3. incoming' = NoSocket /\ conn' = conn /\ client_socket' = client_socket
  BY DEF Push, clientVars, Queue!http_request_queue_push
<1>4. \A w \in Workers : Client(w)' = Client(w)
  BY <1>3 DEF Client
<1>5. 1 .. count' = (1 .. count) \union {count + 1}
  BY <1>2
<1> HIDE DEF C
<1>6. \A i \in 1 .. count' :
        /\ conn[C'[i]] = "open" /\ C'[i] # NoSocket
        /\ \A j \in 1 .. count' : C'[i] = C'[j] => i = j
        /\ \A w \in Workers : C'[i] # Client(w)
  BY <1>1, <1>2, <1>5, ConnsAssumption DEF OwnInv, C
<1>7. \A c \in Conns : conn[c] = "open" =>
        (\E i \in 1 .. count' : C'[i] = c) \/ (\E w \in Workers : Client(w) = c)
  BY <1>1, <1>2, <1>5 DEF OwnInv, C
<1> QED BY <1>3, <1>4, <1>6, <1>7 DEF OwnInv, C

(* A pop moves the first queued connection to the worker. *)
LEMMA TakeOwn ==
  ASSUME TypeInv, LifeInv, OwnInv, NEW w \in Workers, Queue!PopTake(w), UNCHANGED <<incoming, conn>>
  PROVE  OwnInv'
<1> DEFINE C == Queue!Contents
<1>1. /\ count \in Nat \ {0} /\ count' = count - 1
      /\ client_socket' = [client_socket EXCEPT ![w] = C[1]]
      /\ \A i \in 1 .. count - 1 : C'[i] = C[i + 1]
      /\ \A i \in 1 .. count : C[i] \in Conns
  BY QueueTake, QueuedConns DEF TypeInv, TypeOK
<1>2. client_socket \in [Workers -> Conns \union {NoSocket}] /\ client_socket[w] = NoSocket
  BY DEF TypeInv, TypeOK, Queue!TypeOK, Queue!RingOK, Queue!PopTake
<1>3. /\ Client(w)' = C[1] /\ 1 \in 1 .. count
      /\ \A v \in Workers : v # w => Client(v)' = Client(v)
  BY <1>1, <1>2 DEF Client
<1>4. \A i \in 1 .. count' : i + 1 \in 1 .. count /\ i + 1 # 1 /\ C'[i] = C[i + 1]
  BY <1>1
<1>5. \A i \in 1 .. count : i = 1 \/ \E j \in 1 .. count' : i = j + 1
  <2> SUFFICES ASSUME NEW i \in 1 .. count, i # 1 PROVE \E j \in 1 .. count' : i = j + 1
    OBVIOUS
  <2>1. i - 1 \in 1 .. count' /\ i = (i - 1) + 1
    BY <1>1
  <2> QED BY <2>1
<1> HIDE DEF C
<1>6. \A i \in 1 .. count' :
        /\ conn[C'[i]] = "open" /\ C'[i] # incoming
        /\ \A j \in 1 .. count' : C'[i] = C'[j] => i = j
        /\ \A v \in Workers : C'[i] # Client(v)'
  <2> SUFFICES ASSUME NEW i \in 1 .. count'
               PROVE  /\ conn[C'[i]] = "open" /\ C'[i] # incoming
                      /\ \A j \in 1 .. count' : C'[i] = C'[j] => i = j
                      /\ \A v \in Workers : C'[i] # Client(v)'
    OBVIOUS
  <2>1. conn[C'[i]] = "open" /\ C'[i] # incoming
    BY <1>4 DEF OwnInv, C
  <2>2. \A j \in 1 .. count' : C'[i] = C'[j] => i = j
    BY <1>1, <1>4 DEF OwnInv, C
  <2>3. \A v \in Workers : C'[i] # Client(v)'
    BY <1>3, <1>4 DEF OwnInv, C
  <2> QED BY <2>1, <2>2, <2>3
<1>7. \A v \in Workers : Client(v)' # NoSocket =>
        /\ conn[Client(v)'] = "open" /\ Client(v)' # incoming
        /\ \A u \in Workers : Client(u)' = Client(v)' => u = v
  BY <1>1, <1>3, ConnsAssumption DEF OwnInv, C
<1>8. \A c \in Conns : conn[c] = "open" =>
        \/ incoming = c \/ (\E i \in 1 .. count' : C'[i] = c)
        \/ \E v \in Workers : Client(v)' = c
  <2> SUFFICES ASSUME NEW c \in Conns, conn[c] = "open", incoming # c
               PROVE  \/ \E i \in 1 .. count' : C'[i] = c
                      \/ \E v \in Workers : Client(v)' = c
    OBVIOUS
  <2>1. CASE \E i \in 1 .. count : C[i] = c
    BY <1>3, <1>4, <1>5, <2>1
  <2>2. CASE \E v \in Workers : Client(v) = c
    BY <1>2, <1>3, <2>2, ConnsAssumption DEF Client
  <2> QED BY <2>1, <2>2 DEF OwnInv, C
<1> QED BY <1>6, <1>7, <1>8 DEF OwnInv, C

(* Whoever closes a connection gives it up in the same step. *)
LEMMA RefuseDoneOwn ==
  ASSUME TypeInv, LifeInv, OwnInv, RefuseDone
  PROVE  OwnInv'
<1>1. /\ UNCHANGED <<items, head, count, client_socket>>
      /\ incoming \in Conns /\ incoming' = NoSocket
      /\ conn' = [conn EXCEPT ![incoming] = "closed"] /\ conn \in [Conns -> ConnStates]
  BY LoopHasIncoming DEF RefuseDone, queueVars, TypeInv, TypeOK
<1>2. Queue!Contents' = Queue!Contents /\ \A i \in 1 .. count : Queue!Contents[i] \in Conns
  BY <1>1, SameContents, QueuedConns DEF TypeInv, TypeOK
<1>3. \A w \in Workers : Client(w)' = Client(w) /\ Client(w) \in Conns \union {NoSocket}
  BY <1>1 DEF Client, TypeInv, TypeOK, Queue!TypeOK
<1> QED BY <1>1, <1>2, <1>3, ConnsAssumption DEF OwnInv

LEMMA CloseOwn ==
  ASSUME TypeInv, LifeInv, OwnInv, NEW w \in Workers, CloseClient(w)
  PROVE  OwnInv'
<1>1. /\ UNCHANGED <<items, head, count, incoming>>
      /\ client_socket' = [client_socket EXCEPT ![w] = NoSocket]
      /\ conn' = [conn EXCEPT ![Client(w)] = "closed"]
      /\ conn \in [Conns -> ConnStates] /\ incoming \in Conns \union {NoSocket}
      /\ client_socket \in [Workers -> Conns \union {NoSocket}]
  BY DEF CloseClient, Queue!WorkerDone, Queue!queueVars, mainVars, TypeInv, TypeOK, Queue!TypeOK
<1>2. Client(w) \in Conns /\ Client(w) # NoSocket
  BY HandlerHasClient DEF CloseClient
<1>3. Queue!Contents' = Queue!Contents /\ \A i \in 1 .. count : Queue!Contents[i] \in Conns
  BY <1>1, SameContents, QueuedConns DEF TypeInv, TypeOK
<1>4. /\ Client(w)' = NoSocket
      /\ \A v \in Workers : v # w => Client(v)' = Client(v) /\ Client(v) \in Conns \union {NoSocket}
  BY <1>1 DEF Client
<1>5. /\ incoming # NoSocket => conn'[incoming] = "open"
      /\ \A i \in 1 .. count : /\ conn'[Queue!Contents[i]] = "open"
                               /\ \A v \in Workers : Queue!Contents[i] # Client(v)'
  BY <1>1, <1>2, <1>3, <1>4, ConnsAssumption DEF OwnInv
<1>6. \A v \in Workers : Client(v)' # NoSocket =>
        /\ conn'[Client(v)'] = "open" /\ Client(v)' # incoming
        /\ \A u \in Workers : Client(u)' = Client(v)' => u = v
  BY <1>1, <1>2, <1>4 DEF OwnInv
<1>7. \A c \in Conns : conn'[c] = "open" =>
        \/ incoming = c \/ (\E i \in 1 .. count : Queue!Contents[i] = c)
        \/ \E v \in Workers : Client(v)' = c
  BY <1>1, <1>2, <1>4 DEF OwnInv
<1> QED BY <1>1, <1>3, <1>5, <1>6, <1>7 DEF OwnInv

(* No other step moves a connection. *)
LEMMA NextOwnInv ==
  ASSUME TypeInv, LifeInv, OwnInv, [Next]_vars
  PROVE  OwnInv'
<1>1. CASE UNCHANGED <<items, head, count, client_socket, incoming, conn>>
  <2>1. Queue!Contents' = Queue!Contents
    BY <1>1, SameContents
  <2>2. \A w \in Workers : Client(w)' = Client(w)
    BY <1>1 DEF Client
  <2> QED BY <1>1, <2>1, <2>2 DEF OwnInv
<1>2. ASSUME NEW w \in Workers, Pop(w) PROVE OwnInv'
  BY <1>1, <1>2, TakeOwn DEF Pop, Queue!http_request_queue_pop, Queue!PopWait, Queue!PopExit,
                             mainVars, clientVars
<1>3. ASSUME NEW w \in Workers,
             Wakeup(w) \/ ReadAndRoute(w) \/ Executed(w) \/ SendResponse(w) \/ CountResponse(w)
      PROVE  OwnInv'
  BY <1>1, <1>3 DEF Wakeup, Queue!SpuriousWakeup, ReadAndRoute, Executed, SendResponse,
                    CountResponse, queueVars, mainVars, clientVars
<1>4. CASE \/ (\E w \in Workers : Spawn(w)) \/ SpawnFails \/ Bind \/ BindFails
           \/ LoopContinues \/ LoopEnds \/ NothingAccepted \/ PushFails \/ Refuse \/ JoinAll
           \/ Signal
  BY <1>1, <1>4 DEF Spawn, SpawnFails, Bind, BindFails, LoopContinues, LoopEnds,
                    NothingAccepted, PushFails, Refuse, JoinAll, Signal,
                    Queue!http_request_queue_shutdown, queueVars, clientVars
<1>5. ASSUME NEW c \in Conns, Say(c) PROVE OwnInv'
  BY <1>1, <1>5 DEF Say, queueVars, mainVars
<1>6. CASE UNCHANGED vars
  BY <1>1, <1>6 DEF vars
<1> QED BY <1>2, <1>3, <1>4, <1>5, <1>6, AcceptOwn, PushOwn, RefuseDoneOwn, CloseOwn
        DEF Next, MainStep, WorkerStep

-----------------------------------------------------------------------------

ServerInv == TypeInv /\ LifeInv /\ OwnInv

(* The state before the first worker is created. *)
LEMMA InitServerInv == Init => ServerInv
<1> SUFFICES ASSUME Init PROVE ServerInv
  OBVIOUS
<1>1. Queue!TypeOK /\ Queue!RingOK
  BY Ring!InitInv, RingAssumptions, SameRing DEF Init
<1>2. TypeInv
  <2>1. replies \in [Conns -> Seq(Answers)] /\ response \in [Workers -> Answers \union {"none"}]
    BY DEF Init
  <2>2. \A w \in Workers : stage[w] # "sending"
    BY DEF Init
  <2>3. TypeOK
    <3>1. /\ stage \in [Workers -> Stages] /\ conn \in [Conns -> ConnStates]
          /\ DOMAIN replies = Conns
      BY DEF Init, Stages, ConnStates
    <3>2. {completed, total_requests, total_errors} \subseteq Nat
      BY DEF Init
    <3> QED BY <1>1, <3>1, <3>2 DEF Init, TypeOK, MainPoints
  <2> QED BY <1>1, <2>1, <2>2, <2>3 DEF Init, TypeInv
<1>3. LifeInv
  BY DEF Init, Queue!Init, LifeInv, DestroyedLast
<1>4. OwnInv
  BY DEF Init, Queue!Init, OwnInv, Client
<1> QED BY <1>2, <1>3, <1>4 DEF ServerInv

(* The invariant of the accept loop, the queue and the workers together. *)
THEOREM ServerInvariance == Spec => []ServerInv
<1>1. ServerInv /\ [Next]_vars => ServerInv'
  BY NextTypeInv, NextLifeInv, NextOwnInv DEF ServerInv
<1> QED BY <1>1, InitServerInv, PTL DEF Spec

(* The owners of a connection, counted. *)
LEMMA OwnersCounted ==
  ASSUME TypeInv, OwnInv, NEW c \in Conns
  PROVE  Cardinality(Owners(c)) = IF conn[c] = "open" THEN 1 ELSE 0
<1> DEFINE C == Queue!Contents
<1>1. /\ \A i \in 1 .. count : C[i] \in Conns
      /\ incoming \in Conns \union {NoSocket}
      /\ \A w \in Workers : Client(w) \in Conns \union {NoSocket}
  BY QueuedConns DEF TypeInv, TypeOK, Queue!TypeOK, Client
<1>2. \A o : o \in Owners(c) <=> \/ o = <<"main">> /\ incoming = c
                                 \/ \E i \in 1 .. count : C[i] = c /\ o = <<"queue", i>>
                                 \/ \E w \in Workers : Client(w) = c /\ o = <<"worker", w>>
  BY DEF Owners
<1> HIDE DEF C
<1>3. CASE conn[c] # "open"
  <2>1. Owners(c) = {}
    BY <1>1, <1>2, <1>3, ConnsAssumption DEF OwnInv, C
  <2> QED BY <1>3, <2>1, FS_EmptySet
<1>4. CASE conn[c] = "open"
  <2>1. \E o : Owners(c) = {o}
    <3>1. CASE incoming = c
      <4>1. Owners(c) = {<<"main">>}
        BY <1>1, <1>2, <3>1, ConnsAssumption DEF OwnInv, C
      <4> QED BY <4>1
    <3>2. ASSUME NEW i \in 1 .. count, C[i] = c PROVE \E o : Owners(c) = {o}
      <4>1. Owners(c) = {<<"queue", i>>}
        BY <1>2, <3>2 DEF OwnInv, C
      <4> QED BY <4>1
    <3>3. ASSUME NEW w \in Workers, Client(w) = c PROVE \E o : Owners(c) = {o}
      <4>1. Owners(c) = {<<"worker", w>>}
        BY <1>2, <3>3, ConnsAssumption DEF OwnInv, C
      <4> QED BY <4>1
    <3> QED BY <1>4, <3>1, <3>2, <3>3 DEF OwnInv, C
  <2> QED BY <1>4, <2>1, FS_Singleton
<1> QED BY <1>3, <1>4

(* An accepted connection has one owner until it is closed, whatever fails *)
(* and whenever the server stops: the accept loop, the queue or a worker.  *)
THEOREM ConnectionsOwned == Spec => []OneOwner
<1>1. ServerInv => OneOwner
  BY OwnersCounted DEF ServerInv, TypeInv, OneOwner
<1> QED BY <1>1, ServerInvariance, PTL

(* http_server_run destroys the DB server when nobody is inside it and     *)
(* nothing accepted is left unserved.                                      *)
THEOREM ShutdownDrains == Spec => []DestroyedLast
<1>1. ServerInv => DestroyedLast
  BY DEF ServerInv, LifeInv
<1> QED BY <1>1, ServerInvariance, PTL

-----------------------------------------------------------------------------
(* Responses.                                                              *)

(* What a pop does to the worker's handler. *)
LEMMA PopEffect ==
  ASSUME TypeInv, LifeInv, NEW w \in Workers, Pop(w)
  PROVE  /\ stage[w] = "none"
         /\ UNCHANGED <<conn, incoming, main, stop, response, completed, total_requests,
                        total_errors, said, replies>>
         /\ \/ UNCHANGED <<client_socket, stage, count>>
            \/ /\ stage' = [stage EXCEPT ![w] = "reading"]
               /\ client_socket' = [client_socket EXCEPT ![w] = items[head]]
               /\ count' = count - 1
<1>1. worker[w] = "ready" /\ worker \in [Workers -> Queue!WorkerStates]
  BY DEF Pop, Queue!http_request_queue_pop, Queue!PopWait, Queue!PopTake, Queue!PopExit,
         TypeInv, TypeOK, Queue!TypeOK
<1>2. stage[w] = "none"
  BY <1>1 DEF LifeInv
<1>3. CASE Queue!PopTake(w)
  <2>1. worker'[w] = "busy"
    BY <1>1, <1>3 DEF Queue!PopTake
  <2> QED BY <1>2, <1>3, <2>1 DEF Pop, Queue!PopTake, Goto, mainVars, countVars, clientVars
<1>4. CASE Queue!PopWait(w) \/ Queue!PopExit(w)
  <2>1. worker'[w] # "busy"
    BY <1>1, <1>4 DEF Queue!PopWait, Queue!PopExit
  <2> QED BY <1>2, <1>4, <2>1 DEF Pop, Queue!PopWait, Queue!PopExit, mainVars, countVars, clientVars
<1> QED BY <1>3, <1>4 DEF Pop, Queue!http_request_queue_pop

(* What a signal does to the accept loop, or to the handler it breaks off. *)
LEMMA SignalEffect ==
  ASSUME Signal
  PROVE  /\ stop' /\ UNCHANGED <<client_socket, count, conn, incoming, completed, total_requests,
                                 total_errors, said, replies>>
         /\ main' = main \/ (main = "selecting" /\ main' = "joining")
         /\ \/ UNCHANGED <<stage, response>>
            \/ \E w \in Workers :
                 /\ stage[w] = "reading"
                 /\ stage' = [stage EXCEPT ![w] = "sending"]
                 /\ response' = [response EXCEPT ![w] = "400 malformed_http"]
<1>1. stop' /\ UNCHANGED <<conn, incoming, completed, total_requests, total_errors, said, replies>>
  BY DEF Signal, countVars, clientVars
<1>2. CASE Queue!http_request_queue_shutdown /\ main = "selecting" /\ main' = "joining"
           /\ UNCHANGED handlerVars
  BY <1>1, <1>2 DEF Queue!http_request_queue_shutdown, handlerVars
<1>3. CASE /\ UNCHANGED <<queueVars, main>>
           /\ \E w \in Workers : /\ stage[w] = "reading"
                                 /\ response' = [response EXCEPT ![w] = "400 malformed_http"]
                                 /\ Goto(w, "sending")
  <2>1. UNCHANGED <<client_socket, count, main>>
    BY <1>3 DEF queueVars
  <2> QED BY <1>1, <1>3, <2>1 DEF Goto
<1>4. CASE UNCHANGED <<queueVars, main, handlerVars>>
  <2>1. UNCHANGED <<client_socket, count, main, stage, response>>
    BY <1>4 DEF queueVars, handlerVars
  <2> QED BY <1>1, <2>1
<1> QED BY <1>2, <1>3, <1>4 DEF Signal

(* A step that sends nothing and ends nobody's handling keeps ReplyInv. *)
LEMMA ReplyKept ==
  ASSUME ReplyInv, replies' = replies, \A c \in Conns : Answered(c)' <=> Answered(c)
  PROVE  ReplyInv'
BY DEF ReplyInv

(* The response goes to a connection that has none. *)
LEMMA ReplySent ==
  ASSUME TypeInv, ReplyInv, NEW c \in Conns, NEW r \in Answers, http_server_send_response(c, r),
         ~Answered(c), Answered(c)', \A d \in Conns \ {c} : Answered(d)' <=> Answered(d)
  PROVE  ReplyInv'
<1>1. replies \in [Conns -> Seq(Answers)] /\ replies[c] = <<>>
  BY DEF TypeInv, ReplyInv
<1>2. PICK one \in Seq(Answers) : one = Append(replies[c], r) /\ Len(one) = 1
  <2>1. Append(replies[c], r) \in Seq(Answers) /\ Len(Append(replies[c], r)) = Len(replies[c]) + 1
    BY <1>1
  <2>2. Len(replies[c]) = 0
    BY <1>1
  <2>3. Len(Append(replies[c], r)) = 1
    BY <2>1, <2>2
  <2> QED BY <2>1, <2>3, Zenon
<1>3. \/ replies' = [replies EXCEPT ![c] = one]
      \/ "memory" \in Faults /\ replies' = replies
  BY <1>2 DEF http_server_send_response
<1>4. ASSUME NEW d \in Conns
      PROVE  /\ replies'[d] # <<>> => Answered(d)'
             /\ Len(replies'[d]) <= 1
             /\ Answered(d)' /\ "memory" \notin Faults => Len(replies'[d]) = 1
  <2>1. CASE d = c
    <3>1. replies'[d] = one \/ ("memory" \in Faults /\ replies'[d] = <<>>)
      BY <1>1, <1>3, <2>1
    <3>2. Len(replies'[d]) = 1 \/ ("memory" \in Faults /\ Len(replies'[d]) = 0)
      <4>1. CASE replies'[d] = one
        BY <1>2, <4>1
      <4>2. CASE "memory" \in Faults /\ replies'[d] = <<>>
        BY <4>2
      <4> QED BY <3>1, <4>1, <4>2
    <3>3. Answered(d)'
      BY <2>1 DEF Answered
    <3>4. Len(replies'[d]) <= 1
      <4>1. \A n : n = 1 \/ n = 0 => n <= 1
        OBVIOUS
      <4> QED BY <3>2, <4>1, Zenon
    <3> QED BY <3>2, <3>3, <3>4, Zenon
  <2>2. CASE d # c
    <3>1. replies'[d] = replies[d]
      BY <1>1, <1>3, <2>2
    <3> QED BY <2>2, <3>1 DEF ReplyInv
  <2> QED BY <2>1, <2>2
<1> QED BY <1>4 DEF ReplyInv

(* Taking a connection, or changing the stage without passing from sending *)
(* to counting, answers nobody.                                            *)
LEMMA NextReplyInv ==
  ASSUME ServerInv, ReplyInv, [Next]_vars
  PROVE  ReplyInv'
<1> USE DEF ServerInv
<1>1. CASE UNCHANGED <<conn, incoming, main, client_socket, stage, replies>>
  BY <1>1, ReplyKept DEF Answered, Client
<1>2. CASE \/ (\E w \in Workers : Spawn(w)) \/ SpawnFails \/ Bind \/ BindFails
           \/ LoopContinues \/ LoopEnds \/ NothingAccepted \/ PushFails \/ JoinAll
  <2>1. /\ main # "refused" /\ main' # "refused"
        /\ UNCHANGED <<conn, incoming, client_socket, stage, replies>>
    BY <1>2 DEF Spawn, SpawnFails, Bind, BindFails, LoopContinues, LoopEnds, NothingAccepted,
                PushFails, JoinAll, Queue!http_request_queue_shutdown, queueVars, handlerVars,
                clientVars
  <2> QED BY <2>1, ReplyKept DEF Answered, Client
<1>3. ASSUME NEW c \in Conns, Accept(c) PROVE ReplyInv'
  <2>1. /\ main # "refused" /\ main' # "refused" /\ UNCHANGED <<client_socket, stage, replies>>
        /\ conn[c] # "closed" /\ conn' = [conn EXCEPT ![c] = "open"]
    BY <1>3 DEF Accept, queueVars, handlerVars
  <2>2. \A d \in Conns : conn'[d] = "closed" <=> conn[d] = "closed"
    BY <2>1 DEF TypeInv, TypeOK
  <2> QED BY <2>1, <2>2, ReplyKept DEF Answered, Client
<1>4. CASE Push
  <2>1. /\ main # "refused" /\ main' # "refused" /\ UNCHANGED <<client_socket, stage, replies, conn>>
    BY <1>4 DEF Push, Queue!http_request_queue_push, handlerVars, clientVars
  <2> QED BY <2>1, ReplyKept DEF Answered, Client
<1>5. CASE Refuse
  <2>1. /\ main = "refusing" /\ main' = "refused"
        /\ UNCHANGED <<client_socket, stage, conn, incoming>> /\ incoming \in Conns
    BY <1>5, LoopHasIncoming DEF Refuse, queueVars, handlerVars
  <2>2. ~Answered(incoming)
    BY <2>1, ConnsAssumption DEF Answered, OwnInv
  <2>3. \A d \in Conns : Answered(d)' <=> Answered(d) \/ d = incoming
    BY <2>1 DEF Answered, Client
  <2>4. http_server_send_response(incoming, "503 queue_full") /\ "503 queue_full" \in Answers
    BY <1>5 DEF Refuse, Answers
  <2> QED BY <2>1, <2>2, <2>3, <2>4, ReplySent
<1>6. CASE RefuseDone
  <2>1. /\ main = "refused" /\ main' # "refused" /\ UNCHANGED <<client_socket, stage, replies>>
        /\ incoming \in Conns /\ conn' = [conn EXCEPT ![incoming] = "closed"]
    BY <1>6, LoopHasIncoming DEF RefuseDone, queueVars, handlerVars
  <2>2. \A d \in Conns : conn'[d] = "closed" <=> conn[d] = "closed" \/ d = incoming
    BY <2>1 DEF TypeInv, TypeOK
  <2> QED BY <2>1, <2>2, ReplyKept DEF Answered, Client
<1>7. CASE Signal
  <2>1. /\ UNCHANGED <<client_socket, conn, incoming, replies>>
        /\ main' = main \/ (main # "refused" /\ main' # "refused")
        /\ \/ stage' = stage
           \/ \E w \in Workers : stage[w] = "reading" /\ stage' = [stage EXCEPT ![w] = "sending"]
    BY <1>7, SignalEffect
  <2>2. \A v \in Workers : stage'[v] \in {"counting", "closing"}
                             <=> stage[v] \in {"counting", "closing"}
    BY <2>1 DEF TypeInv, TypeOK
  <2> QED BY <2>1, <2>2, ReplyKept DEF Answered, Client
<1>8. ASSUME NEW w \in Workers, Pop(w) PROVE ReplyInv'
  <2>1. /\ UNCHANGED <<conn, incoming, main, replies>> /\ stage[w] = "none"
        /\ \/ UNCHANGED <<client_socket, stage>>
           \/ /\ stage' = [stage EXCEPT ![w] = "reading"]
              /\ client_socket' = [client_socket EXCEPT ![w] = items[head]]
    BY <1>8, PopEffect
  <2>2. /\ stage'[w] \notin {"counting", "closing"}
        /\ \A v \in Workers \ {w} : stage'[v] = stage[v] /\ client_socket'[v] = client_socket[v]
    BY <2>1 DEF TypeInv, TypeOK, Queue!TypeOK
  <2> QED BY <2>1, <2>2, ReplyKept DEF Answered, Client
<1>9. ASSUME NEW w \in Workers, ReadAndRoute(w) \/ Executed(w) \/ CountResponse(w)
      PROVE  ReplyInv'
  <2>1. /\ UNCHANGED <<conn, incoming, main, client_socket, replies>>
        /\ \/ /\ stage[w] \in {"reading", "executing"}
              /\ \E s \in {"executing", "sending"} : stage' = [stage EXCEPT ![w] = s]
           \/ stage[w] = "counting" /\ stage' = [stage EXCEPT ![w] = "closing"]
    BY <1>9 DEF ReadAndRoute, Executed, CountResponse, Goto, queueVars, mainVars, clientVars
  <2>2. \A v \in Workers : stage'[v] \in {"counting", "closing"}
                             <=> stage[v] \in {"counting", "closing"}
    BY <2>1 DEF TypeInv, TypeOK
  <2> QED BY <2>1, <2>2, ReplyKept DEF Answered, Client
<1>10. ASSUME NEW w \in Workers, SendResponse(w) PROVE ReplyInv'
  <2>1. /\ stage[w] = "sending" /\ stage' = [stage EXCEPT ![w] = "counting"]
        /\ UNCHANGED <<conn, incoming, main, client_socket>>
        /\ Client(w) \in Conns /\ Client(w) # NoSocket
    BY <1>10, HandlerHasClient DEF SendResponse, Goto, queueVars, mainVars
  <2>2. ~Answered(Client(w))
    BY <2>1 DEF Answered, OwnInv
  <2>3. stage'[w] = "counting" /\ \A v \in Workers \ {w} : stage'[v] = stage[v]
    BY <2>1 DEF TypeInv, TypeOK
  <2>4. \A d \in Conns : Answered(d)' <=> Answered(d) \/ d = Client(w)
    BY <2>1, <2>3 DEF Answered, Client
  <2>5. http_server_send_response(Client(w), response[w]) /\ response[w] \in Answers
    BY <1>10, <2>1 DEF SendResponse, TypeInv
  <2> QED BY <2>1, <2>2, <2>4, <2>5, ReplySent
<1>11. ASSUME NEW w \in Workers, CloseClient(w) PROVE ReplyInv'
  <2>1. /\ stage[w] = "closing" /\ stage' = [stage EXCEPT ![w] = "none"]
        /\ conn' = [conn EXCEPT ![Client(w)] = "closed"]
        /\ client_socket' = [client_socket EXCEPT ![w] = NoSocket]
        /\ UNCHANGED <<incoming, main, replies>> /\ Client(w) \in Conns
    BY <1>11, HandlerHasClient DEF CloseClient, Queue!WorkerDone, Goto, mainVars
  <2>2. \A d \in Conns : conn'[d] = "closed" <=> conn[d] = "closed" \/ d = Client(w)
    BY <2>1 DEF TypeInv, TypeOK
  <2>3. /\ stage'[w] = "none"
        /\ \A v \in Workers \ {w} : stage'[v] = stage[v] /\ client_socket'[v] = client_socket[v]
    BY <2>1 DEF TypeInv, TypeOK, Queue!TypeOK
  <2>4. \A d \in Conns : Answered(d)' <=> Answered(d)
    BY <2>1, <2>2, <2>3 DEF Answered, Client
  <2> QED BY <2>1, <2>4, ReplyKept
<1>12. ASSUME NEW c \in Conns, Connect(c) PROVE ReplyInv'
  <2>1. /\ UNCHANGED <<client_socket, stage, replies, main, incoming>>
        /\ conn[c] # "closed" /\ conn' = [conn EXCEPT ![c] = "backlog"]
    BY <1>12 DEF Connect, queueVars, handlerVars, mainVars
  <2>2. \A d \in Conns : conn'[d] = "closed" <=> conn[d] = "closed"
    BY <2>1 DEF TypeInv, TypeOK
  <2> QED BY <2>1, <2>2, ReplyKept DEF Answered, Client
<1>13. CASE (\E c \in Conns : Say(c)) \/ (\E w \in Workers : Wakeup(w)) \/ UNCHANGED vars
  BY <1>1, <1>13 DEF Say, Wakeup, Queue!SpuriousWakeup, vars, queueVars, handlerVars, mainVars,
                     clientVars
<1> QED BY <1>2, <1>3, <1>4, <1>5, <1>6, <1>7, <1>8, <1>9, <1>10, <1>11, <1>12, <1>13
        DEF Next, MainStep, WorkerStep

-----------------------------------------------------------------------------
(* What is answered.                                                       *)

Query == [method |-> "POST", path |-> "/query"]

(* A full queue, or a read broken off by a signal, says nothing about the  *)
(* request.                                                                *)
LEMMA MatchesAnything ==
  ASSUME NEW q
  PROVE  /\ Matches("503 queue_full", q)
         /\ "signal" \in Faults => Matches("400 malformed_http", q)
BY DEF Matches, StatementErrors

(* The response that Route chooses answers the request. *)
LEMMA RouteMatches ==
  ASSUME NEW q \in AllRequests \union {Eof}
  PROVE  IF Route(q) = "execute" THEN q = Query ELSE Matches(Route(q), q)
<1>1. CASE q \in {Malformed, Eof}
  BY <1>1 DEF Route, Matches, StatementErrors, Malformed, Eof
<1>2. CASE q \notin {Malformed, Eof}
  <2>1. q \in [method : Methods, path : Paths] /\ q # Malformed
    BY <1>2 DEF AllRequests
  <2>2. /\ q = [method |-> q.method, path |-> q.path]
        /\ q.method \in {"GET", "POST", "UNKNOWN"}
        /\ q.path \in {"/health", "/metrics", "/query", "/other"}
    BY <2>1 DEF Methods, Paths
  <2>3. q # Nothing
    BY <2>2 DEF Nothing
  <2>4. CASE q.method = "GET" /\ q.path \in {"/health", "/metrics"}
    <3>1. Route(q) = "200"
      BY <1>2, <2>4 DEF Route
    <3> QED BY <2>4, <3>1 DEF Matches, StatementErrors
  <2>5. CASE q.method = "POST" /\ q.path = "/query"
    <3>1. Route(q) = "execute" /\ q = Query
      BY <1>2, <2>2, <2>5 DEF Route, Query
    <3> QED BY <3>1
  <2>6. CASE \/ q.method = "UNKNOWN"
             \/ q.path = "/query" /\ q.method = "GET"
             \/ q.path \in {"/health", "/metrics"} /\ q.method = "POST"
    <3>1. Route(q) = "405"
      BY <1>2, <2>1, <2>6 DEF Route
    <3> QED BY <1>2, <2>3, <2>6, <3>1 DEF Matches, StatementErrors
  <2>7. CASE q.path = "/other" /\ q.method # "UNKNOWN"
    <3>1. Route(q) = "404"
      BY <1>2, <2>7 DEF Route
    <3> QED BY <2>2, <2>7, <3>1 DEF Matches, StatementErrors
  <2> QED BY <2>2, <2>4, <2>5, <2>6, <2>7
<1> QED BY <1>1, <1>2

(* Whatever becomes of a statement, the response is one for /query. *)
LEMMA ExecutionMatches ==
  /\ \A st \in ExecStatuses : Matches(api_build_execution_response(st), Query)
  /\ Matches("500 internal_error", Query)
<1>1. \A r \in {"200"} \union StatementErrors : Matches(r, Query)
  BY DEF Matches, StatementErrors, Query
<1>2. \A st \in ExecStatuses : api_build_execution_response(st) \in {"200"} \union StatementErrors
  BY DEF api_build_execution_response, ExecStatuses, Done, StatementErrors
<1> QED BY <1>1, <1>2 DEF StatementErrors

(* What is right for a silent client stays right when it speaks. *)
LEMMA MatchesLater ==
  ASSUME NEW r \in Answers, Matches(r, Nothing), NEW q
  PROVE  Matches(r, q)
<1>1. r \notin {"200", "404", "405"} \union StatementErrors
  BY DEF Matches, Nothing
<1>2. r = "400 malformed_http" => "signal" \in Faults
  BY DEF Matches, Nothing, Malformed, Eof
<1> QED BY <1>1, <1>2 DEF Matches

(* A step that neither sends, nor routes, nor speaks. *)
LEMMA MatchKept ==
  ASSUME MatchInv, UNCHANGED <<replies, said>>,
         \A w \in Workers : stage'[w] \in {"executing", "sending"} =>
           stage'[w] = stage[w] /\ response'[w] = response[w] /\ client_socket'[w] = client_socket[w]
  PROVE  MatchInv'
<1>1. ASSUME NEW w \in Workers
      PROVE  /\ stage'[w] = "executing" => said'[client_socket'[w]] = Query
             /\ stage'[w] = "sending" => Matches(response'[w], said'[client_socket'[w]])
  BY DEF MatchInv, Client, Query
<1>2. \A c \in Conns : \A i \in DOMAIN replies'[c] : Matches(replies'[c][i], said'[c])
  BY DEF MatchInv
<1> QED BY <1>1, <1>2 DEF MatchInv, Client, Query

(* A response that matches is sent. *)
LEMMA MatchSent ==
  ASSUME TypeInv, MatchInv, NEW c \in Conns, NEW r \in Answers, http_server_send_response(c, r),
         Matches(r, said[c]), said' = said
  PROVE  \A d \in Conns : \A i \in DOMAIN replies'[d] : Matches(replies'[d][i], said'[d])
<1>1. replies \in [Conns -> Seq(Answers)]
  BY DEF TypeInv
<1>2. CASE replies' = replies
  BY <1>2 DEF MatchInv
<1>3. CASE replies' = [replies EXCEPT ![c] = Append(@, r)]
  <2> SUFFICES ASSUME NEW d \in Conns, NEW i \in DOMAIN replies'[d]
               PROVE  Matches(replies'[d][i], said[d])
    OBVIOUS
  <2>1. CASE d # c
    <3>1. replies'[d] = replies[d]
      BY <1>1, <1>3, <2>1
    <3> QED BY <3>1 DEF MatchInv
  <2>2. CASE d = c
    <3>1. PICK s \in Seq(Answers) : s = replies[c]
      BY <1>1
    <3>2. replies'[d] = Append(s, r)
      BY <1>1, <1>3, <2>2, <3>1
    <3>3. i \in 1 .. Len(s) + 1
      BY <3>1, <3>2
    <3>4. CASE i = Len(s) + 1
      <4>1. replies'[d][i] = r
        BY <3>1, <3>2, <3>4
      <4> QED BY <2>2, <4>1
    <3>5. CASE i # Len(s) + 1
      <4>1. i \in DOMAIN replies[c] /\ replies'[d][i] = replies[c][i]
        BY <3>1, <3>2, <3>3, <3>5
      <4> QED BY <2>2, <4>1 DEF MatchInv
    <3> QED BY <3>4, <3>5
  <2> QED BY <2>1, <2>2
<1> QED BY <1>2, <1>3 DEF http_server_send_response

(* Every step keeps the responses matched. *)
LEMMA NextMatchInv ==
  ASSUME ServerInv, MatchInv, [Next]_vars
  PROVE  MatchInv'
<1> USE DEF ServerInv
<1> DEFINE Sent == \A c \in Conns : \A i \in DOMAIN replies'[c] : Matches(replies'[c][i], said'[c])
           Chosen(w) == /\ stage'[w] = "executing" => said'[client_socket'[w]] = Query
                        /\ stage'[w] = "sending" => Matches(response'[w], said'[client_socket'[w]])
<1>0. ASSUME Sent, \A w \in Workers : Chosen(w) PROVE MatchInv'
  BY <1>0 DEF MatchInv, Client, Query
<1>a. replies' = replies /\ said' = said => Sent
  BY DEF MatchInv
<1>b. ASSUME NEW w \in Workers, UNCHANGED said, stage'[w] = stage[w], response'[w] = response[w],
             client_socket'[w] = client_socket[w]
      PROVE  Chosen(w)
  BY <1>b DEF MatchInv, Client, Query
<1> HIDE DEF Sent, Chosen
<1>1. CASE UNCHANGED <<replies, said, stage, response, client_socket>>
  BY <1>1, MatchKept
<1>2. CASE \/ (\E w \in Workers : Spawn(w) \/ Wakeup(w)) \/ SpawnFails \/ Bind \/ BindFails
           \/ LoopContinues \/ LoopEnds \/ NothingAccepted \/ Push \/ PushFails \/ RefuseDone
           \/ JoinAll \/ (\E c \in Conns : Accept(c) \/ Connect(c)) \/ UNCHANGED vars
  BY <1>1, <1>2 DEF Spawn, SpawnFails, Bind, BindFails, LoopContinues, LoopEnds,
                    NothingAccepted, Push, PushFails, RefuseDone, JoinAll, Accept, Connect, Wakeup,
                    Queue!http_request_queue_shutdown, Queue!http_request_queue_push,
                    Queue!SpuriousWakeup, queueVars, handlerVars, clientVars, vars
<1>3. CASE Refuse
  <2>1. incoming \in Conns /\ UNCHANGED <<said, stage, response, client_socket>>
    BY <1>3, LoopHasIncoming DEF Refuse, queueVars, handlerVars
  <2>2. /\ http_server_send_response(incoming, "503 queue_full") /\ "503 queue_full" \in Answers
        /\ Matches("503 queue_full", said[incoming])
    BY <1>3, MatchesAnything DEF Refuse, Answers
  <2>3. Sent
    BY <2>1, <2>2, MatchSent DEF Sent
  <2> QED BY <1>0, <1>b, <2>1, <2>3
<1>4. CASE Signal
  <2>1. CASE UNCHANGED <<stage, response>>
    BY <1>1, <1>4, <2>1, SignalEffect
  <2>2. ASSUME NEW w \in Workers, stage[w] = "reading",
               stage' = [stage EXCEPT ![w] = "sending"],
               response' = [response EXCEPT ![w] = "400 malformed_http"]
        PROVE  MatchInv'
    <3>1. "signal" \in Faults /\ UNCHANGED <<said, replies, client_socket>>
      BY <1>4, SignalEffect DEF Signal
    <3>2. stage'[w] = "sending" /\ response'[w] = "400 malformed_http"
      BY <2>2 DEF TypeInv, TypeOK
    <3>3. Chosen(w)
      BY <3>1, <3>2, MatchesAnything DEF Chosen
    <3>4. \A v \in Workers \ {w} : stage'[v] = stage[v] /\ response'[v] = response[v]
      BY <2>2 DEF TypeInv, TypeOK
    <3> QED BY <1>0, <1>a, <1>b, <3>1, <3>3, <3>4
  <2> QED BY <1>4, <2>1, <2>2, SignalEffect
<1>5. ASSUME NEW w \in Workers, Pop(w) PROVE MatchInv'
  <2>1. UNCHANGED <<replies, said, response>>
    BY <1>5, PopEffect
  <2>2. \A v \in Workers : stage'[v] \in {"executing", "sending"} =>
          stage'[v] = stage[v] /\ client_socket'[v] = client_socket[v]
    BY <1>5, PopEffect DEF TypeInv, TypeOK, Queue!TypeOK
  <2> QED BY <2>1, <2>2, MatchKept
<1>6. ASSUME NEW w \in Workers, ReadAndRoute(w) PROVE MatchInv'
  <2>1. UNCHANGED <<replies, said, client_socket>>
    BY <1>6 DEF ReadAndRoute, queueVars, clientVars
  <2> DEFINE q == said[Client(w)]
  <2>2. q \in AllRequests \union {Eof}
    BY <1>6, HandlerHasClient DEF ReadAndRoute, TypeInv
  <2>3. CASE Route(q) = "execute"
    <3>1. stage' = [stage EXCEPT ![w] = "executing"] /\ response' = response
      BY <1>6, <2>3 DEF ReadAndRoute, Goto
    <3>2. stage'[w] = "executing" /\ \A v \in Workers \ {w} : stage'[v] = stage[v]
      BY <3>1 DEF TypeInv, TypeOK
    <3>3. Chosen(w)
      BY <2>1, <2>2, <2>3, <3>2, RouteMatches DEF Chosen, Client
    <3> QED BY <1>0, <1>a, <1>b, <2>1, <3>1, <3>2, <3>3
  <2>4. CASE Route(q) # "execute"
    <3>1. stage' = [stage EXCEPT ![w] = "sending"] /\ response' = [response EXCEPT ![w] = Route(q)]
      BY <1>6, <2>4 DEF ReadAndRoute, Goto
    <3>2. /\ stage'[w] = "sending" /\ response'[w] = Route(q)
          /\ \A v \in Workers \ {w} : stage'[v] = stage[v] /\ response'[v] = response[v]
      BY <3>1 DEF TypeInv, TypeOK
    <3>3. Chosen(w)
      BY <2>1, <2>2, <2>4, <3>2, RouteMatches DEF Chosen, Client
    <3> QED BY <1>0, <1>a, <1>b, <2>1, <3>2, <3>3
  <2> QED BY <2>3, <2>4
<1>7. ASSUME NEW w \in Workers, Executed(w) PROVE MatchInv'
  <2>1. /\ UNCHANGED <<replies, said, client_socket>> /\ stage[w] = "executing"
        /\ stage' = [stage EXCEPT ![w] = "sending"]
    BY <1>7 DEF Executed, Goto, queueVars, clientVars
  <2>2. PICK r : Matches(r, Query) /\ response' = [response EXCEPT ![w] = r]
    BY <1>7, ExecutionMatches DEF Executed
  <2>3. /\ stage'[w] = "sending" /\ response'[w] = r
        /\ \A v \in Workers \ {w} : stage'[v] = stage[v] /\ response'[v] = response[v]
    BY <2>1, <2>2 DEF TypeInv, TypeOK
  <2>4. Chosen(w)
    BY <2>1, <2>2, <2>3 DEF Chosen, MatchInv, Client, Query
  <2> QED BY <1>0, <1>a, <1>b, <2>1, <2>3, <2>4
<1>8. ASSUME NEW w \in Workers, SendResponse(w) PROVE MatchInv'
  <2>1. /\ UNCHANGED <<said, client_socket, response>> /\ stage[w] = "sending"
        /\ stage' = [stage EXCEPT ![w] = "counting"] /\ Client(w) \in Conns
    BY <1>8, HandlerHasClient DEF SendResponse, Goto, queueVars
  <2>2. /\ http_server_send_response(Client(w), response[w]) /\ response[w] \in Answers
        /\ Matches(response[w], said[Client(w)])
    BY <1>8, <2>1 DEF SendResponse, TypeInv, MatchInv
  <2>3. Sent
    BY <2>1, <2>2, MatchSent DEF Sent
  <2>4. stage'[w] = "counting" /\ \A v \in Workers \ {w} : stage'[v] = stage[v]
    BY <2>1 DEF TypeInv, TypeOK
  <2>5. Chosen(w)
    BY <2>4 DEF Chosen
  <2> QED BY <1>0, <1>b, <2>1, <2>3, <2>4, <2>5
<1>9. ASSUME NEW w \in Workers, CountResponse(w) \/ CloseClient(w) PROVE MatchInv'
  <2>1. /\ UNCHANGED <<replies, said>>
        /\ \E s \in {"closing", "none"} : stage' = [stage EXCEPT ![w] = s]
        /\ response' = response \/ response' = [response EXCEPT ![w] = "none"]
        /\ client_socket' = client_socket \/ client_socket' = [client_socket EXCEPT ![w] = NoSocket]
    BY <1>9 DEF CountResponse, CloseClient, Queue!WorkerDone, Goto, queueVars, clientVars
  <2>2. \A v \in Workers : stage'[v] \in {"executing", "sending"} =>
          stage'[v] = stage[v] /\ response'[v] = response[v] /\ client_socket'[v] = client_socket[v]
    BY <2>1 DEF TypeInv, TypeOK, Queue!TypeOK
  <2> QED BY <2>1, <2>2, MatchKept
<1>10. ASSUME NEW c \in Conns, Say(c) PROVE MatchInv'
  <2>1. UNCHANGED <<replies, client_socket, stage, response>> /\ said[c] = Nothing
    BY <1>10 DEF Say, queueVars, handlerVars
  <2>2. \A d \in Conns \ {c} : said'[d] = said[d]
    BY <1>10 DEF Say, TypeInv
  <2>3. \A d \in Conns, r \in Answers : Matches(r, said[d]) => Matches(r, said'[d])
    BY <2>1, <2>2, MatchesLater
  <2>4. Sent
    <3> SUFFICES ASSUME NEW d \in Conns, NEW i \in DOMAIN replies[d]
                 PROVE  Matches(replies[d][i], said'[d])
      BY <2>1 DEF Sent
    <3>1. replies[d][i] \in Answers
      BY DEF TypeInv
    <3> QED BY <2>3, <3>1 DEF MatchInv
  <2>5. \A w \in Workers : Chosen(w)
    <3> TAKE w \in Workers
    <3>1. CASE stage[w] \notin {"executing", "sending"}
      BY <2>1, <3>1 DEF Chosen
    <3>2. CASE stage[w] = "executing"
      <4>1. Client(w) \in Conns /\ said[Client(w)] = Query
        BY <3>2, HandlerHasClient DEF MatchInv, Query
      <4>2. Client(w) # c
        BY <2>1, <4>1 DEF Query, Nothing
      <4> QED BY <2>1, <2>2, <3>2, <4>1, <4>2 DEF Chosen, Client
    <3>3. CASE stage[w] = "sending"
      <4>1. Client(w) \in Conns /\ Matches(response[w], said[Client(w)]) /\ response[w] \in Answers
        BY <3>3, HandlerHasClient DEF MatchInv, TypeInv
      <4> QED BY <2>1, <2>3, <3>3, <4>1 DEF Chosen, Client
    <3> QED BY <3>1, <3>2, <3>3
  <2> QED BY <1>0, <2>4, <2>5
<1> QED BY <1>2, <1>3, <1>4, <1>5, <1>6, <1>7, <1>8, <1>9, <1>10
        DEF Next, MainStep, WorkerStep

-----------------------------------------------------------------------------
(* Counting.                                                               *)

(* Sets of connections and sets of workers are finite. *)
LEMMA CardOK ==
  ASSUME NEW S, S \subseteq Conns \/ S \subseteq Workers
  PROVE  IsFiniteSet(S) /\ Cardinality(S) \in Nat
BY ConnsAssumption, WorkersAssumption, FS_Subset, FS_CardinalityType

LEMMA CardAdd ==
  ASSUME NEW S, S \subseteq Conns \/ S \subseteq Workers, NEW x, x \notin S
  PROVE  Cardinality(S \union {x}) = Cardinality(S) + 1
BY CardOK, FS_AddElement

LEMMA CardRemove ==
  ASSUME NEW S, S \subseteq Conns \/ S \subseteq Workers, NEW x \in S
  PROVE  Cardinality(S \ {x}) = Cardinality(S) - 1 /\ Cardinality(S) > 0
<1>1. Cardinality(S \ {x}) = Cardinality(S) - 1
  BY CardOK, FS_RemoveElement
<1>2. Cardinality(S \ {x}) \in Nat /\ Cardinality(S) \in Nat
  BY CardOK
<1> QED BY <1>1, <1>2

ClosedConns == {c \in Conns : conn[c] = "closed"}
ClosingWorkers == {w \in Workers : stage[w] = "closing"}

LEMMA CountedForm ==
  CountedOnce <=> completed = Cardinality(ClosedConns) + Cardinality(ClosingWorkers)
BY DEF CountedOnce, ClosedConns, ClosingWorkers

LEMMA CountedKept ==
  ASSUME CountedOnce, completed' = completed, ClosedConns' = ClosedConns,
         ClosingWorkers' = ClosingWorkers
  PROVE  CountedOnce'
BY DEF CountedOnce, ClosedConns, ClosingWorkers

(* http_server_note_response_complete is called once on every path between *)
(* the accept of a connection and its close.                               *)
LEMMA NextCountedOnce ==
  ASSUME ServerInv, CountedOnce, [Next]_vars
  PROVE  CountedOnce'
<1> USE DEF ServerInv
<1>0. ClosedConns \subseteq Conns /\ ClosingWorkers \subseteq Workers
  BY DEF ClosedConns, ClosingWorkers
<1>1. CASE UNCHANGED <<completed, conn, stage>>
  BY <1>1, CountedKept DEF ClosedConns, ClosingWorkers
<1>2. CASE \/ (\E w \in Workers : Spawn(w) \/ Wakeup(w)) \/ SpawnFails \/ Bind \/ BindFails
           \/ LoopContinues \/ LoopEnds \/ NothingAccepted \/ Push \/ PushFails \/ Refuse
           \/ JoinAll \/ (\E c \in Conns : Say(c)) \/ UNCHANGED vars
  BY <1>1, <1>2 DEF Spawn, SpawnFails, Bind, BindFails, LoopContinues, LoopEnds,
                    NothingAccepted, Push, PushFails, Refuse, JoinAll, Say, Wakeup, handlerVars,
                    countVars, clientVars, vars
<1>3. ASSUME NEW c \in Conns, Accept(c) \/ Connect(c) PROVE CountedOnce'
  <2>1. /\ UNCHANGED <<completed, stage>> /\ conn[c] # "closed"
        /\ \E s \in {"open", "backlog"} : conn' = [conn EXCEPT ![c] = s]
    BY <1>3 DEF Accept, Connect, handlerVars, countVars
  <2> QED BY <2>1, CountedKept DEF ClosedConns, ClosingWorkers, TypeInv, TypeOK
<1>4. CASE RefuseDone
  <2>1. /\ incoming \in Conns /\ conn' = [conn EXCEPT ![incoming] = "closed"]
        /\ conn[incoming] = "open" /\ completed' = completed + 1 /\ stage' = stage
    BY <1>4, LoopHasIncoming, ConnsAssumption
       DEF RefuseDone, http_server_note_response_complete, handlerVars, OwnInv
  <2>2. /\ ClosedConns' = ClosedConns \union {incoming} /\ incoming \notin ClosedConns
        /\ ClosingWorkers' = ClosingWorkers
    BY <2>1 DEF ClosedConns, ClosingWorkers, TypeInv, TypeOK
  <2>3. /\ Cardinality(ClosedConns') = Cardinality(ClosedConns) + 1
        /\ Cardinality(ClosingWorkers') = Cardinality(ClosingWorkers)
        /\ Cardinality(ClosedConns) \in Nat /\ Cardinality(ClosingWorkers) \in Nat
    BY <1>0, <2>2, CardAdd, CardOK
  <2> QED BY <2>1, <2>3, CountedForm DEF CountedOnce, ClosedConns, ClosingWorkers
<1>5. CASE Signal
  <2>1. /\ UNCHANGED <<completed, conn>>
        /\ \/ stage' = stage
           \/ \E w \in Workers : stage[w] = "reading" /\ stage' = [stage EXCEPT ![w] = "sending"]
    BY <1>5, SignalEffect
  <2> QED BY <2>1, CountedKept DEF ClosedConns, ClosingWorkers, TypeInv, TypeOK
<1>6. ASSUME NEW w \in Workers, Pop(w) PROVE CountedOnce'
  <2>1. /\ UNCHANGED <<completed, conn>> /\ stage[w] = "none"
        /\ stage' = stage \/ stage' = [stage EXCEPT ![w] = "reading"]
    BY <1>6, PopEffect
  <2> QED BY <2>1, CountedKept DEF ClosedConns, ClosingWorkers, TypeInv, TypeOK
<1>7. ASSUME NEW w \in Workers, ReadAndRoute(w) \/ Executed(w) \/ SendResponse(w)
      PROVE  CountedOnce'
  <2>1. /\ UNCHANGED <<completed, conn>> /\ stage[w] # "closing"
        /\ \E s \in Stages \ {"closing"} : stage' = [stage EXCEPT ![w] = s]
    BY <1>7 DEF ReadAndRoute, Executed, SendResponse, Goto, countVars, clientVars, Stages
  <2> QED BY <2>1, CountedKept DEF ClosedConns, ClosingWorkers, TypeInv, TypeOK
<1>8. ASSUME NEW w \in Workers, CountResponse(w) PROVE CountedOnce'
  <2>1. /\ stage[w] = "counting" /\ stage' = [stage EXCEPT ![w] = "closing"]
        /\ completed' = completed + 1 /\ conn' = conn
    BY <1>8 DEF CountResponse, http_server_note_response_complete, Goto, clientVars
  <2>2. /\ ClosingWorkers' = ClosingWorkers \union {w} /\ w \notin ClosingWorkers
        /\ ClosedConns' = ClosedConns
    BY <2>1 DEF ClosedConns, ClosingWorkers, TypeInv, TypeOK
  <2>3. /\ Cardinality(ClosingWorkers') = Cardinality(ClosingWorkers) + 1
        /\ Cardinality(ClosedConns') = Cardinality(ClosedConns)
        /\ Cardinality(ClosedConns) \in Nat /\ Cardinality(ClosingWorkers) \in Nat
    BY <1>0, <2>2, CardAdd, CardOK
  <2> QED BY <2>1, <2>3, CountedForm DEF CountedOnce, ClosedConns, ClosingWorkers
<1>9. ASSUME NEW w \in Workers, CloseClient(w) PROVE CountedOnce'
  <2>1. /\ stage[w] = "closing" /\ stage' = [stage EXCEPT ![w] = "none"]
        /\ conn' = [conn EXCEPT ![Client(w)] = "closed"]
        /\ completed' = completed /\ Client(w) \in Conns /\ conn[Client(w)] = "open"
    BY <1>9, HandlerHasClient DEF CloseClient, Goto, countVars, OwnInv
  <2>2. /\ ClosingWorkers' = ClosingWorkers \ {w} /\ w \in ClosingWorkers
        /\ ClosedConns' = ClosedConns \union {Client(w)} /\ Client(w) \notin ClosedConns
    BY <2>1 DEF ClosedConns, ClosingWorkers, TypeInv, TypeOK
  <2>3. /\ Cardinality(ClosingWorkers') = Cardinality(ClosingWorkers) - 1
        /\ Cardinality(ClosedConns') = Cardinality(ClosedConns) + 1
        /\ Cardinality(ClosedConns) \in Nat /\ Cardinality(ClosingWorkers) \in Nat
    BY <1>0, <2>2, CardAdd, CardRemove, CardOK
  <2> QED BY <2>1, <2>3, CountedForm DEF CountedOnce, ClosedConns, ClosingWorkers
<1> QED BY <1>2, <1>3, <1>4, <1>5, <1>6, <1>7, <1>8, <1>9 DEF Next, MainStep, WorkerStep

(* The server counts every connection it is done with exactly once. *)
THEOREM ResponsesCounted == Spec => []CountedOnce
<1>1. Init => CountedOnce
  <2> SUFFICES ASSUME Init PROVE CountedOnce
    OBVIOUS
  <2>1. ClosedConns = {} /\ ClosingWorkers = {} /\ completed = 0
    BY DEF Init, ClosedConns, ClosingWorkers
  <2> QED BY <2>1, CountedForm, FS_EmptySet
<1>2. ServerInv /\ CountedOnce /\ [Next]_vars => CountedOnce'
  BY NextCountedOnce
<1> QED BY <1>1, <1>2, ServerInvariance, PTL DEF Spec

(* A client reads the answer to its own request. *)
THEOREM ClientsGetTheirAnswer == Spec => []AnswersMatch
<1>1. Init => MatchInv
  BY DEF Init, MatchInv
<1>2. ServerInv /\ MatchInv /\ [Next]_vars => MatchInv'
  BY NextMatchInv
<1>3. MatchInv => AnswersMatch
  BY DEF MatchInv, AnswersMatch, Matches, StatementErrors
<1> QED BY <1>1, <1>2, <1>3, ServerInvariance, PTL DEF Spec

-----------------------------------------------------------------------------
(* The response limit.                                                     *)

(* What stays to be counted is bounded by the workers, the queue and the   *)
(* accept loop's hands.                                                    *)
PendingOK ==
  /\ Cardinality(Uncounted) \in Nat /\ Cardinality(Workers) \in Nat
  /\ Cardinality(Uncounted) <= Cardinality(Workers)
  /\ (\E w \in Workers : w \notin Uncounted) => Cardinality(Uncounted) < Cardinality(Workers)
  /\ count \in Nat /\ count <= Capacity /\ Capacity \in Nat
  /\ InHand \in {0, 1} /\ completed \in Nat

LEMMA PendingBounds == TypeInv => PendingOK
<1> SUFFICES ASSUME TypeInv PROVE PendingOK
  OBVIOUS
<1>1. Uncounted \subseteq Workers
  BY DEF Uncounted
<1>2. /\ Cardinality(Uncounted) \in Nat /\ Cardinality(Workers) \in Nat
      /\ Cardinality(Uncounted) <= Cardinality(Workers)
  BY <1>1, CardOK, WorkersAssumption, FS_Subset
<1>3. ASSUME NEW w \in Workers, w \notin Uncounted
      PROVE  Cardinality(Uncounted) < Cardinality(Workers)
  BY <1>1, <1>3, CardOK, WorkersAssumption, FS_Subset, FS_CardinalityType
<1>4. count \in Nat /\ count <= Capacity /\ Capacity \in Nat
  BY CapacityAssumption DEF TypeInv, TypeOK, Queue!TypeOK
<1>5. InHand \in {0, 1} /\ completed \in Nat
  BY DEF InHand, TypeInv, TypeOK
<1> QED BY <1>2, <1>3, <1>4, <1>5 DEF PendingOK

LEMMA PendingBoundsNext == TypeInv' => PendingOK'
BY PendingBounds, PTL

(* What the server has counted and will still count. *)
Total == completed + Cardinality(Uncounted) + count + InHand

(* After a step that leaves the counter below the limit there is room for  *)
(* all that can be pending; and a step of a stopped server that adds       *)
(* nothing keeps the bound.                                                *)
LEMMA LimitBelow ==
  ASSUME TypeInv', completed' < MaxResponses
  PROVE  LimitInv'
<1>1. completed' + Cardinality(Uncounted') + count' + InHand'
        <= MaxResponses + Cardinality(Workers) + Capacity
  BY PendingBoundsNext, MaxResponsesAssumption DEF PendingOK
<1> QED BY <1>1 DEF LimitInv, Uncounted, InHand

LEMMA LimitKept ==
  ASSUME TypeInv, LimitInv, TypeInv', stop \in BOOLEAN, stop => stop', Total' <= Total,
         completed' = completed
  PROVE  LimitInv'
<1>1. CASE completed < MaxResponses
  BY <1>1, LimitBelow
<1>2. CASE ~(completed < MaxResponses) /\ MaxResponses > 0
  <2>1. stop /\ Total <= MaxResponses + Cardinality(Workers) + Capacity
    BY <1>2 DEF LimitInv, Total
  <2>2. Total' <= MaxResponses + Cardinality(Workers) + Capacity
    BY <2>1, PendingBounds, PendingBoundsNext, MaxResponsesAssumption DEF Total, PendingOK
  <2> QED BY <2>1, <2>2 DEF LimitInv, Total
<1>3. CASE ~(MaxResponses > 0)
  BY <1>3 DEF LimitInv
<1> QED BY <1>1, <1>2, <1>3

(* http_server_note_response_complete raises the flag when the limit is    *)
(* reached.                                                                *)
LEMMA LimitCounted ==
  ASSUME TypeInv, LimitInv, TypeInv', http_server_note_response_complete, Total' <= Total,
         completed' + Cardinality(Uncounted') + count' + InHand'
           <= completed' + Cardinality(Workers) + Capacity
  PROVE  LimitInv'
<1>1. /\ completed' = completed + 1 /\ completed \in Nat
      /\ stop' <=> (stop \/ (MaxResponses > 0 /\ completed' >= MaxResponses))
  BY DEF http_server_note_response_complete, TypeInv, TypeOK
<1>2. CASE completed' < MaxResponses
  BY <1>2, LimitBelow
<1>3. CASE completed' = MaxResponses
  <2>1. MaxResponses > 0 => stop'
    BY <1>1, <1>3, MaxResponsesAssumption
  <2>2. completed' + Cardinality(Uncounted') + count' + InHand'
          <= MaxResponses + Cardinality(Workers) + Capacity
    BY <1>3
  <2> QED BY <2>1, <2>2 DEF LimitInv, Uncounted, InHand
<1>4. CASE completed' > MaxResponses /\ MaxResponses > 0
  <2>1. stop /\ Total <= MaxResponses + Cardinality(Workers) + Capacity
    BY <1>1, <1>4, MaxResponsesAssumption DEF LimitInv, Total
  <2>2. Total' <= MaxResponses + Cardinality(Workers) + Capacity
    BY <2>1, PendingBounds, PendingBoundsNext, MaxResponsesAssumption DEF Total, PendingOK
  <2> QED BY <1>1, <2>1, <2>2 DEF LimitInv, Total
<1>5. CASE ~(MaxResponses > 0)
  BY <1>5 DEF LimitInv
<1> QED BY <1>1, <1>2, <1>3, <1>4, <1>5, MaxResponsesAssumption

(* After the flag is up, a connection only moves on towards its count, and *)
(* the accept loop takes at most the one it was selecting for.             *)
LEMMA NextLimitInv ==
  ASSUME ServerInv, LimitInv, [Next]_vars
  PROVE  LimitInv'
<1> USE DEF ServerInv
<1>0. TypeInv' /\ stop \in BOOLEAN /\ PendingOK /\ PendingOK'
  BY NextTypeInv, PendingBounds, PendingBoundsNext DEF TypeInv, TypeOK
<1>a. ASSUME completed' = completed, stop => stop', Uncounted' = Uncounted,
             count' = count, InHand' <= InHand
      PROVE  LimitInv'
  <2>1. Total' <= Total
    BY <1>0, <1>a DEF Total, PendingOK
  <2> QED BY <1>0, <1>a, <2>1, LimitKept
<1>1. CASE \/ (\E w \in Workers : Spawn(w)) \/ SpawnFails \/ Bind \/ BindFails
           \/ LoopEnds \/ NothingAccepted \/ (\E c \in Conns : Accept(c)) \/ PushFails \/ Refuse
           \/ JoinAll
  <2>1. completed' = completed /\ stop' \in {stop, TRUE} /\ count' = count /\ stage' = stage
    <3>1. CASE (\E w \in Workers : Spawn(w)) \/ SpawnFails \/ Bind \/ BindFails
      BY <3>1 DEF Spawn, SpawnFails, Bind, BindFails, Queue!http_request_queue_shutdown,
                         queueVars, handlerVars, countVars
    <3>2. CASE LoopEnds \/ NothingAccepted \/ (\E c \in Conns : Accept(c))
      BY <3>2 DEF LoopEnds, NothingAccepted, Accept, Queue!http_request_queue_shutdown,
                         queueVars, handlerVars, countVars
    <3>3. CASE PushFails \/ Refuse \/ JoinAll
      BY <3>3 DEF PushFails, Refuse, JoinAll, queueVars, handlerVars, countVars
    <3> QED BY <1>1, <3>1, <3>2, <3>3
  <2>2. \/ main' \in {"binding", "spawning", "looping", "joining", "abandoning", "returned"}
        \/ /\ main \in {"selecting", "pushing", "refusing"}
           /\ main' \in {"pushing", "refusing", "refused"}
    BY <1>1 DEF Spawn, SpawnFails, Bind, BindFails, LoopEnds, NothingAccepted, Accept, PushFails,
                Refuse, JoinAll
  <2>3. InHand' <= InHand /\ Uncounted' = Uncounted
    BY <2>1, <2>2 DEF InHand, Uncounted
  <2>4. stop => stop'
    BY <1>0, <2>1
  <2> QED BY <1>a, <2>1, <2>3, <2>4
<1>2. CASE LoopContinues
  <2>1. completed' = completed /\ ~stop
    BY <1>2 DEF LoopContinues, countVars
  <2>2. MaxResponses > 0 => completed' < MaxResponses
    BY <2>1 DEF LimitInv
  <2> QED BY <1>0, <2>2, LimitBelow DEF LimitInv
<1>3. CASE Push
  <2>1. /\ completed' = completed /\ stop' = stop /\ count' = count + 1 /\ stage' = stage
        /\ main = "pushing" /\ main' = "looping"
    BY <1>3 DEF Push, Queue!http_request_queue_push, handlerVars, countVars
  <2>2. InHand = 1 /\ InHand' = 0 /\ Uncounted' = Uncounted
    BY <2>1 DEF InHand, Uncounted
  <2>3. Total' <= Total
    BY <1>0, <2>1, <2>2 DEF Total, PendingOK
  <2> QED BY <1>0, <2>1, <2>3, LimitKept
<1>4. CASE RefuseDone
  <2>1. /\ http_server_note_response_complete /\ completed' = completed + 1
        /\ count' = count /\ stage' = stage /\ main = "refused" /\ main' = "looping"
    BY <1>4 DEF RefuseDone, http_server_note_response_complete, queueVars, handlerVars
  <2>2. InHand = 1 /\ InHand' = 0 /\ Uncounted' = Uncounted
    BY <2>1 DEF InHand, Uncounted
  <2>3. Total' <= Total
    BY <1>0, <2>1, <2>2 DEF Total, PendingOK
  <2>4. completed' + Cardinality(Uncounted') + count' + InHand'
          <= completed' + Cardinality(Workers) + Capacity
    BY <1>0, <2>2 DEF PendingOK
  <2> QED BY <1>0, <2>1, <2>3, <2>4, LimitCounted
<1>5. CASE Signal
  <2>1. /\ completed' = completed /\ stop' /\ count' = count
        /\ main' = main \/ (main = "selecting" /\ main' = "joining")
        /\ \/ stage' = stage
           \/ \E w \in Workers : stage[w] = "reading" /\ stage' = [stage EXCEPT ![w] = "sending"]
    BY <1>5, SignalEffect
  <2>2. InHand' <= InHand
    BY <2>1 DEF InHand
  <2>3. Uncounted' = Uncounted
    BY <2>1 DEF Uncounted, TypeInv, TypeOK
  <2> QED BY <1>a, <2>1, <2>2, <2>3
<1>6. ASSUME NEW w \in Workers, Pop(w) PROVE LimitInv'
  <2>1. UNCHANGED <<completed, stop, main>> /\ stage[w] = "none"
    BY <1>6, PopEffect
  <2>2. InHand' = InHand
    BY <2>1 DEF InHand
  <2>3. CASE UNCHANGED <<stage, count>>
    BY <1>0, <1>a, <2>1, <2>2, <2>3 DEF Uncounted, PendingOK
  <2>4. CASE stage' = [stage EXCEPT ![w] = "reading"] /\ count' = count - 1
    <3>1. Uncounted' = Uncounted \union {w} /\ w \notin Uncounted /\ Uncounted \subseteq Workers
      BY <2>1, <2>4 DEF Uncounted, TypeInv, TypeOK
    <3>2. Cardinality(Uncounted') = Cardinality(Uncounted) + 1
      BY <3>1, CardAdd
    <3>3. Total' <= Total
      BY <1>0, <2>1, <2>2, <2>4, <3>2 DEF Total, PendingOK
    <3> QED BY <1>0, <2>1, <3>3, LimitKept
  <2> QED BY <1>6, <2>3, <2>4, PopEffect
<1>7. ASSUME NEW w \in Workers, ReadAndRoute(w) \/ Executed(w) \/ SendResponse(w) \/ CloseClient(w)
      PROVE  LimitInv'
  <2>1. /\ UNCHANGED <<completed, stop, main, count>>
        /\ \/ /\ stage[w] \in {"reading", "executing", "sending"}
              /\ \E s \in {"executing", "sending", "counting"} : stage' = [stage EXCEPT ![w] = s]
           \/ stage[w] = "closing" /\ stage' = [stage EXCEPT ![w] = "none"]
    BY <1>7 DEF ReadAndRoute, Executed, SendResponse, CloseClient, Queue!WorkerDone,
                Queue!queueVars, Goto, queueVars, mainVars, countVars
  <2>2. InHand' = InHand
    BY <2>1 DEF InHand
  <2>3. Uncounted' = Uncounted
    BY <2>1 DEF Uncounted, TypeInv, TypeOK
  <2> QED BY <1>0, <1>a, <2>1, <2>2, <2>3 DEF PendingOK
<1>8. ASSUME NEW w \in Workers, CountResponse(w) PROVE LimitInv'
  <2>1. /\ http_server_note_response_complete /\ completed' = completed + 1
        /\ count' = count /\ main' = main
        /\ stage[w] = "counting" /\ stage' = [stage EXCEPT ![w] = "closing"]
    BY <1>8 DEF CountResponse, http_server_note_response_complete, Goto, queueVars, mainVars
  <2>2. Uncounted' = Uncounted \ {w} /\ w \in Uncounted /\ Uncounted \subseteq Workers
    BY <2>1 DEF Uncounted, TypeInv, TypeOK
  <2>3. Cardinality(Uncounted') = Cardinality(Uncounted) - 1
    BY <2>2, CardRemove
  <2>4. InHand' = InHand
    BY <2>1 DEF InHand
  <2>5. Total' <= Total
    BY <1>0, <2>1, <2>3, <2>4 DEF Total, PendingOK
  <2>6. Cardinality(Uncounted') < Cardinality(Workers)
    BY <1>0, <2>2 DEF PendingOK
  <2>7. completed' + Cardinality(Uncounted') + count' + InHand'
          <= completed' + Cardinality(Workers) + Capacity
    BY <1>0, <2>6 DEF PendingOK
  <2> QED BY <1>0, <2>1, <2>5, <2>7, LimitCounted
<1>9. CASE \/ (\E c \in Conns : Connect(c) \/ Say(c)) \/ (\E w \in Workers : Wakeup(w))
           \/ UNCHANGED vars
  <2>1. UNCHANGED <<completed, stop, main, count, stage>>
    BY <1>9 DEF Connect, Say, Wakeup, Queue!SpuriousWakeup, vars, queueVars, mainVars,
                handlerVars, countVars
  <2>2. InHand' = InHand /\ Uncounted' = Uncounted
    BY <2>1 DEF InHand, Uncounted
  <2> QED BY <1>0, <1>a, <2>1, <2>2 DEF PendingOK
<1> QED BY <1>1, <1>2, <1>3, <1>4, <1>5, <1>6, <1>7, <1>8, <1>9 DEF Next, MainStep, WorkerStep

(* --max-requests overshoots by at most the workers and the queue. *)
THEOREM LimitOvershoot == Spec => []BoundedOvershoot
<1>1. Init => LimitInv
  BY MaxResponsesAssumption DEF Init, LimitInv
<1>2. ServerInv /\ LimitInv /\ [Next]_vars => LimitInv'
  BY NextLimitInv
<1>3. ServerInv /\ LimitInv => BoundedOvershoot
  BY PendingBounds, MaxResponsesAssumption
     DEF ServerInv, LimitInv, BoundedOvershoot, PendingOK, TypeInv, TypeOK
<1> QED BY <1>1, <1>2, <1>3, ServerInvariance, PTL DEF Spec

-----------------------------------------------------------------------------
(* One response to a connection, and in the metrics.                       *)

(* The connections whose answer is in S, and the workers about to give one.*)
Given(S) == {c \in Conns : replies[c] # <<>> /\ replies[c][1] \in S}
Choosing(S) == {w \in Workers : stage[w] = "sending" /\ response[w] \in S}
Executing == {w \in Workers : stage[w] = "executing"}
Recordable(S) == Cardinality(Given(S)) + Cardinality(Choosing(S))
Refusing == IF main = "refusing" THEN 1 ELSE 0

(* The answers that count as errors, and the ones that count at all. *)
Errors == StatementErrors \union {"503 queue_full"}
Counted == Errors \union {"200"}

(* AnswersAreRecorded, in these words. *)
RecordedInv ==
  /\ total_requests = Recordable(Counted) + Refusing + Cardinality(Executing)
  /\ total_errors = Recordable(Errors) + Refusing

(* The inductive invariant behind AnsweredOnce. *)
AnswerInv == ReplyInv /\ ("memory" \notin Faults => RecordedInv)

LEMMA RecordedForm == RecordedInv => AnswersAreRecorded
<1> DEFINE E == {"400 syntax_error", "400 query_error", "500 internal_error", "503 lock_timeout",
                 "503 queue_full"}
<1>1. Errors = E /\ Counted = E \union {"200"}
  BY DEF Errors, Counted, StatementErrors
<1> HIDE DEF E
<1>2. RecordedInv =>
        /\ total_requests = Recordable(E \union {"200"}) + Refusing + Cardinality(Executing)
        /\ total_errors = Recordable(E) + Refusing
  BY <1>1 DEF RecordedInv
<1> USE DEF E
<1> QED BY <1>2, Zenon DEF AnswersAreRecorded, Recordable, Given, Choosing, Executing, Refusing

LEMMA RecordableNat ==
  ASSUME NEW S
  PROVE  /\ Given(S) \subseteq Conns /\ Choosing(S) \subseteq Workers
         /\ Cardinality(Given(S)) \in Nat /\ Cardinality(Choosing(S)) \in Nat
         /\ Executing \subseteq Workers /\ Cardinality(Executing) \in Nat
<1>1. /\ Given(S) \subseteq Conns /\ Choosing(S) \subseteq Workers /\ Executing \subseteq Workers
  BY DEF Given, Choosing, Executing
<1> QED BY <1>1, CardOK

(* A step that neither sends nor chooses a response. *)
LEMMA RecordableKept ==
  ASSUME NEW S, replies' = replies,
         \A w \in Workers : (stage'[w] = "sending" /\ response'[w] \in S)
                              <=> (stage[w] = "sending" /\ response[w] \in S)
  PROVE  Recordable(S)' = Recordable(S)
<1>1. Given(S)' = Given(S) /\ Choosing(S)' = Choosing(S)
  BY DEF Given, Choosing
<1> QED BY <1>1 DEF Recordable

(* A worker chooses response r. *)
LEMMA RecordableChosen ==
  ASSUME TypeInv, NEW S, NEW w \in Workers, NEW r, replies' = replies, stage[w] # "sending",
         stage' = [stage EXCEPT ![w] = "sending"], response' = [response EXCEPT ![w] = r]
  PROVE  Recordable(S)' = Recordable(S) + (IF r \in S THEN 1 ELSE 0)
<1>1. /\ stage'[w] = "sending" /\ response'[w] = r
      /\ \A v \in Workers \ {w} : stage'[v] = stage[v] /\ response'[v] = response[v]
  BY DEF TypeInv, TypeOK
<1>2. Given(S)' = Given(S) /\ w \notin Choosing(S)
  BY DEF Given, Choosing
<1>3. CASE r \in S
  <2>1. Choosing(S)' = Choosing(S) \union {w}
    BY <1>1, <1>3 DEF Choosing
  <2>2. Cardinality(Choosing(S)') = Cardinality(Choosing(S)) + 1
    BY <1>2, <2>1, CardAdd, RecordableNat
  <2> QED BY <1>2, <1>3, <2>2, RecordableNat DEF Recordable
<1>4. CASE r \notin S
  <2>1. Choosing(S)' = Choosing(S)
    BY <1>1, <1>4 DEF Choosing
  <2> QED BY <1>2, <1>4, <2>1, RecordableNat DEF Recordable
<1> QED BY <1>3, <1>4

(* A connection without a response gets r. *)
LEMMA GivenSent ==
  ASSUME TypeInv, NEW S, NEW c \in Conns, NEW r \in Answers, replies[c] = <<>>,
         replies' = [replies EXCEPT ![c] = Append(replies[c], r)]
  PROVE  Cardinality(Given(S)') = Cardinality(Given(S)) + (IF r \in S THEN 1 ELSE 0)
<1>1. replies \in [Conns -> Seq(Answers)]
  BY DEF TypeInv
<1>2. Append(replies[c], r) # <<>> /\ Append(replies[c], r)[1] = r
  OBVIOUS
<1>3. /\ replies'[c] # <<>> /\ replies'[c][1] = r
      /\ \A d \in Conns \ {c} : replies'[d] = replies[d]
  BY <1>1, <1>2
<1>4. c \notin Given(S)
  BY DEF Given
<1>5. CASE r \in S
  <2>1. Given(S)' = Given(S) \union {c}
    BY <1>3, <1>5 DEF Given
  <2> QED BY <1>4, <1>5, <2>1, CardAdd, RecordableNat
<1>6. CASE r \notin S
  <2>1. Given(S)' = Given(S)
    BY <1>3, <1>4, <1>6 DEF Given
  <2> QED BY <1>6, <2>1, RecordableNat
<1> QED BY <1>5, <1>6

(* A worker gives the response it has chosen. *)
LEMMA RecordableSent ==
  ASSUME TypeInv, NEW S, NEW w \in Workers, stage[w] = "sending", Client(w) \in Conns,
         replies[Client(w)] = <<>>, stage' = [stage EXCEPT ![w] = "counting"], response' = response,
         replies' = [replies EXCEPT ![Client(w)] = Append(replies[Client(w)], response[w])]
  PROVE  Recordable(S)' = Recordable(S)
<1>1. /\ stage'[w] = "counting" /\ response[w] \in Answers
      /\ \A v \in Workers \ {w} : stage'[v] = stage[v]
  BY DEF TypeInv, TypeOK
<1>2. Cardinality(Given(S)') = Cardinality(Given(S)) + (IF response[w] \in S THEN 1 ELSE 0)
  BY <1>1, GivenSent
<1>3. CASE response[w] \in S
  <2>1. Choosing(S)' = Choosing(S) \ {w} /\ w \in Choosing(S)
    BY <1>1, <1>3 DEF Choosing
  <2>2. Cardinality(Choosing(S)') = Cardinality(Choosing(S)) - 1
    BY <2>1, CardRemove, RecordableNat
  <2> QED BY <1>2, <1>3, <2>2, RecordableNat DEF Recordable
<1>4. CASE response[w] \notin S
  <2>1. Choosing(S)' = Choosing(S)
    BY <1>1, <1>4 DEF Choosing
  <2> QED BY <1>2, <1>4, <2>1, RecordableNat DEF Recordable
<1> QED BY <1>3, <1>4

(* A request is in the counters before its answer is chosen, and the       *)
(* answer leaves the books as they are when it is sent.                    *)
LEMMA RecordedKept ==
  ASSUME RecordedInv, UNCHANGED <<total_requests, total_errors, replies>>,
         Refusing' = Refusing, Executing' = Executing,
         \A S : \A w \in Workers : (stage'[w] = "sending" /\ response'[w] \in S)
                              <=> (stage[w] = "sending" /\ response[w] \in S)
  PROVE  RecordedInv'
<1>1. Recordable(Counted)' = Recordable(Counted) /\ Recordable(Errors)' = Recordable(Errors)
  BY RecordableKept
<1> QED BY <1>1 DEF RecordedInv, Refusing, Executing

LEMMA NextRecordedInv ==
  ASSUME ServerInv, ReplyInv, "memory" \notin Faults, RecordedInv, [Next]_vars
  PROVE  RecordedInv'
<1> USE DEF ServerInv
<1>0. /\ Recordable(Counted) \in Nat /\ Recordable(Errors) \in Nat /\ Refusing \in Nat
      /\ Cardinality(Executing) \in Nat
  BY RecordableNat DEF Recordable, Refusing
<1>a. \A c \in Conns : ~Answered(c) => replies[c] = <<>>
  BY DEF ReplyInv
<1>1. CASE \/ (\E w \in Workers : Spawn(w)) \/ SpawnFails \/ Bind \/ BindFails
           \/ LoopContinues \/ LoopEnds \/ NothingAccepted \/ (\E c \in Conns : Accept(c))
           \/ Push \/ RefuseDone \/ JoinAll
  <2>1. /\ UNCHANGED <<total_requests, total_errors, replies, stage, response>>
        /\ main # "refusing" /\ main' # "refusing"
    <3>1. CASE (\E w \in Workers : Spawn(w)) \/ SpawnFails \/ Bind \/ BindFails
      BY <3>1 DEF Spawn, SpawnFails, Bind, BindFails, handlerVars, countVars, clientVars
    <3>2. CASE LoopContinues \/ LoopEnds \/ NothingAccepted \/ (\E c \in Conns : Accept(c))
      BY <3>2 DEF LoopContinues, LoopEnds, NothingAccepted, Accept, handlerVars, countVars,
                  clientVars
    <3>3. CASE Push \/ RefuseDone \/ JoinAll
      BY <3>3 DEF Push, RefuseDone, JoinAll, http_server_note_response_complete, metricsVars,
                  handlerVars, countVars, clientVars
    <3> QED BY <1>1, <3>1, <3>2, <3>3
  <2> QED BY <2>1, RecordedKept DEF Refusing, Executing
<1>2. CASE PushFails
  <2>1. /\ UNCHANGED <<replies, stage, response>> /\ main = "pushing" /\ main' = "refusing"
        /\ total_requests' = total_requests + 1 /\ total_errors' = total_errors + 1
    BY <1>2 DEF PushFails, handlerVars, clientVars
  <2>2. /\ Recordable(Counted)' = Recordable(Counted) /\ Recordable(Errors)' = Recordable(Errors)
        /\ Executing' = Executing /\ Refusing = 0 /\ Refusing' = 1
    BY <2>1, RecordableKept DEF Executing, Refusing
  <2> QED BY <1>0, <2>1, <2>2 DEF RecordedInv
<1>3. CASE Refuse
  <2>1. /\ main = "refusing" /\ main' = "refused" /\ incoming \in Conns
        /\ UNCHANGED <<stage, response, total_requests, total_errors>>
        /\ replies' = [replies EXCEPT ![incoming] = Append(replies[incoming], "503 queue_full")]
    BY <1>3, LoopHasIncoming DEF Refuse, http_server_send_response, handlerVars, countVars
  <2>2. replies[incoming] = <<>>
    BY <1>a, <2>1, ConnsAssumption DEF Answered, OwnInv
  <2>3. /\ "503 queue_full" \in Answers /\ "503 queue_full" \in Errors
        /\ "503 queue_full" \in Counted
    BY DEF Answers, Errors, Counted
  <2>4. /\ Cardinality(Given(Counted)') = Cardinality(Given(Counted)) + 1
        /\ Cardinality(Given(Errors)') = Cardinality(Given(Errors)) + 1
    BY <2>1, <2>2, <2>3, GivenSent
  <2>5. /\ Choosing(Counted)' = Choosing(Counted) /\ Choosing(Errors)' = Choosing(Errors)
        /\ Executing' = Executing /\ Refusing = 1 /\ Refusing' = 0
    BY <2>1 DEF Choosing, Executing, Refusing
  <2>6. /\ Recordable(Counted)' = Recordable(Counted) + 1
        /\ Recordable(Errors)' = Recordable(Errors) + 1
    BY <2>4, <2>5, RecordableNat DEF Recordable
  <2>7. UNCHANGED <<total_requests, total_errors>>
    BY <2>1
  <2>8. Cardinality(Executing') = Cardinality(Executing) /\ Refusing = 1 /\ Refusing' = 0
    BY <2>5
  <2> QED BY <1>0, <2>6, <2>7, <2>8 DEF RecordedInv
<1>4. CASE Signal
  <2>1. UNCHANGED <<total_requests, total_errors, replies>> /\ Refusing' = Refusing
    BY <1>4, SignalEffect DEF Refusing
  <2>2. CASE UNCHANGED <<stage, response>>
    BY <2>1, <2>2, RecordedKept DEF Executing
  <2>3. ASSUME NEW w \in Workers, stage[w] = "reading", stage' = [stage EXCEPT ![w] = "sending"],
               response' = [response EXCEPT ![w] = "400 malformed_http"]
        PROVE  RecordedInv'
    <3>1. "400 malformed_http" \notin Counted /\ "400 malformed_http" \notin Errors
      BY DEF Counted, Errors, StatementErrors
    <3>2. /\ Recordable(Counted)' = Recordable(Counted) + 0
          /\ Recordable(Errors)' = Recordable(Errors) + 0
      BY <2>1, <2>3, <3>1, RecordableChosen
    <3>3. Executing' = Executing
      BY <2>3 DEF Executing, TypeInv, TypeOK
    <3> QED BY <1>0, <2>1, <3>2, <3>3 DEF RecordedInv
  <2> QED BY <1>4, <2>2, <2>3, SignalEffect
<1>5. ASSUME NEW w \in Workers, Pop(w) PROVE RecordedInv'
  <2>1. /\ UNCHANGED <<main, response, total_requests, total_errors, replies>> /\ stage[w] = "none"
        /\ stage' = stage \/ stage' = [stage EXCEPT ![w] = "reading"]
    BY <1>5, PopEffect
  <2>2. \A v \in Workers : /\ stage'[v] = "sending" <=> stage[v] = "sending"
                           /\ stage'[v] = "executing" <=> stage[v] = "executing"
    BY <2>1 DEF TypeInv, TypeOK
  <2> QED BY <2>1, <2>2, RecordedKept DEF Refusing, Executing
<1>6. ASSUME NEW w \in Workers, ReadAndRoute(w) PROVE RecordedInv'
  <2> DEFINE r == Route(said[Client(w)])
  <2>1. /\ stage[w] = "reading" /\ UNCHANGED <<main, replies, total_errors>>
        /\ total_requests' = total_requests + (IF r \in Recorded THEN 1 ELSE 0)
        /\ r = "execute" => stage' = [stage EXCEPT ![w] = "executing"] /\ response' = response
        /\ r # "execute" => /\ stage' = [stage EXCEPT ![w] = "sending"]
                            /\ response' = [response EXCEPT ![w] = r]
    BY <1>6 DEF ReadAndRoute, Goto, mainVars, clientVars
  <2>2. /\ r \in {"execute", "200", "400 malformed_http", "404", "405"}
        /\ Refusing' = Refusing
    BY <2>1 DEF Route, Refusing
  <2> HIDE DEF r
  <2>3. CASE r = "execute"
    <3>1. /\ stage'[w] = "executing" /\ response' = response
          /\ \A v \in Workers \ {w} : stage'[v] = stage[v]
      BY <2>1, <2>3 DEF TypeInv, TypeOK
    <3>2. /\ Recordable(Counted)' = Recordable(Counted)
          /\ Recordable(Errors)' = Recordable(Errors)
      BY <2>1, <3>1, RecordableKept
    <3>3. Executing' = Executing \union {w} /\ w \notin Executing
      BY <2>1, <3>1 DEF Executing
    <3>4. Cardinality(Executing') = Cardinality(Executing) + 1
      BY <3>3, CardAdd, RecordableNat
    <3>5. total_requests' = total_requests + 1
      BY <2>1, <2>3 DEF Recorded
    <3>6. total_errors' = total_errors /\ Refusing' = Refusing
      BY <2>1, <2>2
    <3> QED BY <1>0, <3>2, <3>4, <3>5, <3>6 DEF RecordedInv
  <2>4. CASE r # "execute"
    <3>1. /\ Recordable(Counted)' = Recordable(Counted) + (IF r \in Counted THEN 1 ELSE 0)
          /\ Recordable(Errors)' = Recordable(Errors) + (IF r \in Errors THEN 1 ELSE 0)
      BY <2>1, <2>4, RecordableChosen
    <3>2. r \notin Errors /\ (r \in Counted <=> r \in Recorded)
      BY <2>2, <2>4 DEF Counted, Errors, StatementErrors, Recorded
    <3>3. Executing' = Executing
      BY <2>1, <2>4 DEF Executing, TypeInv, TypeOK
    <3>4. /\ total_requests' = total_requests + (IF r \in Counted THEN 1 ELSE 0)
          /\ total_errors' = total_errors /\ Refusing' = Refusing
      BY <2>1, <2>2, <3>2
    <3>5. Recordable(Errors)' = Recordable(Errors)
      BY <1>0, <3>1, <3>2
    <3>6. Cardinality(Executing') = Cardinality(Executing)
      BY <3>3
    <3> QED BY <1>0, <3>1, <3>4, <3>5, <3>6 DEF RecordedInv
  <2> QED BY <2>3, <2>4
<1>7. ASSUME NEW w \in Workers, Executed(w) PROVE RecordedInv'
  <2>1. /\ stage[w] = "executing" /\ stage' = [stage EXCEPT ![w] = "sending"]
        /\ UNCHANGED <<main, replies, total_requests>>
    BY <1>7 DEF Executed, Goto, mainVars, clientVars
  <2>2. PICK st \in ExecStatuses :
          /\ total_errors' = total_errors + (IF st \in Done THEN 0 ELSE 1)
          /\ response' = [response EXCEPT ![w] = api_build_execution_response(st)]
    BY <1>7 DEF Executed
  <2> DEFINE r == api_build_execution_response(st)
  <2>3. r \in Counted /\ (r \in Errors <=> st \notin Done)
    BY <2>2 DEF api_build_execution_response, Counted, Errors, StatementErrors, ExecStatuses, Done
  <2> HIDE DEF r
  <2>4. /\ Recordable(Counted)' = Recordable(Counted) + 1
        /\ Recordable(Errors)' = Recordable(Errors) + (IF r \in Errors THEN 1 ELSE 0)
    <3>1. response' = [response EXCEPT ![w] = r]
      BY <2>2 DEF r
    <3> QED BY <2>1, <2>3, <3>1, RecordableChosen
  <2>5. Executing' = Executing \ {w} /\ w \in Executing
    BY <2>1 DEF Executing, TypeInv, TypeOK
  <2>6. Cardinality(Executing') = Cardinality(Executing) - 1
    BY <2>5, CardRemove, RecordableNat
  <2>7. Refusing' = Refusing
    BY <2>1 DEF Refusing
  <2>8. total_errors' = total_errors + (IF r \in Errors THEN 1 ELSE 0)
    BY <2>2, <2>3
  <2> QED BY <1>0, <2>1, <2>4, <2>6, <2>7, <2>8 DEF RecordedInv
<1>8. ASSUME NEW w \in Workers, SendResponse(w) PROVE RecordedInv'
  <2>1. /\ stage[w] = "sending" /\ stage' = [stage EXCEPT ![w] = "counting"]
        /\ UNCHANGED <<main, response, total_requests, total_errors>>
        /\ replies' = [replies EXCEPT ![Client(w)] = Append(replies[Client(w)], response[w])]
        /\ Client(w) \in Conns /\ Client(w) # NoSocket
    BY <1>8, HandlerHasClient DEF SendResponse, http_server_send_response, Goto, mainVars, countVars
  <2>2. ~Answered(Client(w))
    BY <2>1 DEF Answered, OwnInv
  <2>3. /\ Recordable(Counted)' = Recordable(Counted)
        /\ Recordable(Errors)' = Recordable(Errors)
    BY <1>a, <2>1, <2>2, RecordableSent
  <2>4. Executing' = Executing /\ Refusing' = Refusing
    BY <2>1 DEF Executing, Refusing, TypeInv, TypeOK
  <2> QED BY <2>1, <2>3, <2>4 DEF RecordedInv
<1>9. ASSUME NEW w \in Workers, CountResponse(w) \/ CloseClient(w) PROVE RecordedInv'
  <2>1. /\ UNCHANGED <<main, total_requests, total_errors, replies>>
        /\ stage[w] \in {"counting", "closing"}
        /\ \E s \in {"closing", "none"} : stage' = [stage EXCEPT ![w] = s]
        /\ response' = response \/ response' = [response EXCEPT ![w] = "none"]
    BY <1>9 DEF CountResponse, CloseClient, http_server_note_response_complete, metricsVars, Goto,
                mainVars, countVars, clientVars
  <2>2. /\ stage[w] \notin {"sending", "executing"} /\ stage'[w] \notin {"sending", "executing"}
        /\ \A v \in Workers \ {w} : stage'[v] = stage[v] /\ response'[v] = response[v]
    BY <2>1 DEF TypeInv, TypeOK
  <2> QED BY <2>1, <2>2, RecordedKept DEF Refusing, Executing
<1>10. CASE \/ (\E c \in Conns : Connect(c) \/ Say(c)) \/ (\E w \in Workers : Wakeup(w))
            \/ UNCHANGED vars
  <2>1. UNCHANGED <<main, total_requests, total_errors, replies, stage, response>>
    BY <1>10 DEF Connect, Say, Wakeup, vars, handlerVars, mainVars, countVars, clientVars
  <2> QED BY <2>1, RecordedKept DEF Refusing, Executing
<1> QED BY <1>1, <1>2, <1>3, <1>4, <1>5, <1>6, <1>7, <1>8, <1>9, <1>10
        DEF Next, MainStep, WorkerStep

(* Every connection gets one response, and the metrics know of every one:  *)
(* the accept loop and the workers never answer the same connection, and   *)
(* db_server_record_* and http_server_send_response stay in step.          *)
THEOREM OneAnswerEach == Spec => []AnsweredOnce
<1>1. Init => AnswerInv
  <2> SUFFICES ASSUME Init PROVE ReplyInv /\ RecordedInv
    BY DEF AnswerInv
  <2>1. ReplyInv
    BY ConnsAssumption DEF Init, ReplyInv, Answered, Client, Queue!Init
  <2>2. \A S : Given(S) = {} /\ Choosing(S) = {}
    BY DEF Init, Given, Choosing
  <2>3. Executing = {} /\ Refusing = 0 /\ total_requests = 0 /\ total_errors = 0
    BY DEF Init, Executing, Refusing
  <2>4. Cardinality({}) = 0
    BY FS_EmptySet
  <2>5. Recordable(Counted) = 0 /\ Recordable(Errors) = 0
    BY <2>2, <2>4 DEF Recordable
  <2> QED BY <2>1, <2>3, <2>4, <2>5 DEF RecordedInv
<1>2. ServerInv /\ AnswerInv /\ [Next]_vars => AnswerInv'
  BY NextReplyInv, NextRecordedInv DEF AnswerInv
<1>3. ServerInv /\ AnswerInv => AnsweredOnce
  <2> SUFFICES ASSUME ServerInv, AnswerInv PROVE AnsweredOnce
    OBVIOUS
  <2> USE DEF AnswerInv
  <2>1. ASSUME NEW c \in Conns, conn[c] \in {"absent", "backlog"} PROVE ~Answered(c)
    BY <2>1, ConnsAssumption DEF Answered, ServerInv, OwnInv
  <2>2. \A c \in Conns : conn[c] = "closed" => Answered(c)
    BY DEF Answered
  <2>3. \A c \in Conns : /\ Len(replies[c]) <= 1
                         /\ conn[c] \in {"absent", "backlog"} => replies[c] = <<>>
                         /\ conn[c] = "closed" /\ "memory" \notin Faults => Len(replies[c]) = 1
    BY <2>1, <2>2 DEF ReplyInv
  <2>4. "memory" \notin Faults => AnswersAreRecorded
    BY RecordedForm
  <2> QED BY <2>3, <2>4, Zenon DEF AnsweredOnce
<1> QED BY <1>1, <1>2, <1>3, ServerInvariance, PTL DEF Spec

=============================================================================
