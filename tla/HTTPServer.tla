----------------------------- MODULE HTTPServer -----------------------------
(***************************************************************************)
(* The HTTP server of src/server/http_server.c: http_server_run, which     *)
(* starts the workers, accepts connections, hands them to the request      *)
(* queue and shuts everything down, and the worker threads, which read one *)
(* request from a connection, answer it and close it.  The queue is the    *)
(* one of HTTPRequestQueue, action by action.                              *)
(*                                                                         *)
(* What db_server_execute does to the table and to the counters is the     *)
(* subject of DBServer; here a worker is inside it or not.  Clients are    *)
(* the environment: they connect, and then send a request, close their     *)
(* side, or do nothing for ever.  They stay to read the response.          *)
(***************************************************************************)
EXTENDS Naturals, Sequences, FiniteSets

CONSTANTS Conns,         \* client connections; each is used once
          Workers,       \* worker threads
          Capacity,      \* options.queue_capacity
          NoSocket,      \* HTTP_INVALID_SOCKET
          MaxResponses,  \* options.max_requests; 0 is no limit
          Requests,      \* the requests clients send, a subset of AllRequests
          Faults         \* the faults that may happen, see AllFaults

Methods == {"GET", "POST", "UNKNOWN"}
Paths == {"/health", "/metrics", "/query", "/other"}
Malformed == [method |-> "UNKNOWN", path |-> "none"]
Nothing == [method |-> "nothing", path |-> "none"]
Eof == [method |-> "eof", path |-> "none"]
AllRequests == [method : Methods, path : Paths] \union {Malformed}

AllFaults == {"spawn", "bind", "accept", "memory", "signal"}

ASSUME CapacityAssumption == Capacity \in Nat \ {0}
ASSUME ConnsAssumption == IsFiniteSet(Conns) /\ NoSocket \notin Conns
ASSUME WorkersAssumption == IsFiniteSet(Workers) /\ Workers # {}
ASSUME RequestsAssumption == Requests \subseteq AllRequests
ASSUME FaultsAssumption == Faults \subseteq AllFaults
ASSUME MaxResponsesAssumption == MaxResponses \in Nat

VARIABLES items, head, tail, count, shutting_down, worker, client_socket,
          main,       \* where http_server_run is, see MainPoints
          running,    \* the workers whose thread has been created
          stop,       \* http_server_stop_requested
          incoming,   \* the connection the accept loop holds
          stage,      \* where each worker is in http_server_handle_client
          response,   \* the response each worker has chosen
          completed,  \* context.completed_responses
          total_requests, total_errors,  \* of context.db_server.metrics
          db,         \* "live", or "destroyed" after db_server_destroy
          conn,       \* conn[c]: see ConnStates
          said,       \* said[c]: what the client has sent
          replies     \* replies[c]: the responses sent on c

queueVars == <<items, head, tail, count, shutting_down, worker, client_socket>>
clientVars == <<conn, said, replies>>
mainVars == <<main, running, incoming, db>>
handlerVars == <<stage, response>>
metricsVars == <<total_requests, total_errors>>
countVars == <<completed, total_requests, total_errors>>
vars == <<items, head, tail, count, shutting_down, worker, client_socket, main, running, stop,
          incoming, stage, response, completed, total_requests, total_errors, db, conn, said, replies>>

Queue == INSTANCE HTTPRequestQueue WITH Sockets <- Conns

(***************************************************************************)
(* "looping": at the head of the accept loop; "selecting": in select;      *)
(* "pushing": holds an accepted connection; "refusing" and "refused": the  *)
(* push failed and the 503 is not yet sent, or not yet counted; "joining": *)
(* after the loop; "abandoning": joining the workers after a failed start; *)
(* "returned": http_server_run returned.                                   *)
(***************************************************************************)
MainPoints == {"spawning", "binding", "looping", "selecting", "pushing", "refusing", "refused",
               "joining", "abandoning", "returned"}

(* "backlog": the kernel completed the connection, accept has not returned *)
(* it; "open": accepted; "closed": the server closed it.                   *)
ConnStates == {"absent", "backlog", "open", "closed"}

Stages == {"none", "reading", "executing", "sending", "counting", "closing"}

(* The connection worker w handles. *)
Client(w) == client_socket[w]

Goto(w, s) == stage' = [stage EXCEPT ![w] = s]

-----------------------------------------------------------------------------

Init ==
  /\ Queue!Init
  /\ main = "spawning"
  /\ running = {}
  /\ stop = FALSE
  /\ incoming = NoSocket
  /\ stage = [w \in Workers |-> "none"]
  /\ response = [w \in Workers |-> "none"]
  /\ completed = 0
  /\ total_requests = 0
  /\ total_errors = 0
  /\ db = "live"
  /\ conn = [c \in Conns |-> "absent"]
  /\ said = [c \in Conns |-> Nothing]
  /\ replies = [c \in Conns |-> <<>>]

(* Mutant of http_server_note_response_complete: > for >=. *)
http_server_note_response_complete_OffByOne ==
  /\ completed' = completed + 1
  /\ stop' = (stop \/ (MaxResponses > 0 /\ completed' > MaxResponses))
  /\ UNCHANGED metricsVars

(* http_server_note_response_complete: one more response, and the stop     *)
(* flag once there are max_requests of them.                               *)
http_server_note_response_complete ==
  /\ completed' = completed + 1
  /\ stop' = (stop \/ (MaxResponses > 0 /\ completed' >= MaxResponses))
  /\ UNCHANGED metricsVars

(* Sending a response.  Building it may run out of memory, and send may    *)
(* fail, as it does when a signal interrupts it while it is blocked on a   *)
(* full socket buffer; then the response is lost, and nobody asks.  Both   *)
(* are the fault "memory".                                                 *)
http_server_send_response(c, r) ==
  \/ replies' = [replies EXCEPT ![c] = Append(@, r)]
  \/ "memory" \in Faults /\ UNCHANGED replies

-----------------------------------------------------------------------------
(* http_server_run.                                                        *)

Spawn(w) ==
  /\ main = "spawning"
  /\ w \notin running
  /\ running' = running \union {w}
  /\ main' = IF running' = Workers THEN "binding" ELSE "spawning"
  /\ UNCHANGED <<queueVars, stop, incoming, handlerVars, countVars, db, clientVars>>

(* platform_thread_create fails: shutting_down is set without the mutex,   *)
(* and nobody is woken.                                                    *)
SpawnFails ==
  /\ main = "spawning"
  /\ "spawn" \in Faults
  /\ stop' = TRUE
  /\ shutting_down' = TRUE
  /\ main' = "abandoning"
  /\ UNCHANGED <<items, head, tail, count, worker, client_socket, running, incoming, handlerVars,
                 countVars, db, clientVars>>

Bind ==
  /\ main = "binding"
  /\ main' = "looping"
  /\ UNCHANGED <<queueVars, running, stop, incoming, handlerVars, countVars, db, clientVars>>

BindFails ==
  /\ main = "binding"
  /\ "bind" \in Faults
  /\ stop' = TRUE
  /\ Queue!http_request_queue_shutdown
  /\ main' = "abandoning"
  /\ UNCHANGED <<running, incoming, handlerVars, countVars, db, clientVars>>

(* The head of the accept loop. *)
LoopContinues ==
  /\ main = "looping"
  /\ ~stop
  /\ main' = "selecting"
  /\ UNCHANGED <<queueVars, running, stop, incoming, handlerVars, countVars, db, clientVars>>

(* Mutant of LoopEnds: the queue is not shut down. *)
LoopEnds_NoShutdown ==
  /\ main = "looping"
  /\ stop
  /\ main' = "joining"
  /\ UNCHANGED <<queueVars, running, stop, incoming, handlerVars, countVars, db, clientVars>>

LoopEnds ==
  /\ main = "looping"
  /\ stop
  /\ Queue!http_request_queue_shutdown
  /\ main' = "joining"
  /\ UNCHANGED <<running, stop, incoming, handlerVars, countVars, db, clientVars>>

(* select times out after 200 ms, or accept fails. *)
NothingAccepted ==
  /\ main = "selecting"
  /\ \/ \A c \in Conns : conn[c] # "backlog"
     \/ "accept" \in Faults
  /\ main' = "looping"
  /\ UNCHANGED <<queueVars, running, stop, incoming, handlerVars, countVars, db, clientVars>>

Accept(c) ==
  /\ main = "selecting"
  /\ conn[c] = "backlog"
  /\ conn' = [conn EXCEPT ![c] = "open"]
  /\ incoming' = c
  /\ main' = "pushing"
  /\ UNCHANGED <<queueVars, running, stop, handlerVars, countVars, db, said, replies>>

Push ==
  /\ main = "pushing"
  /\ Queue!http_request_queue_push(incoming)
  /\ incoming' = NoSocket
  /\ main' = "looping"
  /\ UNCHANGED <<running, stop, handlerVars, countVars, db, clientVars>>

(* The push fails; db_server_record_queue_full. *)
PushFails ==
  /\ main = "pushing"
  /\ ~Queue!HasRoom
  /\ total_requests' = total_requests + 1
  /\ total_errors' = total_errors + 1
  /\ main' = "refusing"
  /\ UNCHANGED <<queueVars, running, stop, incoming, handlerVars, completed, db, clientVars>>

(* The accept loop answers 503 itself ... *)
Refuse ==
  /\ main = "refusing"
  /\ http_server_send_response(incoming, "503 queue_full")
  /\ main' = "refused"
  /\ UNCHANGED <<queueVars, running, stop, incoming, handlerVars, countVars, db, conn, said>>

(* Mutants of RefuseDone: the connection is not closed, or not counted. *)
RefuseDone_Leaks ==
  /\ main = "refused"
  /\ http_server_note_response_complete
  /\ incoming' = NoSocket
  /\ main' = "looping"
  /\ UNCHANGED <<queueVars, running, handlerVars, db, clientVars>>

RefuseDone_Uncounted ==
  /\ main = "refused"
  /\ conn' = [conn EXCEPT ![incoming] = "closed"]
  /\ incoming' = NoSocket
  /\ main' = "looping"
  /\ UNCHANGED <<queueVars, running, stop, handlerVars, countVars, db, said, replies>>

(* ... counts the response and closes the connection. *)
RefuseDone ==
  /\ main = "refused"
  /\ http_server_note_response_complete
  /\ conn' = [conn EXCEPT ![incoming] = "closed"]
  /\ incoming' = NoSocket
  /\ main' = "looping"
  /\ UNCHANGED <<queueVars, running, handlerVars, db, said, replies>>

(* Mutant of JoinAll: the first worker's exit is taken for all. *)
JoinAll_First ==
  /\ main \in {"joining", "abandoning"}
  /\ \E w \in running : worker[w] = "exited"
  /\ db' = "destroyed"
  /\ main' = "returned"
  /\ UNCHANGED <<queueVars, running, stop, incoming, handlerVars, countVars, clientVars>>

(* All platform_thread_join calls have returned: the listening socket is   *)
(* closed, and the queue, the mutex and the DB server are destroyed.       *)
JoinAll ==
  /\ main \in {"joining", "abandoning"}
  /\ \A w \in running : worker[w] = "exited"
  /\ db' = "destroyed"
  /\ main' = "returned"
  /\ UNCHANGED <<queueVars, running, stop, incoming, handlerVars, countVars, clientVars>>

(* SIGINT or SIGTERM, once: the handler sets the flag.  signal() without   *)
(* SA_RESTART lets the interrupted system call fail with EINTR: select,    *)
(* which ends the accept loop at once, or the recv of one worker.  A send  *)
(* it interrupts is one of those that fail in http_server_send_response.   *)
Signal ==
  /\ "signal" \in Faults
  /\ ~stop
  /\ main # "returned"
  /\ stop' = TRUE
  /\ \/ /\ main = "selecting"
        /\ Queue!http_request_queue_shutdown
        /\ main' = "joining"
        /\ UNCHANGED handlerVars
     \/ /\ \E w \in Workers :
             /\ stage[w] = "reading"
             /\ response' = [response EXCEPT ![w] = "400 malformed_http"]
             /\ Goto(w, "sending")
        /\ UNCHANGED <<queueVars, main>>
     \/ UNCHANGED <<queueVars, main, handlerVars>>
  /\ UNCHANGED <<running, incoming, countVars, db, clientVars>>

-----------------------------------------------------------------------------
(* http_server_worker_main and http_server_handle_client.                  *)

(* Pop, as in the queue's own module; a worker that gets a connection      *)
(* goes on to read from it.                                                *)
Pop(w) ==
  /\ w \in running
  /\ Queue!http_request_queue_pop(w)
  /\ IF worker'[w] = "busy" THEN Goto(w, "reading") ELSE UNCHANGED stage
  /\ UNCHANGED <<mainVars, stop, response, countVars, clientVars>>

Wakeup(w) ==
  /\ Queue!SpuriousWakeup(w)
  /\ UNCHANGED <<mainVars, stop, handlerVars, countVars, clientVars>>

(* Mutant of Route: the method of /query is not looked at. *)
Route_AnyMethod(r) ==
  CASE r \in {Malformed, Eof} -> "400 malformed_http"
    [] r.path \in {"/health", "/metrics"} -> IF r.method = "GET" THEN "200" ELSE "405"
    [] r.path = "/query" -> "execute"
    [] r.method = "UNKNOWN" -> "405"
    [] OTHER -> "404"

(* The response to a request that does not execute a statement.  A client  *)
(* that closes its side before the request is complete gets a 400.         *)
Route(r) ==
  CASE r \in {Malformed, Eof} -> "400 malformed_http"
    [] r.method = "GET" /\ r.path \in {"/health", "/metrics"} -> "200"
    [] r.method = "POST" /\ r.path = "/query" -> "execute"
    [] \/ r.method = "UNKNOWN" /\ r # Malformed
       \/ r.path = "/query" /\ r.method = "GET"
       \/ r.path \in {"/health", "/metrics"} /\ r.method = "POST" -> "405"
    [] OTHER -> "404"

(* The answers before which a worker has told the DB server of the         *)
(* request: db_server_record_health_request and _metrics_request, and the  *)
(* beginning of db_server_execute.                                         *)
Recorded == {"200", "execute"}

(* http_server_read_request returns, because the request is complete or    *)
(* the client closed its side, and the request is routed and recorded.     *)
ReadAndRoute(w) ==
  /\ stage[w] = "reading"
  /\ said[Client(w)] # Nothing
  /\ LET r == Route(said[Client(w)])
     IN  /\ IF r = "execute"
              THEN Goto(w, "executing") /\ UNCHANGED response
              ELSE Goto(w, "sending") /\ response' = [response EXCEPT ![w] = r]
         /\ total_requests' = total_requests + (IF r \in Recorded THEN 1 ELSE 0)
  /\ UNCHANGED <<queueVars, mainVars, stop, completed, total_errors, clientVars>>

(* How db_server_execute may end, see DBServer. *)
Done == {"OK", "NOT_FOUND"}
ExecStatuses == Done \union {"LOCK_TIMEOUT", "SYNTAX_ERROR", "QUERY_ERROR", "EXIT", "ERROR"}

(* Mutant of api_build_execution_response: EXIT is answered with 200. *)
api_build_execution_response_ExitIsFine(status) ==
  CASE status = "LOCK_TIMEOUT" -> "503 lock_timeout"
    [] status = "SYNTAX_ERROR" -> "400 syntax_error"
    [] status = "QUERY_ERROR" -> "400 query_error"
    [] status = "ERROR" -> "500 internal_error"
    [] OTHER -> "200"

api_build_execution_response(status) ==
  CASE status = "LOCK_TIMEOUT" -> "503 lock_timeout"
    [] status = "SYNTAX_ERROR" -> "400 syntax_error"
    [] status \in {"QUERY_ERROR", "EXIT"} -> "400 query_error"
    [] status = "ERROR" -> "500 internal_error"
    [] OTHER -> "200"

(* db_server_execute counts the call out and returns, and its result       *)
(* becomes a response; without the memory for it, an internal error.       *)
Executed(w) ==
  /\ stage[w] = "executing"
  /\ \E status \in ExecStatuses :
       /\ total_errors' = total_errors + (IF status \in Done THEN 0 ELSE 1)
       /\ \E r \in {api_build_execution_response(status)}
                     \union (IF "memory" \in Faults THEN {"500 internal_error"} ELSE {}) :
            response' = [response EXCEPT ![w] = r]
  /\ Goto(w, "sending")
  /\ UNCHANGED <<queueVars, mainVars, stop, completed, total_requests, clientVars>>

SendResponse(w) ==
  /\ stage[w] = "sending"
  /\ http_server_send_response(Client(w), response[w])
  /\ Goto(w, "counting")
  /\ UNCHANGED <<queueVars, mainVars, stop, response, countVars, conn, said>>

CountResponse(w) ==
  /\ stage[w] = "counting"
  /\ http_server_note_response_complete
  /\ Goto(w, "closing")
  /\ UNCHANGED <<queueVars, mainVars, response, clientVars>>

(* http_server_socket_close, and back to http_request_queue_pop. *)
CloseClient(w) ==
  /\ stage[w] = "closing"
  /\ conn' = [conn EXCEPT ![Client(w)] = "closed"]
  /\ response' = [response EXCEPT ![w] = "none"]
  /\ Goto(w, "none")
  /\ Queue!WorkerDone(w)
  /\ UNCHANGED <<mainVars, stop, countVars, said, replies>>

-----------------------------------------------------------------------------
(* Clients.                                                                *)

Connect(c) ==
  /\ main \in {"looping", "selecting", "pushing", "refusing", "refused", "joining"}
  /\ conn[c] = "absent"
  /\ conn' = [conn EXCEPT ![c] = "backlog"]
  /\ UNCHANGED <<queueVars, mainVars, stop, handlerVars, countVars, said, replies>>

Say(c) ==
  /\ conn[c] \in {"backlog", "open"}
  /\ said[c] = Nothing
  /\ \E r \in Requests \union {Eof} : said' = [said EXCEPT ![c] = r]
  /\ UNCHANGED <<queueVars, mainVars, stop, handlerVars, countVars, conn, replies>>

-----------------------------------------------------------------------------

MainStep ==
  \/ (\E w \in Workers : Spawn(w)) \/ SpawnFails \/ Bind \/ BindFails
  \/ LoopContinues \/ LoopEnds \/ NothingAccepted \/ (\E c \in Conns : Accept(c))
  \/ Push \/ PushFails \/ Refuse \/ RefuseDone \/ JoinAll

WorkerStep(w) ==
  \/ Pop(w) \/ ReadAndRoute(w) \/ Executed(w) \/ SendResponse(w) \/ CountResponse(w)
  \/ CloseClient(w)

Next ==
  \/ MainStep \/ Signal
  \/ \E w \in Workers : WorkerStep(w) \/ Wakeup(w)
  \/ \E c \in Conns : Connect(c) \/ Say(c)

Spec == Init /\ [][Next]_vars

(* Threads run whenever they can.  In http_server_run the loop, the join   *)
(* and the refusal are owed; that a waiting connection is accepted is owed *)
(* too, as select reports it.                                              *)
ServerFairness == WF_vars(MainStep) /\ \A w \in Workers : WF_vars(WorkerStep(w))

(* Every connected client says something in the end. *)
ClientFairness == \A c \in Conns : WF_vars(Say(c))

FairSpec == Spec /\ ServerFairness
PatientSpec == FairSpec /\ ClientFairness

-----------------------------------------------------------------------------

(* The types of the server's variables. *)
TypeOK ==
  /\ Queue!TypeOK
  /\ main \in MainPoints
  /\ running \subseteq Workers
  /\ stop \in BOOLEAN
  /\ incoming \in Conns \union {NoSocket}
  /\ stage \in [Workers -> Stages]
  /\ {completed, total_requests, total_errors} \subseteq Nat
  /\ db \in {"live", "destroyed"}
  /\ conn \in [Conns -> ConnStates]
  /\ DOMAIN replies = Conns

(* Where an accepted connection is: with the accept loop, in the queue, or *)
(* with a worker.                                                          *)
Owners(c) ==
  {<<"main">> : x \in {y \in {incoming} : y = c}}
    \union {<<"queue", i>> : i \in {j \in 1 .. count : Queue!Contents[j] = c}}
    \union {<<"worker", w>> : w \in {v \in Workers : Client(v) = c}}

(* An accepted connection has exactly one owner until it is closed, and    *)
(* nobody keeps one that is closed: none leaks and none is closed twice,   *)
(* whatever fails and whenever the server stops.                           *)
OneOwner ==
  /\ TypeOK
  /\ \A c \in Conns : Cardinality(Owners(c)) = IF conn[c] = "open" THEN 1 ELSE 0

(* The client that reads a response reads the answer to its own request:   *)
(* the endpoint and the method decide, and only a connection that met a    *)
(* full queue, or whose read a signal broke off, is answered regardless.   *)
AnswersMatch ==
  \A c \in Conns :
    \A i \in DOMAIN replies[c] :
      LET q == said[c]
          r == replies[c][i]
          StatementErrors == {"400 syntax_error", "400 query_error", "500 internal_error",
                              "503 lock_timeout"}
          served == \/ q.method = "GET" /\ q.path \in {"/health", "/metrics"}
                    \/ q.method = "POST" /\ q.path = "/query"
      IN  /\ r \in {"200"} \union StatementErrors => served
          /\ r \in StatementErrors => q.path = "/query"
          /\ r = "405" => ~served /\ q \notin {Malformed, Eof, Nothing}
          /\ r = "404" => q.path = "/other" /\ q.method \in {"GET", "POST"}
          /\ r = "400 malformed_http" /\ "signal" \notin Faults => q \in {Malformed, Eof}

(* http_server_note_response_complete runs exactly once for a connection   *)
(* on every path of http_server_handle_client and of the accept loop, also *)
(* where no response could be built: the counter is the number of          *)
(* connections that are closed or only wait to be.                         *)
CountedOnce ==
  completed = Cardinality({c \in Conns : conn[c] = "closed"})
                + Cardinality({w \in Workers : stage[w] = "closing"})

(* An answer is in the counters of GET /metrics before its client can read *)
(* it: total_requests is the number of connections that the DB server or   *)
(* the full queue has answered or is about to, and total_errors the number *)
(* of the ones among them whose status is not 200.  What is answered with  *)
(* 400 malformed_http, 404 or 405 counts in neither.                       *)
AnswersAreRecorded ==
  LET Recordable(S) ==  \* the answers in S, given or chosen
        Cardinality({c \in Conns : replies[c] # <<>> /\ replies[c][1] \in S})
          + Cardinality({w \in Workers : stage[w] = "sending" /\ response[w] \in S})
      Refusing == IF main = "refusing" THEN 1 ELSE 0
      Errors == {"400 syntax_error", "400 query_error", "500 internal_error", "503 lock_timeout",
                 "503 queue_full"}
  IN  /\ total_requests = Recordable(Errors \union {"200"}) + Refusing
                            + Cardinality({w \in Workers : stage[w] = "executing"})
      /\ total_errors = Recordable(Errors) + Refusing

(* A connection gets at most one response, a closed one exactly one unless *)
(* there was no memory to build it or send failed, and a connection that   *)
(* was never accepted none; and, where neither can happen, every response  *)
(* is recorded in the metrics.                                             *)
AnsweredOnce ==
  /\ \A c \in Conns :
       /\ Len(replies[c]) <= 1
       /\ conn[c] \in {"absent", "backlog"} => replies[c] = <<>>
       /\ conn[c] = "closed" /\ "memory" \notin Faults => Len(replies[c]) = 1
  /\ "memory" \notin Faults => AnswersAreRecorded

(* When http_server_run destroys the DB server nobody is inside it, and    *)
(* every accepted connection has been served: shutdown drains the queue.   *)
DestroyedLast ==
  db = "destroyed" =>
    /\ \A w \in Workers : stage[w] = "none"
    /\ \A c \in Conns : conn[c] # "open"
    /\ count = 0

(* --max-requests stops the server late, but not arbitrarily late: after   *)
(* the last counted response at most the workers' other connections, the   *)
(* queue, and one connection in the accept loop's hands are still          *)
(* answered.                                                               *)
BoundedOvershoot ==
  MaxResponses > 0 => completed <= MaxResponses + Cardinality(Workers) + Capacity

(* Once stopping, the server comes to its end, provided clients do not     *)
(* stay silent for ever.                                                   *)
StopReturns == stop ~> main = "returned"

(* Every accepted connection is answered and closed, also when the server  *)
(* is stopped while the connection is still in the queue.                  *)
AcceptedAreClosed == \A c \in Conns : conn[c] = "open" ~> conn[c] = "closed"

(* README: with --max-requests the server exits after that many responses. *)
MaxRequestsExits ==
  (MaxResponses > 0 /\ completed >= MaxResponses) ~> main = "returned"

(* Design document: shutdown goes from the end of the queue over the join  *)
(* of the workers to the destruction of the table, so a failed start       *)
(* returns: http_server_run joins the workers it has created and destroys  *)
(* what it has initialised.                                                *)
FailedStartReturns == main = "abandoning" ~> main = "returned"

=============================================================================
