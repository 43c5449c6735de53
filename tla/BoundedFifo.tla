---------------------------- MODULE BoundedFifo ----------------------------
(***************************************************************************)
(* What HTTPRequestQueue (src/server/http_server.c) promises, with no ring *)
(* buffer, no mutex and no condition variable: a bounded first-in first-   *)
(* out line of client sockets, filled by the accept loop and emptied by    *)
(* the worker threads.  A worker may leave only when the line is closed    *)
(* and empty, so a socket that was let in is never left behind.            *)
(***************************************************************************)
EXTENDS Naturals, Sequences

CONSTANTS Sockets,   \* client socket descriptors
          Workers,   \* worker threads
          Capacity,  \* places in the line
          NoSocket   \* HTTP_INVALID_SOCKET

VARIABLES line,      \* the sockets that wait, oldest first
          open,      \* FALSE once the server shuts down
          served,    \* served[w]: the socket worker w is handling, or NoSocket
          gone       \* the workers that have left

vars == <<line, open, served, gone>>

Init ==
  /\ line = <<>>
  /\ open = TRUE
  /\ served = [w \in Workers |-> NoSocket]
  /\ gone = {}

Enter(s) ==
  /\ open
  /\ Len(line) < Capacity
  /\ line' = Append(line, s)
  /\ UNCHANGED <<open, served, gone>>

Call(w) ==
  /\ w \notin gone
  /\ served[w] = NoSocket
  /\ line # <<>>
  /\ line' = Tail(line)
  /\ served' = [served EXCEPT ![w] = Head(line)]
  /\ UNCHANGED <<open, gone>>

Finish(w) ==
  /\ served[w] # NoSocket
  /\ served' = [served EXCEPT ![w] = NoSocket]
  /\ UNCHANGED <<line, open, gone>>

Close ==
  /\ open' = FALSE
  /\ UNCHANGED <<line, served, gone>>

Leave(w) ==
  /\ ~open
  /\ line = <<>>
  /\ served[w] = NoSocket
  /\ gone' = gone \union {w}
  /\ UNCHANGED <<line, open, served>>

Next ==
  \/ \E s \in Sockets : Enter(s)
  \/ Close
  \/ \E w \in Workers : Call(w) \/ Finish(w) \/ Leave(w)

Spec == Init /\ [][Next]_vars

=============================================================================
