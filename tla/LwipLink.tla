------------------------------ MODULE LwipLink ------------------------------
(***************************************************************************)
(* The life of the network link (test_lwip_seq_api.c): the thread          *)
(* start_lwip_thread_seq opens a connection, starts a sender for it,       *)
(* receives until the connection fails, waits until the sender has freed   *)
(* its ring, terminates it and deletes the connection; then it starts      *)
(* again.  The two threads share connect_status, txbuf and the connection. *)
(* The sender's ring is TxRing: this module says when its steps happen.    *)
(*                                                                         *)
(* The interface is up all the time: nothing calls netif_set_down after    *)
(* Netif_Config.                                                           *)
(***************************************************************************)
EXTENDS TxRing

VARIABLES
  main,     \* start_lwip_thread_seq: "top" of its loop, "create" the sender,
            \* "waiting" for connect_status, "recv", "drain" (txbuf # NULL),
            \* "terminate", "close"; "undefined" after the termination of a
            \* thread that had ended
  status,   \* connect_status
  conn,     \* "none", "open", or "broken" by the peer or the network
  thread    \* the sender: "none", "new", "on", "over" (before its last call,
            \* osThreadTerminate(NULL)), "ended" (waiting to be freed by the
            \* idle task) or "freed"

link == <<main, status, conn, thread>>

\* The main thread, the connection and the sender keep their types.
LinkTypeOK ==
  /\ TypeOK
  /\ main \in {"top", "create", "waiting", "recv", "drain", "terminate",
               "close", "undefined"}
  /\ status \in {"WAITING", "SUCCESS", "FAILED"}
  /\ conn \in {"none", "open", "broken"}
  /\ thread \in {"none", "new", "on", "over", "ended", "freed"}

LinkInit ==
  /\ Init
  /\ main = "top" /\ status = "WAITING" /\ conn = "none" /\ thread = "none"

-----------------------------------------------------------------------------
(* start_lwip_thread_seq.                                                    *)

\* A mutant: connect_status is what the last connection left.
OpenStale ==
  /\ main = "top" /\ main' = "create" /\ conn' = "open"
  /\ UNCHANGED <<vars, thread, status>>

\* connect_to_server; when netconn_new fails it is tried again.
Open ==
  /\ main = "top" /\ main' = "create" /\ conn' = "open"
  /\ status' = "WAITING"
  /\ UNCHANGED <<vars, thread>>

\* init_send_thread, which fails without memory.
CreateSender ==
  /\ main = "create"
  /\ \/ main' = "waiting" /\ thread' = "new"
     \/ main' = "close" /\ UNCHANGED thread
  /\ UNCHANGED <<vars, status, conn>>

Waited ==
  /\ main = "waiting" /\ status # "WAITING" /\ main' = "recv"
  /\ UNCHANGED <<vars, status, conn, thread>>

\* start_tcp_recv ends; on a connection that was not made at once.
ReceiveEnds ==
  /\ main = "recv" /\ (status # "SUCCESS" \/ conn = "broken")
  /\ main' = "drain"
  /\ UNCHANGED <<vars, status, conn, thread>>

\* txbuf is NULL.
Drained ==
  /\ main = "drain" /\ pc = "none" /\ main' = "terminate"
  /\ UNCHANGED <<vars, status, conn, thread>>

\* osThreadTerminate(id).  A thread that has ended itself is waiting for the
\* idle task, or freed: the handle is no thread's, and what the kernel does to
\* its lists is open.
Terminate ==
  /\ main = "terminate"
  /\ \/ thread \in {"new", "on", "over"} /\ thread' = "none" /\ main' = "close"
     \/ thread \in {"ended", "freed"} /\ main' = "undefined" /\ UNCHANGED thread
  /\ UNCHANGED <<vars, status, conn>>

Close ==
  /\ main = "close" /\ main' = "top" /\ conn' = "none"
  /\ UNCHANGED <<vars, status, thread>>

-----------------------------------------------------------------------------
(* tcp_send_thread.                                                          *)

SenderStarts ==
  /\ thread = "new"
  /\ \/ Restart /\ thread' = "on" /\ UNCHANGED status
     \/ thread' = "over" /\ status' = "FAILED" /\ UNCHANGED vars
  /\ UNCHANGED <<main, conn>>

SenderConnects ==
  /\ thread = "on" /\ pc = "connect" /\ status = "WAITING"
  /\ \/ conn = "open" /\ Connected /\ status' = "SUCCESS"
     \/ status' = "FAILED" /\ UNCHANGED vars
  /\ UNCHANGED <<main, conn, thread>>

\* netconn_write needs the connection.
SenderSends ==
  /\ thread = "on" /\ pc # "connect" /\ (pc = "copy" => conn = "open")
  /\ Sender
  /\ UNCHANGED link

\* netconn_connect or netconn_write failed: the ring is freed.
SenderFrees ==
  /\ thread = "on"
  /\ \/ pc = "connect" /\ status = "FAILED"
     \/ pc = "copy" /\ conn = "broken"
  /\ Free /\ thread' = "over"
  /\ UNCHANGED <<main, status, conn>>

SenderEnds ==
  /\ thread = "over" /\ thread' = "ended"
  /\ UNCHANGED <<vars, main, status, conn>>

IdleFrees ==
  /\ thread = "ended" /\ thread' = "freed"
  /\ UNCHANGED <<vars, main, status, conn>>

-----------------------------------------------------------------------------
\* The connection is reset, or the peer closes it.
Breaks ==
  /\ conn = "open" /\ conn' = "broken"
  /\ UNCHANGED <<vars, main, status, thread>>

PrintChar == Fputc /\ UNCHANGED link

Main == Open \/ CreateSender \/ Waited \/ ReceiveEnds \/ Drained \/ Terminate \/ Close
SendThread ==
  SenderStarts \/ SenderConnects \/ SenderSends \/ SenderFrees \/ SenderEnds
LinkNext == Main \/ SendThread \/ IdleFrees \/ Breaks \/ PrintChar

LinkSpec == LinkInit /\ [][LinkNext]_<<vars, link>>

\* Both threads run, and a call of the stack ends, in time or with an error.
LinkFairSpec ==
  LinkSpec /\ WF_<<vars, link>>(Main) /\ WF_<<vars, link>>(SendThread)

-----------------------------------------------------------------------------
\* The main thread terminates the sender and deletes its connection only when
\* the sender has freed its ring and will not use either again: NULL in txbuf
\* is the sender's end, not the time before its pvPortMalloc
\* (test_lwip_seq_api.c:445-471).
SenderIsOver ==
  main \in {"terminate", "close", "top", "undefined"} =>
    thread \notin {"new", "on"} /\ pc = "none"
=============================================================================
