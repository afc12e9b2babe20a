------------------------------ MODULE HbRfEth ------------------------------
(***************************************************************************)
(* The network radio adapter (kernel/hb_rf_eth.c).  What the raw UART and  *)
(* the GPIO chip ask for is put into a ring of messages, which a send      *)
(* thread hands to a UDP socket; a receive thread takes the packets of the *)
(* board, gives the connection up after five seconds of silence and, with  *)
(* autoreconnect, makes a new one.  Writing the attribute "connect" stops  *)
(* both threads, closes the connection and opens another.                  *)
(*                                                                         *)
(* Packets are abstracted to their command; a packet with a wrong length   *)
(* or checksum is one the receiver ignores.  Addresses, message counters   *)
(* and endpoint identifiers are left out.  One process at a time writes    *)
(* "connect" or unloads the module, and starting the two threads takes     *)
(* less than the five seconds after which a connection counts as dead.     *)
(***************************************************************************)
EXTENDS Integers, Sequences, CircBuf

CONSTANTS
  NULL,         (* no socket, no message                                    *)
  QUEUE_LENGTH, (* slots of the ring, 32 in the source                      *)
  Sockets,      (* the sockets that exist or are still pointed to           *)
  Ops           (* what the raw UART calls, besides the LEDs                *)

(* The commands of the protocol that go through the ring.                  *)
Command == [gpio |-> 3, reset |-> 4, start |-> 5, stop |-> 6, data |-> 7]

(* What recv_packet() can return to the receive thread.                    *)
Packets == {"keepalive", "data", "unknown", "invalid", "timeout"}

ASSUME EthAssumption ==
  /\ NULL \notin Sockets
  /\ NULL \notin {3, 4, 5, 6, 7}
  /\ QUEUE_LENGTH \in Nat \ {0, 1}
  /\ Ops \subseteq DOMAIN Command \ {"gpio"}

VARIABLES
  pc,               (* where the threads "admin", "recv" and "send" are     *)
  should_stop,      (* kthread_should_stop() of "recv" and "send"           *)
  k_thread,         (* k_recv_thread and k_send_thread are not NULL         *)
  after,            (* what the admin does after hb_rf_eth_disconnect()     *)
  _sock,            (* the socket of the connection                         *)
  held,             (* the socket each thread has in a register             *)
  live,             (* the sockets created and not released                 *)
  connection_state, (* connection_state of the raw UART                     *)
  filling,          (* a process holds queue_write_lock, its slot filled    *)
  entries, head, tail, (* send_msg_queue                                    *)
  gpio_value,       (* the LEDs as the driver wants them                    *)
  gpio_read,        (* the value the send thread has put into its message   *)
  (* History variables, of the properties only.                             *)
  pending,          (* the commands accepted and not yet consumed           *)
  board_gpio,       (* the LEDs as a socket last accepted them              *)
  gpio_lost         (* a change was dropped or not sent since then          *)

thread_vars == <<pc, should_stop, k_thread, after>>
conn_vars == <<_sock, held, live, connection_state>>
queue_vars == <<filling, entries, head, tail, pending>>
gpio_vars == <<gpio_value, gpio_read, board_gpio, gpio_lost>>
vars == <<thread_vars, conn_vars, queue_vars, gpio_vars>>

Slots == 0..(QUEUE_LENGTH - 1)

Init ==
  /\ pc = [admin |-> "down", recv |-> "none", send |-> "none"]
  /\ should_stop = [recv |-> FALSE, send |-> FALSE]
  /\ k_thread = [recv |-> FALSE, send |-> FALSE]
  /\ after = "down"
  /\ _sock = NULL
  /\ held = [t \in {"admin", "recv", "send"} |-> NULL]
  /\ live = {}
  /\ connection_state = FALSE
  /\ filling = FALSE
  /\ entries = [i \in Slots |-> NULL]
  /\ head = 0 /\ tail = 0
  /\ gpio_value = 0 /\ gpio_read = 0
  /\ pending = <<>>
  /\ board_gpio = 0
  /\ gpio_lost = FALSE

Goto(t, s) == pc' = [pc EXCEPT ![t] = s]
Hold(t, s) == held' = [held EXCEPT ![t] = s]

-----------------------------------------------------------------------------
(* The ring.  hb_rf_eth_queue_msg() runs under queue_write_lock: it fills  *)
(* the slot at head, then publishes it.  The send thread takes no lock.    *)

(* The messages whose gpio_value the send thread has not read yet.         *)
Unread == IF pc["send"] \in {"sending", "sent"} THEN Tail(pending) ELSE pending
GpioQueued == \E i \in DOMAIN Unread : Unread[i] = Command["gpio"]

(* Mutants: the ring is filled to the last slot; a change of the LEDs is   *)
(* not queued if one is in the ring already.                               *)
QueueMsgFull(op) ==
  /\ ~filling
  /\ entries' = [entries EXCEPT ![head] = Command[op]]
  /\ filling' = TRUE
  /\ UNCHANGED <<head, tail, pending, gpio_lost>>

QueueMsgCoalesce(op) ==
  /\ ~filling
  /\ CIRC_SPACE(head, tail, QUEUE_LENGTH) >= 1
  /\ IF op = "gpio" /\ \E i \in DOMAIN pending : pending[i] = Command[op]
       THEN UNCHANGED <<entries, filling>>
       ELSE /\ entries' = [entries EXCEPT ![head] = Command[op]]
            /\ filling' = TRUE
  /\ UNCHANGED <<head, tail, pending, gpio_lost>>

(* hb_rf_eth_queue_msg() up to smp_store_release(): a full ring drops the  *)
(* message ("No free send buffers").                                       *)
QueueMsg(op) ==
  /\ ~filling
  /\ IF CIRC_SPACE(head, tail, QUEUE_LENGTH) >= 1
       THEN /\ entries' = [entries EXCEPT ![head] = Command[op]]
            /\ filling' = TRUE
            /\ UNCHANGED gpio_lost
       ELSE /\ gpio_lost' = (gpio_lost \/ (op = "gpio" /\ ~GpioQueued))
            /\ UNCHANGED <<entries, filling>>
  /\ UNCHANGED <<head, tail, pending>>

(* The new head is stored and the lock released.                           *)
QueuePublish ==
  /\ filling
  /\ head' = (head + 1) % QUEUE_LENGTH
  /\ pending' = Append(pending, entries[head])
  /\ filling' = FALSE
  /\ UNCHANGED <<thread_vars, conn_vars, gpio_vars, entries, tail>>

(* The driver's functions each queue one command: start_connection,        *)
(* stop_connection, reset_radio_module and tx_chars ...                    *)
DriverCall(op) ==
  /\ after # "unloaded"
  /\ QueueMsg(op)
  /\ UNCHANGED <<thread_vars, conn_vars, gpio_value, gpio_read, board_gpio>>

(* ... and gpio_set and gpio_set_multiple, which change gpio_value first   *)
(* and hold gpio_lock over both.                                           *)
GpioSet(value) ==
  /\ after # "unloaded"
  /\ gpio_value' = value
  /\ QueueMsg("gpio")
  /\ UNCHANGED <<thread_vars, conn_vars, gpio_read, board_gpio>>

-----------------------------------------------------------------------------
(* hb_rf_eth_send_threadproc().                                            *)

(* The loop: stop, or wait 100 ms in vain, or take the oldest message.  A  *)
(* message for the LEDs gets the current gpio_value; _sock is read.        *)
SendLoop ==
  /\ pc["send"] = "loop"
  /\ IF should_stop["send"]
       THEN Goto("send", "none") /\ UNCHANGED <<held, gpio_read>>
       ELSE IF CIRC_CNT(head, tail, QUEUE_LENGTH) = 0
       THEN Goto("send", "keepalive") /\ UNCHANGED <<held, gpio_read>>
       ELSE /\ gpio_read' = IF entries[tail] = Command["gpio"] THEN gpio_value ELSE gpio_read
            /\ Hold("send", _sock)
            /\ Goto("send", "sending")
  /\ UNCHANGED <<should_stop, k_thread, after, _sock, live, connection_state,
                 queue_vars, gpio_value, board_gpio, gpio_lost>>

(* hb_rf_eth_send_msg(): without a socket, or if kernel_sendmsg() fails on *)
(* it, only an error is logged.                                            *)
SendMsg ==
  /\ pc["send"] = "sending"
  /\ \/ /\ entries[tail] = Command["gpio"] /\ held["send"] \in live
        /\ board_gpio' = gpio_read
        /\ gpio_lost' = (gpio_lost /\ gpio_read # gpio_value)
     \/ /\ entries[tail] = Command["gpio"]
        /\ gpio_lost' = (gpio_lost \/ ~GpioQueued)
        /\ UNCHANGED board_gpio
     \/ entries[tail] # Command["gpio"] /\ UNCHANGED <<gpio_lost, board_gpio>>
  /\ gpio_read' = 0
  /\ Hold("send", NULL)
  /\ Goto("send", "sent")
  /\ UNCHANGED <<should_stop, k_thread, after, _sock, live, connection_state,
                 queue_vars, gpio_value>>

(* The slot is given back, whether or not the message was sent; what it    *)
(* holds is no longer of use.                                              *)
SendAdvance ==
  /\ pc["send"] = "sent"
  /\ tail' = (tail + 1) % QUEUE_LENGTH
  /\ entries' = [entries EXCEPT ![tail] = NULL]
  /\ pending' = Tail(pending)
  /\ Goto("send", "keepalive")
  /\ UNCHANGED <<should_stop, k_thread, after, conn_vars, filling, head, gpio_vars>>

(* Once a second a keep-alive is sent.                                     *)
SendKeepAlive ==
  /\ \/ /\ pc["send"] = "keepalive"
        /\ Goto("send", "loop")
        /\ UNCHANGED held
     \/ /\ pc["send"] = "keepalive"
        /\ Hold("send", _sock)
        /\ Goto("send", "keepalive_sending")
     \/ /\ pc["send"] = "keepalive_sending"
        /\ Hold("send", NULL)
        /\ Goto("send", "loop")
  /\ UNCHANGED <<should_stop, k_thread, after, _sock, live, connection_state,
                 queue_vars, gpio_vars>>

-----------------------------------------------------------------------------
(* hb_rf_eth_try_connect(), called by the admin and by the receive thread. *)

Failed(t) == Goto(t, IF t = "admin" THEN "down" ELSE "reconnect")

(* Socket and connect(): an error leaves no socket.                        *)
TryCreate(t) ==
  /\ pc[t] = "create"
  /\ \/ /\ Failed(t)
        /\ UNCHANGED <<held, live>>
     \/ LET unused == Sockets \ (live \cup {held["recv"], held["send"], held["admin"]})
            s == CHOOSE s \in unused : TRUE
        IN /\ unused # {}
           /\ live' = live \cup {s}
           /\ Hold(t, s)
           /\ Goto(t, "trying")
  /\ UNCHANGED <<should_stop, k_thread, after, _sock, connection_state,
                 queue_vars, gpio_vars>>

(* No answer to this request within 50 ms.                                 *)
TryTimeout(t) ==
  /\ pc[t] = "trying"
  /\ live' = live \ {held[t]}
  /\ Hold(t, NULL)
  /\ Failed(t)
  /\ UNCHANGED <<should_stop, k_thread, after, _sock, connection_state,
                 queue_vars, gpio_vars>>

TryAnswered(t) ==
  /\ pc[t] = "trying"
  /\ _sock' = held[t]
  /\ Hold(t, NULL)
  /\ Goto(t, "answered")
  /\ UNCHANGED <<should_stop, k_thread, after, live, connection_state,
                 queue_vars, gpio_vars>>

TryDone(t) ==
  /\ pc[t] = "answered"
  /\ connection_state' = TRUE
  /\ Goto(t, IF t = "admin" THEN "run_recv" ELSE "loop")
  /\ UNCHANGED <<should_stop, k_thread, after, _sock, held, live,
                 queue_vars, gpio_vars>>

TryConnect(t) == TryCreate(t) \/ TryTimeout(t) \/ TryAnswered(t) \/ TryDone(t)

-----------------------------------------------------------------------------
(* hb_rf_eth_recv_threadproc().                                            *)

RecvLoop ==
  /\ pc["recv"] = "loop"
  /\ IF should_stop["recv"]
       THEN Goto("recv", "exit") /\ UNCHANGED held
       ELSE Goto("recv", "recv") /\ Hold("recv", _sock)
  /\ UNCHANGED <<should_stop, k_thread, after, _sock, live, connection_state,
                 queue_vars, gpio_vars>>

(* recv_packet() and what follows: keep-alives and data show that the      *)
(* board is there, and the data goes to generic_raw_uart_handle_rx_char(); *)
(* after any other outcome five seconds without such a packet may have     *)
(* passed, and then the socket is released ...                             *)
RecvPacket(p) ==
  /\ pc["recv"] = "recv"
  /\ Hold("recv", NULL)
  /\ \/ /\ Goto("recv", "loop")
        /\ UNCHANGED live
     \/ /\ p \notin {"keepalive", "data"}
        /\ pc["admin"] \notin {"run_send", "undo_recv"}
        /\ live' = live \ {_sock}
        /\ Goto("recv", "released")
  /\ UNCHANGED <<should_stop, k_thread, after, _sock, connection_state,
                 queue_vars, gpio_vars>>

(* ... then _sock is cleared ...                                           *)
RecvForget ==
  /\ pc["recv"] = "released"
  /\ _sock' = NULL
  /\ Goto("recv", "forgotten")
  /\ UNCHANGED <<should_stop, k_thread, after, held, live, connection_state,
                 queue_vars, gpio_vars>>

(* ... and the raw UART told.  Without autoreconnect, a parameter that may *)
(* be changed at any time, the thread ends.                                *)
RecvLost ==
  /\ pc["recv"] = "forgotten"
  /\ connection_state' = FALSE
  /\ \E autoreconnect \in BOOLEAN : Goto("recv", IF autoreconnect THEN "reconnect" ELSE "exit")
  /\ UNCHANGED <<should_stop, k_thread, after, _sock, held, live,
                 queue_vars, gpio_vars>>

(* Mutant: the loop that reconnects does not look at kthread_should_stop().*)
RecvReconnectForever ==
  /\ pc["recv"] = "reconnect"
  /\ Goto("recv", "create")
  /\ UNCHANGED <<should_stop, k_thread, after, conn_vars, queue_vars, gpio_vars>>

(* The loop that reconnects, every 500 ms.                                 *)
RecvReconnect ==
  /\ pc["recv"] = "reconnect"
  /\ Goto("recv", IF should_stop["recv"] THEN "loop" ELSE "create")
  /\ UNCHANGED <<should_stop, k_thread, after, conn_vars, queue_vars, gpio_vars>>

RecvExit ==
  /\ pc["recv"] = "exit"
  /\ k_thread' = [k_thread EXCEPT !["recv"] = FALSE]
  /\ Goto("recv", "none")
  /\ UNCHANGED <<should_stop, after, _sock, held, live, connection_state,
                 queue_vars, gpio_vars>>

-----------------------------------------------------------------------------
(* connect_store(), connect_set() and hb_rf_eth_exit().                    *)

(* Mutant: the socket is released before the threads are stopped.          *)
DisconnectHangupFirst(then) ==
  /\ pc["admin"] \in {"down", "up"}
  /\ after' = then
  /\ live' = live \ {_sock}
  /\ _sock' = NULL
  /\ Goto("admin", "stop_send")
  /\ UNCHANGED <<should_stop, k_thread, held, connection_state, queue_vars, gpio_vars>>

(* The first two begin with hb_rf_eth_disconnect(); with an address a new  *)
(* connection follows.  The module is unloaded when nobody uses it.  Then  *)
(* raw UART, attributes and gpiochip are removed first, which ends the     *)
(* calls of the driver; what the threads, which still run, and             *)
(* hb_rf_eth_disconnect() do to the freed raw UART is left out.            *)
Disconnect(then) ==
  /\ pc["admin"] \in {"down", "up"}
  /\ then = "unloaded" => ~filling
  /\ after' = then
  /\ Goto("admin", "stop_send")
  /\ UNCHANGED <<should_stop, k_thread, conn_vars, queue_vars, gpio_vars>>

Stopping == [send |-> "stop_send", recv |-> "stop_recv"]
Waiting == [send |-> "wait_send", recv |-> "wait_recv"]
Stopped == [send |-> "stop_recv", recv |-> "hangup"]

(* kthread_stop() tells the thread to end ...                              *)
StopThread(t) ==
  /\ pc["admin"] = Stopping[t]
  /\ IF k_thread[t]
       THEN /\ should_stop' = [should_stop EXCEPT ![t] = TRUE]
            /\ Goto("admin", Waiting[t])
       ELSE Goto("admin", Stopped[t]) /\ UNCHANGED should_stop
  /\ UNCHANGED <<k_thread, after, conn_vars, queue_vars, gpio_vars>>

(* Mutant: ... and does not wait for it.                                   *)
WaitThreadNot(t) ==
  /\ pc["admin"] = Waiting[t]
  /\ k_thread' = [k_thread EXCEPT ![t] = FALSE]
  /\ Goto("admin", Stopped[t])
  /\ UNCHANGED <<should_stop, after, conn_vars, queue_vars, gpio_vars>>

(* ... and waits until it has.                                             *)
WaitThread(t) ==
  /\ pc["admin"] = Waiting[t]
  /\ pc[t] = "none"
  /\ k_thread' = [k_thread EXCEPT ![t] = FALSE]
  /\ should_stop' = [should_stop EXCEPT ![t] = FALSE]
  /\ Goto("admin", Stopped[t])
  /\ UNCHANGED <<after, conn_vars, queue_vars, gpio_vars>>

Release ==
  /\ live' = live \ {_sock}
  /\ _sock' = NULL
  /\ connection_state' = FALSE

(* What is left of the connection is closed.                               *)
Hangup ==
  /\ pc["admin"] = "hangup"
  /\ IF _sock # NULL THEN Release ELSE UNCHANGED <<live, _sock, connection_state>>
  /\ Goto("admin", after)
  /\ after' = IF after = "unloaded" THEN after ELSE "down"
  /\ UNCHANGED <<should_stop, k_thread, held,
                 queue_vars, gpio_vars>>

(* hb_rf_eth_connect() after hb_rf_eth_try_connect(): kthread_run() of     *)
(* either thread may fail.                                                 *)
RunThread(t, next) ==
  /\ k_thread' = [k_thread EXCEPT ![t] = TRUE]
  /\ pc' = [pc EXCEPT ![t] = "loop", !["admin"] = next]
  /\ UNCHANGED <<should_stop, after, conn_vars, queue_vars, gpio_vars>>

RunRecv == pc["admin"] = "run_recv" /\ RunThread("recv", "run_send")
RunSend == pc["admin"] = "run_send" /\ RunThread("send", "reset")

RunRecvFails ==
  /\ pc["admin"] = "run_recv"
  /\ Release
  /\ Goto("admin", "down")
  /\ UNCHANGED <<should_stop, k_thread, after, held,
                 queue_vars, gpio_vars>>

RunSendFails ==
  /\ pc["admin"] = "run_send"
  /\ should_stop' = [should_stop EXCEPT !["recv"] = TRUE]
  /\ Goto("admin", "undo_recv")
  /\ UNCHANGED <<k_thread, after, conn_vars, queue_vars, gpio_vars>>

UndoRecv ==
  /\ pc["admin"] = "undo_recv"
  /\ pc["recv"] = "none"
  /\ k_thread' = [k_thread EXCEPT !["recv"] = FALSE]
  /\ should_stop' = [should_stop EXCEPT !["recv"] = FALSE]
  /\ Release
  /\ Goto("admin", "down")
  /\ UNCHANGED <<after, held, queue_vars, gpio_vars>>

(* hb_rf_eth_send_reset() ends hb_rf_eth_connect().                        *)
SendReset ==
  /\ pc["admin"] = "reset"
  /\ QueueMsg("reset")
  /\ Goto("admin", "up")
  /\ UNCHANGED <<should_stop, k_thread, after, conn_vars, gpio_value, gpio_read, board_gpio>>

-----------------------------------------------------------------------------
SendThread == SendLoop \/ SendMsg \/ SendAdvance \/ SendKeepAlive

RecvThread ==
  \/ RecvLoop \/ RecvForget \/ RecvLost \/ RecvReconnect \/ RecvExit
  \/ \E p \in Packets : RecvPacket(p)
  \/ TryConnect("recv")

Admin ==
  \/ \E t \in {"send", "recv"} : StopThread(t) \/ WaitThread(t)
  \/ Hangup \/ TryConnect("admin")
  \/ RunRecv \/ RunRecvFails \/ RunSend \/ RunSendFails \/ UndoRecv \/ SendReset

Next ==
  \/ \E op \in Ops : DriverCall(op)
  \/ \E value \in {0, 1} : GpioSet(value)
  \/ QueuePublish
  \/ SendThread \/ RecvThread \/ Admin
  \/ \E then \in {"down", "create", "unloaded"} : Disconnect(then)

(* The scheduler runs every thread that can run, and a process in          *)
(* hb_rf_eth_queue_msg() goes on, since it spins with interrupts off.      *)
Fairness ==
  /\ WF_vars(SendThread) /\ WF_vars(RecvThread) /\ WF_vars(Admin)
  /\ WF_vars(QueuePublish)

Spec == Init /\ [][Next]_vars /\ Fairness

-----------------------------------------------------------------------------
TypeOK ==
  /\ _sock \in Sockets \cup {NULL}
  /\ live \subseteq Sockets
  /\ connection_state \in BOOLEAN
  /\ held \in [{"admin", "recv", "send"} -> Sockets \cup {NULL}]
  /\ should_stop \in [recv: BOOLEAN, send: BOOLEAN]
  /\ k_thread \in [recv: BOOLEAN, send: BOOLEAN]
  /\ filling \in BOOLEAN
  /\ entries \in [Slots -> {3, 4, 5, 6, 7, NULL}]
  /\ head \in Slots /\ tail \in Slots
  /\ gpio_value \in {0, 1} /\ gpio_read \in {0, 1} /\ board_gpio \in {0, 1}

(* The ring holds the accepted messages in the order of acceptance: none   *)
(* is overwritten before the send thread has given its slot back, none is  *)
(* sent twice (hb_rf_eth_queue_msg and hb_rf_eth_send_threadproc).         *)
QueueInOrder ==
  /\ Len(pending) = CIRC_CNT(head, tail, QUEUE_LENGTH)
  /\ \A i \in DOMAIN pending : entries[(tail + i - 1) % QUEUE_LENGTH] = pending[i]

(* A change of the LEDs is sent to the board unless the ring was full,     *)
(* there was no connection or kernel_sendmsg() failed: it has been sent,   *)
(* or is on its way in a message that will carry the current value (the    *)
(* send thread reads gpio_value again when it sends).                      *)
LedsFollow ==
  \/ board_gpio = gpio_value
  \/ gpio_lost
  \/ filling /\ entries[head] = Command["gpio"]
  \/ GpioQueued
  \/ pc["send"] = "sending" /\ entries[tail] = Command["gpio"] /\ gpio_read = gpio_value

(* When hb_rf_eth_disconnect() or a failed hb_rf_eth_connect() has         *)
(* returned nothing of the connection is left, even if the receive thread  *)
(* was reconnecting at the time: no thread, no socket, and the raw UART    *)
(* knows.                                                                  *)
DisconnectLeavesNothing ==
  pc["admin"] \in {"down", "create", "unloaded"} =>
    /\ pc["recv"] = "none" /\ pc["send"] = "none"
    /\ _sock = NULL /\ live = {}
    /\ ~connection_state

(* No thread loses the socket it is working with (sock_release() in        *)
(* try_connect, connect, disconnect and the receive thread), with the one  *)
(* exception the code leaves open: the receive thread gives up a silent    *)
(* connection without waiting for the send thread.  (That the send thread  *)
(* may also pick up the socket between its release and _sock = NULL is not *)
(* a loss in this sense.)                                                  *)
SocketKept ==
  [][\A t \in DOMAIN held :
       held[t] \in live /\ held'[t] = held[t] =>
         \/ held[t] \in live'
         \/ t = "send" /\ pc'["recv"] = "released"]_vars

(* hb_rf_eth_disconnect() always returns: the threads it waits for look at *)
(* kthread_should_stop() wherever they loop.                               *)
DisconnectReturns ==
  pc["admin"] = "stop_send" ~> pc["admin"] \in {"down", "create", "unloaded"}

-----------------------------------------------------------------------------
(* The inductive invariants the proofs use (HbRfEth_proofs).               *)
Commands == {3, 4, 5, 6, 7}
AdminStates ==
  {"down", "up", "stop_send", "wait_send", "stop_recv", "wait_recv", "hangup", "create",
   "unloaded", "trying", "answered", "run_recv", "run_send", "undo_recv", "reset"}
RecvStates ==
  {"none", "loop", "recv", "released", "forgotten", "reconnect", "create", "trying",
   "answered", "exit"}
SendStates == {"none", "loop", "sending", "sent", "keepalive", "keepalive_sending"}

EthType ==
  /\ TypeOK
  /\ pc \in [admin: AdminStates, recv: RecvStates, send: SendStates]
  /\ after \in {"down", "create", "unloaded"}
  /\ pending \in Seq(Commands)
  /\ gpio_lost \in BOOLEAN

(* The slot that is being filled stays free until it is published, and the *)
(* one the send thread works on is not given back by anybody else.         *)
RingKept ==
  /\ QueueInOrder
  /\ filling => /\ CIRC_CNT(head, tail, QUEUE_LENGTH) < QUEUE_LENGTH - 1
                /\ entries[head] \in Commands
  /\ pc["send"] \in {"sending", "sent"} => pending # <<>>

(* A value of the LEDs that the send thread has read and that has changed  *)
(* since then is followed by another message.                              *)
LedsKept ==
  /\ LedsFollow
  /\ pc["send"] = "sending" /\ entries[tail] = Command["gpio"] /\ gpio_read # gpio_value =>
       gpio_lost \/ (filling /\ entries[head] = Command["gpio"]) \/ GpioQueued

(* Which threads run at which step of connecting and disconnecting; both   *)
(* run when a connection is up, and the receive thread may end by itself.  *)
ThreadsKnown ==
  /\ k_thread["recv"] <=> pc["recv"] # "none"
  /\ ~k_thread["send"] => pc["send"] = "none"
  /\ pc["send"] = "none" => ~k_thread["send"] \/ pc["admin"] = "wait_send"
  /\ pc["admin"] \in {"down", "create", "unloaded", "trying", "answered", "run_recv", "hangup"} =>
       pc["recv"] = "none" /\ pc["send"] = "none"
  /\ pc["admin"] \in {"run_send", "undo_recv", "stop_recv", "wait_recv"} => pc["send"] = "none"
  /\ pc["admin"] \in {"run_send", "undo_recv"} => pc["recv"] \in {"none", "loop", "recv", "exit"}
  /\ pc["admin"] = "wait_send" => k_thread["send"]
  /\ should_stop["send"] => pc["admin"] = "wait_send"

(* Who has which socket: there is one at most, and a new one is known to   *)
(* the thread that tries it only.                                          *)
SocketsKnown ==
  /\ held["admin"] # NULL => pc["admin"] = "trying"
  /\ held["recv"] # NULL => pc["recv"] \in {"recv", "trying"}
  /\ held["send"] # NULL => pc["send"] \in {"sending", "keepalive_sending"}
  /\ \A t \in {"admin", "recv"} : pc[t] = "trying" =>
       /\ _sock = NULL /\ held[t] # NULL /\ live = {held[t]}
       /\ \A u \in {"admin", "recv", "send"} : u # t => held[u] # held[t]
  /\ \A t \in {"admin", "recv"} : pc[t] = "answered" => _sock # NULL
  /\ pc["recv"] = "released" => live = {}
  /\ pc["admin"] # "trying" /\ pc["recv"] \notin {"trying", "released"} =>
       live = {_sock} \ {NULL}
  /\ pc["recv"] \in {"forgotten", "reconnect", "create"} => _sock = NULL
  /\ pc["admin"] \in {"down", "create", "unloaded"} => _sock = NULL
  /\ connection_state /\ _sock = NULL => pc["recv"] = "forgotten"

EthInv == EthType /\ RingKept /\ LedsKept /\ ThreadsKnown /\ SocketsKnown
=============================================================================
