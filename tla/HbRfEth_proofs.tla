--------------------------- MODULE HbRfEth_proofs --------------------------
(* Proofs about the network radio adapter (HbRfEth), for a ring of any     *)
(* length, any sockets and any of the raw UART's calls.                    *)
EXTENDS HbRfEth, TLAPS, SequenceTheorems

(* How many messages there are between two positions of the ring.          *)
LEMMA RingCount ==
  ASSUME NEW h \in Slots, NEW t \in Slots
  PROVE  /\ CIRC_CNT(h, t, QUEUE_LENGTH) = IF h >= t THEN h - t ELSE h + QUEUE_LENGTH - t
         /\ CIRC_CNT(h, t, QUEUE_LENGTH) \in 0..(QUEUE_LENGTH - 1)
BY EthAssumption DEF CIRC_CNT, Slots

(* Where the threads are after one of them has moved.                      *)
LEMMA Moves ==
  ASSUME EthType, NEW t \in {"admin", "recv", "send"}, NEW s, Goto(t, s)
  PROVE  /\ pc'[t] = s
         /\ \A u \in {"admin", "recv", "send"} : u # t => pc'[u] = pc[u]
         /\ \/ t = "admin" /\ s \in AdminStates
            \/ t = "recv" /\ s \in RecvStates
            \/ t = "send" /\ s \in SendStates
            => pc' \in [admin: AdminStates, recv: RecvStates, send: SendStates]
<1>1. pc \in [admin: AdminStates, recv: RecvStates, send: SendStates]
  BY DEF EthType
<1>2. pc' = [pc EXCEPT ![t] = s]
  BY DEF Goto
<1> HIDE DEF AdminStates, RecvStates, SendStates
<1>3. CASE t = "admin"
  BY <1>1, <1>2, <1>3
<1>4. CASE t = "recv"
  BY <1>1, <1>2, <1>4
<1>5. CASE t = "send"
  BY <1>1, <1>2, <1>5
<1> QED BY <1>3, <1>4, <1>5

(* What they hold after one of them has got or dropped a socket.           *)
LEMMA Holds ==
  ASSUME EthType, NEW t \in {"admin", "recv", "send"}, NEW s \in Sockets \cup {NULL}, Hold(t, s)
  PROVE  /\ held'[t] = s
         /\ \A u \in {"admin", "recv", "send"} : u # t => held'[u] = held[u]
         /\ held' \in [{"admin", "recv", "send"} -> Sockets \cup {NULL}]
BY DEF EthType, TypeOK, Hold

(* Steps that touch neither ring nor LEDs, nor the send thread's work.     *)
LEMMA RestKept ==
  ASSUME EthInv, UNCHANGED <<queue_vars, gpio_vars>>,
         \/ pc'["send"] = pc["send"]
         \/ pc["send"] \notin {"sending", "sent"} /\ pc'["send"] \notin {"sending", "sent"}
  PROVE  RingKept' /\ LedsKept'
<1>1. RingKept'
  BY DEF EthInv, RingKept, QueueInOrder, queue_vars
<1>2. Unread' = Unread
  BY DEF Unread, queue_vars
<1>3. GpioQueued' = GpioQueued
  BY <1>2 DEF GpioQueued
<1>4. LedsKept'
  BY <1>3 DEF EthInv, LedsKept, LedsFollow, queue_vars, gpio_vars
<1> QED BY <1>1, <1>4

(* An adapter nobody has connected satisfies the invariant.                *)
LEMMA EthInvInit == Init => EthInv
<1> SUFFICES ASSUME Init PROVE EthInv
  OBVIOUS
<1> USE EthAssumption
<1>1. EthType
  <2>1. 0 \in Slots /\ 0 \in {0, 1}
    BY DEF Slots
  <2>2. <<>> \in Seq(Commands)
    BY EmptySeq
  <2>3. entries \in [Slots -> {3, 4, 5, 6, 7, NULL}]
    BY DEF Init
  <2>4. pc \in [admin: AdminStates, recv: RecvStates, send: SendStates]
    BY DEF Init, AdminStates, RecvStates, SendStates
  <2>5. /\ held \in [{"admin", "recv", "send"} -> Sockets \cup {NULL}]
        /\ should_stop \in [recv: BOOLEAN, send: BOOLEAN]
        /\ k_thread \in [recv: BOOLEAN, send: BOOLEAN]
    BY DEF Init
  <2> QED BY <2>1, <2>2, <2>3, <2>4, <2>5 DEF Init, EthType, TypeOK
<1>2. RingKept
  <2>1. head = 0 /\ tail = 0 /\ 0 \in Slots
    BY EthAssumption DEF Init, Slots
  <2>2. CIRC_CNT(0, 0, QUEUE_LENGTH) = IF 0 >= 0 THEN 0 - 0 ELSE 0 + QUEUE_LENGTH - 0
    BY <2>1, RingCount
  <2>3. CIRC_CNT(head, tail, QUEUE_LENGTH) = 0
    BY <2>1, <2>2
  <2>4. Len(pending) = 0 /\ DOMAIN pending = {} /\ ~filling /\ pc["send"] = "none"
    BY DEF Init
  <2> QED BY <2>3, <2>4 DEF RingKept, QueueInOrder
<1>3. LedsKept
  BY DEF Init, LedsKept, LedsFollow
<1>4. ThreadsKnown /\ SocketsKnown
  BY DEF Init, ThreadsKnown, SocketsKnown
<1> QED BY <1>1, <1>2, <1>3, <1>4 DEF EthInv

-----------------------------------------------------------------------------
(* Connecting and disconnecting: who runs and who has which socket.        *)
Life == EthType /\ ThreadsKnown /\ SocketsKnown

(* The types of a step that touches neither ring nor LEDs.                 *)
LEMMA TypeKept ==
  ASSUME EthType, UNCHANGED <<queue_vars, gpio_vars>>,
         pc' \in [admin: AdminStates, recv: RecvStates, send: SendStates],
         after' \in {"down", "create", "unloaded"},
         _sock' \in Sockets \cup {NULL}, live' \subseteq Sockets,
         held' \in [{"admin", "recv", "send"} -> Sockets \cup {NULL}],
         connection_state' \in BOOLEAN,
         should_stop' \in [recv: BOOLEAN, send: BOOLEAN],
         k_thread' \in [recv: BOOLEAN, send: BOOLEAN]
  PROVE  EthType'
BY DEF EthType, TypeOK, queue_vars, gpio_vars

(* hb_rf_eth_try_connect(), by the admin or by the receive thread.         *)
LEMMA TrySteps ==
  ASSUME EthInv, NEW t \in {"admin", "recv"}, TryConnect(t)
  PROVE  Life'
<1> USE EthAssumption
<1>0. EthType /\ ThreadsKnown /\ SocketsKnown /\ TypeOK
  BY DEF EthInv, EthType
<1>00. /\ _sock \in Sockets \cup {NULL} /\ live \subseteq Sockets /\ connection_state \in BOOLEAN
       /\ held \in [{"admin", "recv", "send"} -> Sockets \cup {NULL}]
       /\ should_stop \in [recv: BOOLEAN, send: BOOLEAN]
       /\ k_thread \in [recv: BOOLEAN, send: BOOLEAN] /\ NULL \in Sockets \cup {NULL}
       /\ after \in {"down", "create", "unloaded"}
  BY <1>0 DEF TypeOK, EthType
<1>1. UNCHANGED <<queue_vars, gpio_vars, should_stop, k_thread, after>>
  BY DEF TryConnect, TryCreate, TryTimeout, TryAnswered, TryDone
<1>2. t = "recv" => pc["admin"] \notin {"down", "create", "unloaded", "trying", "answered",
                                        "run_recv", "hangup", "run_send", "undo_recv"}
  BY <1>0 DEF ThreadsKnown, TryConnect, TryCreate, TryTimeout, TryAnswered, TryDone
<1>3. t = "admin" => pc["recv"] = "none" /\ pc["send"] = "none"
  BY <1>0 DEF ThreadsKnown, TryConnect, TryCreate, TryTimeout, TryAnswered, TryDone
<1>4. ASSUME NEW s, Goto(t, s),
             IF t = "admin" THEN s \in {"down", "trying", "answered", "run_recv"}
                            ELSE s \in {"reconnect", "trying", "answered", "loop"}
      PROVE  /\ pc' \in [admin: AdminStates, recv: RecvStates, send: SendStates]
             /\ pc'[t] = s /\ \A u \in {"admin", "recv", "send"} : u # t => pc'[u] = pc[u]
             /\ ThreadsKnown'
  <2>1. /\ pc'[t] = s
        /\ \A u \in {"admin", "recv", "send"} : u # t => pc'[u] = pc[u]
    BY <1>0, <1>4, Moves
  <2>2. (t = "admin" /\ s \in AdminStates) \/ (t = "recv" /\ s \in RecvStates)
    BY <1>4 DEF AdminStates, RecvStates
  <2>3. pc' \in [admin: AdminStates, recv: RecvStates, send: SendStates]
    BY <1>0, <1>4, <2>2, Moves
  <2>4. pc[t] \notin {"none", "wait_send", "loop"}
    BY DEF TryConnect, TryCreate, TryTimeout, TryAnswered, TryDone
  <2>5. ThreadsKnown'
    <3>1. CASE t = "admin"
      BY <1>0, <1>1, <1>3, <1>4, <2>1, <2>4, <3>1 DEF ThreadsKnown
    <3>2. CASE t = "recv"
      BY <1>0, <1>1, <1>2, <1>4, <2>1, <2>4, <3>2 DEF ThreadsKnown
    <3> QED BY <3>1, <3>2
  <2> QED BY <2>1, <2>3, <2>5
<1>5. CASE TryCreate(t)
  <2>1. pc[t] = "create" /\ UNCHANGED <<_sock, connection_state>>
    BY <1>5 DEF TryCreate
  <2>2. _sock = NULL /\ live = {}
    BY <1>0, <1>2, <1>3, <2>1 DEF SocketsKnown
  <2>3. CASE Failed(t) /\ UNCHANGED <<held, live>>
    <3> DEFINE s == IF t = "admin" THEN "down" ELSE "reconnect"
    <3>1. Goto(t, s)
      BY <2>3 DEF Failed
    <3>2. /\ pc' \in [admin: AdminStates, recv: RecvStates, send: SendStates]
          /\ pc'[t] = s /\ \A u \in {"admin", "recv", "send"} : u # t => pc'[u] = pc[u]
          /\ ThreadsKnown'
      BY <3>1, <1>4
    <3>3. EthType'
      BY <1>0, <1>00, <1>1, <2>1, <2>3, <3>2, TypeKept
    <3>4. SocketsKnown'
      BY <1>0, <1>1, <1>2, <1>3, <2>1, <2>2, <2>3, <3>2 DEF SocketsKnown
    <3> QED BY <3>2, <3>3, <3>4 DEF Life
  <2>4. CASE ~(Failed(t) /\ UNCHANGED <<held, live>>)
    <3> DEFINE unused == Sockets \ (live \cup {held["recv"], held["send"], held["admin"]})
               s == CHOOSE s \in unused : TRUE
    <3>1. unused # {} /\ live' = live \cup {s} /\ Hold(t, s) /\ Goto(t, "trying")
      BY <1>5, <2>4 DEF TryCreate
    <3>2. s \in unused
      BY <3>1, Zenon
    <3> HIDE DEF s
    <3>3. s \in Sockets /\ \A u \in {"admin", "recv", "send"} : held[u] # s
      BY <3>2
    <3>4. /\ pc' \in [admin: AdminStates, recv: RecvStates, send: SendStates]
          /\ pc'[t] = "trying" /\ \A u \in {"admin", "recv", "send"} : u # t => pc'[u] = pc[u]
          /\ ThreadsKnown'
      BY <3>1, <1>4
    <3>5. /\ held'[t] = s
          /\ \A u \in {"admin", "recv", "send"} : u # t => held'[u] = held[u]
          /\ held' \in [{"admin", "recv", "send"} -> Sockets \cup {NULL}]
      BY <1>0, <3>1, <3>3, Holds
    <3>6. EthType'
      BY <1>0, <1>00, <1>1, <2>1, <3>1, <3>3, <3>4, <3>5, TypeKept
    <3>7. SocketsKnown'
      BY <1>0, <1>1, <1>2, <1>3, <2>1, <2>2, <3>1, <3>3, <3>4, <3>5 DEF SocketsKnown
    <3> QED BY <3>4, <3>6, <3>7 DEF Life
  <2> QED BY <2>3, <2>4
<1>6. CASE TryTimeout(t)
  <2> DEFINE s == IF t = "admin" THEN "down" ELSE "reconnect"
  <2>1. /\ pc[t] = "trying" /\ live' = live \ {held[t]} /\ Hold(t, NULL) /\ Goto(t, s)
        /\ UNCHANGED <<_sock, connection_state>>
    BY <1>6 DEF TryTimeout, Failed
  <2>2. /\ pc' \in [admin: AdminStates, recv: RecvStates, send: SendStates]
        /\ pc'[t] = s /\ \A u \in {"admin", "recv", "send"} : u # t => pc'[u] = pc[u]
        /\ ThreadsKnown'
    BY <2>1, <1>4
  <2>3. /\ held'[t] = NULL
        /\ \A u \in {"admin", "recv", "send"} : u # t => held'[u] = held[u]
        /\ held' \in [{"admin", "recv", "send"} -> Sockets \cup {NULL}]
    BY <1>0, <1>00, <2>1, Holds
  <2>4. EthType'
    BY <1>0, <1>00, <1>1, <2>1, <2>2, <2>3, TypeKept
  <2>5. _sock = NULL /\ live' = {}
    BY <1>0, <2>1 DEF SocketsKnown
  <2>6. SocketsKnown'
    BY <1>0, <1>1, <1>2, <1>3, <2>1, <2>2, <2>3, <2>5 DEF SocketsKnown
  <2> QED BY <2>2, <2>4, <2>6 DEF Life
<1>7. CASE TryAnswered(t)
  <2>1. /\ pc[t] = "trying" /\ _sock' = held[t] /\ Hold(t, NULL) /\ Goto(t, "answered")
        /\ UNCHANGED <<live, connection_state>>
    BY <1>7 DEF TryAnswered
  <2>2. /\ pc' \in [admin: AdminStates, recv: RecvStates, send: SendStates]
        /\ pc'[t] = "answered" /\ \A u \in {"admin", "recv", "send"} : u # t => pc'[u] = pc[u]
        /\ ThreadsKnown'
    BY <2>1, <1>4
  <2>3. /\ held'[t] = NULL
        /\ \A u \in {"admin", "recv", "send"} : u # t => held'[u] = held[u]
        /\ held' \in [{"admin", "recv", "send"} -> Sockets \cup {NULL}]
    BY <1>0, <1>00, <2>1, Holds
  <2>4. EthType'
    BY <1>0, <1>00, <1>1, <2>1, <2>2, <2>3, TypeKept
  <2>5. _sock' # NULL /\ live' = {_sock'}
    BY <1>0, <2>1 DEF SocketsKnown
  <2>6. SocketsKnown'
    BY <1>0, <1>1, <1>2, <1>3, <2>1, <2>2, <2>3, <2>5 DEF SocketsKnown
  <2> QED BY <2>2, <2>4, <2>6 DEF Life
<1>8. CASE TryDone(t)
  <2> DEFINE s == IF t = "admin" THEN "run_recv" ELSE "loop"
  <2>1. /\ pc[t] = "answered" /\ connection_state' = TRUE /\ Goto(t, s)
        /\ UNCHANGED <<_sock, held, live>>
    BY <1>8 DEF TryDone
  <2>2. /\ pc' \in [admin: AdminStates, recv: RecvStates, send: SendStates]
        /\ pc'[t] = s /\ \A u \in {"admin", "recv", "send"} : u # t => pc'[u] = pc[u]
        /\ ThreadsKnown'
    BY <2>1, <1>4
  <2>3. EthType'
    BY <1>0, <1>00, <1>1, <2>1, <2>2, TypeKept
  <2>4. _sock # NULL
    BY <1>0, <2>1 DEF SocketsKnown
  <2>5. SocketsKnown'
    BY <1>0, <1>1, <1>2, <1>3, <2>1, <2>2, <2>4 DEF SocketsKnown
  <2> QED BY <2>2, <2>3, <2>5 DEF Life
<1> QED BY <1>5, <1>6, <1>7, <1>8 DEF TryConnect

(* The receive thread.                                                     *)
LEMMA RecvSteps ==
  ASSUME EthInv, RecvThread
  PROVE  Life'
<1> USE EthAssumption
<1>0. EthType /\ ThreadsKnown /\ SocketsKnown /\ TypeOK
  BY DEF EthInv, EthType
<1>00. /\ _sock \in Sockets \cup {NULL} /\ live \subseteq Sockets /\ connection_state \in BOOLEAN
       /\ held \in [{"admin", "recv", "send"} -> Sockets \cup {NULL}]
       /\ should_stop \in [recv: BOOLEAN, send: BOOLEAN]
       /\ k_thread \in [recv: BOOLEAN, send: BOOLEAN] /\ NULL \in Sockets \cup {NULL}
       /\ after \in {"down", "create", "unloaded"}
  BY <1>0 DEF TypeOK, EthType
<1>1. ASSUME NEW s \in RecvStates, Goto("recv", s)
      PROVE  /\ pc' \in [admin: AdminStates, recv: RecvStates, send: SendStates]
             /\ pc'["recv"] = s /\ pc'["admin"] = pc["admin"] /\ pc'["send"] = pc["send"]
  BY <1>0, <1>1, Moves
<1>2. ASSUME NEW s \in Sockets \cup {NULL}, Hold("recv", s)
      PROVE  /\ held' \in [{"admin", "recv", "send"} -> Sockets \cup {NULL}]
             /\ held'["recv"] = s /\ held'["admin"] = held["admin"]
             /\ held'["send"] = held["send"]
  BY <1>0, <1>2, Holds
<1>3. CASE RecvLoop
  <2>1. /\ pc["recv"] = "loop"
        /\ UNCHANGED <<should_stop, k_thread, after, _sock, live, connection_state, queue_vars,
                       gpio_vars>>
    BY <1>3 DEF RecvLoop
  <2>2. CASE Goto("recv", "exit") /\ UNCHANGED held
    <3>1. /\ pc' \in [admin: AdminStates, recv: RecvStates, send: SendStates]
          /\ pc'["recv"] = "exit" /\ pc'["admin"] = pc["admin"] /\ pc'["send"] = pc["send"]
      BY <2>2, <1>1 DEF RecvStates
    <3>2. EthType'
      BY <1>0, <1>00, <2>1, <2>2, <3>1, TypeKept
    <3>3. ThreadsKnown' /\ SocketsKnown'
      BY <1>0, <2>1, <2>2, <3>1 DEF ThreadsKnown, SocketsKnown
    <3> QED BY <3>2, <3>3 DEF Life
  <2>3. CASE Goto("recv", "recv") /\ Hold("recv", _sock)
    <3>1. /\ pc' \in [admin: AdminStates, recv: RecvStates, send: SendStates]
          /\ pc'["recv"] = "recv" /\ pc'["admin"] = pc["admin"] /\ pc'["send"] = pc["send"]
      BY <2>3, <1>1 DEF RecvStates
    <3>2. /\ held' \in [{"admin", "recv", "send"} -> Sockets \cup {NULL}]
          /\ held'["recv"] = _sock /\ held'["admin"] = held["admin"]
          /\ held'["send"] = held["send"]
      BY <1>00, <2>3, <1>2
    <3>3. EthType'
      BY <1>0, <1>00, <2>1, <3>1, <3>2, TypeKept
    <3>4. ThreadsKnown' /\ SocketsKnown'
      BY <1>0, <2>1, <3>1, <3>2 DEF ThreadsKnown, SocketsKnown
    <3> QED BY <3>3, <3>4 DEF Life
  <2> QED BY <1>3, <2>2, <2>3 DEF RecvLoop
<1>4. ASSUME NEW p \in Packets, RecvPacket(p) PROVE Life'
  <2>1. /\ pc["recv"] = "recv" /\ Hold("recv", NULL)
        /\ UNCHANGED <<should_stop, k_thread, after, _sock, connection_state, queue_vars,
                       gpio_vars>>
    BY <1>4 DEF RecvPacket
  <2>2. /\ held' \in [{"admin", "recv", "send"} -> Sockets \cup {NULL}]
        /\ held'["recv"] = NULL /\ held'["admin"] = held["admin"]
        /\ held'["send"] = held["send"]
    BY <1>00, <2>1, <1>2
  <2>3. CASE Goto("recv", "loop") /\ UNCHANGED live
    <3>1. /\ pc' \in [admin: AdminStates, recv: RecvStates, send: SendStates]
          /\ pc'["recv"] = "loop" /\ pc'["admin"] = pc["admin"] /\ pc'["send"] = pc["send"]
      BY <2>3, <1>1 DEF RecvStates
    <3>2. EthType'
      BY <1>0, <1>00, <2>1, <2>2, <2>3, <3>1, TypeKept
    <3>3. ThreadsKnown' /\ SocketsKnown'
      BY <1>0, <2>1, <2>2, <2>3, <3>1 DEF ThreadsKnown, SocketsKnown
    <3> QED BY <3>2, <3>3 DEF Life
  <2>4. CASE /\ pc["admin"] \notin {"run_send", "undo_recv"}
             /\ live' = live \ {_sock} /\ Goto("recv", "released")
    <3>1. /\ pc' \in [admin: AdminStates, recv: RecvStates, send: SendStates]
          /\ pc'["recv"] = "released" /\ pc'["admin"] = pc["admin"] /\ pc'["send"] = pc["send"]
      BY <2>4, <1>1 DEF RecvStates
    <3>2. EthType'
      BY <1>0, <1>00, <2>1, <2>2, <2>4, <3>1, TypeKept
    <3>3. live' = {}
      <4>1. pc["admin"] # "trying"
        BY <1>0, <2>1 DEF ThreadsKnown
      <4> QED BY <1>0, <2>1, <2>4, <4>1 DEF SocketsKnown
    <3>4. ThreadsKnown'
      BY <1>0, <2>1, <2>4, <3>1 DEF ThreadsKnown
    <3>5. SocketsKnown'
      BY <1>0, <2>1, <2>2, <3>1, <3>3, <3>4 DEF SocketsKnown, ThreadsKnown
    <3> QED BY <3>2, <3>4, <3>5 DEF Life
  <2> QED BY <1>4, <2>3, <2>4 DEF RecvPacket
<1>5. CASE RecvForget
  <2>1. /\ pc["recv"] = "released" /\ _sock' = NULL /\ Goto("recv", "forgotten")
        /\ UNCHANGED <<should_stop, k_thread, after, held, live, connection_state, queue_vars,
                       gpio_vars>>
    BY <1>5 DEF RecvForget
  <2>2. /\ pc' \in [admin: AdminStates, recv: RecvStates, send: SendStates]
        /\ pc'["recv"] = "forgotten" /\ pc'["admin"] = pc["admin"] /\ pc'["send"] = pc["send"]
    BY <2>1, <1>1 DEF RecvStates
  <2>3. EthType'
    BY <1>0, <1>00, <2>1, <2>2, TypeKept
  <2>4. ThreadsKnown' /\ SocketsKnown'
    BY <1>0, <2>1, <2>2 DEF ThreadsKnown, SocketsKnown
  <2> QED BY <2>3, <2>4 DEF Life
<1>6. CASE RecvLost
  <2>1. /\ pc["recv"] = "forgotten" /\ connection_state' = FALSE
        /\ UNCHANGED <<should_stop, k_thread, after, _sock, held, live, queue_vars, gpio_vars>>
    BY <1>6 DEF RecvLost
  <2>2. PICK s \in {"reconnect", "exit"} : Goto("recv", s)
    BY <1>6 DEF RecvLost
  <2>3. /\ pc' \in [admin: AdminStates, recv: RecvStates, send: SendStates]
        /\ pc'["recv"] = s /\ pc'["admin"] = pc["admin"] /\ pc'["send"] = pc["send"]
    BY <2>2, <1>1 DEF RecvStates
  <2>4. EthType'
    BY <1>0, <1>00, <2>1, <2>3, TypeKept
  <2>5. ThreadsKnown' /\ SocketsKnown'
    BY <1>0, <2>1, <2>3 DEF ThreadsKnown, SocketsKnown
  <2> QED BY <2>4, <2>5 DEF Life
<1>7. CASE RecvReconnect
  <2>1. /\ pc["recv"] = "reconnect"
        /\ UNCHANGED <<should_stop, k_thread, after, conn_vars, queue_vars, gpio_vars>>
    BY <1>7 DEF RecvReconnect
  <2>2. PICK s \in {"loop", "create"} : Goto("recv", s)
    BY <1>7 DEF RecvReconnect
  <2>3. /\ pc' \in [admin: AdminStates, recv: RecvStates, send: SendStates]
        /\ pc'["recv"] = s /\ pc'["admin"] = pc["admin"] /\ pc'["send"] = pc["send"]
    BY <2>2, <1>1 DEF RecvStates
  <2>4. EthType'
    BY <1>0, <1>00, <2>1, <2>3, TypeKept DEF conn_vars
  <2>5. ThreadsKnown' /\ SocketsKnown'
    BY <1>0, <2>1, <2>3 DEF ThreadsKnown, SocketsKnown, conn_vars
  <2> QED BY <2>4, <2>5 DEF Life
<1>8. CASE RecvExit
  <2>1. /\ pc["recv"] = "exit" /\ k_thread' = [k_thread EXCEPT !["recv"] = FALSE]
        /\ Goto("recv", "none")
        /\ UNCHANGED <<should_stop, after, _sock, held, live, connection_state, queue_vars,
                       gpio_vars>>
    BY <1>8 DEF RecvExit
  <2>2. /\ pc' \in [admin: AdminStates, recv: RecvStates, send: SendStates]
        /\ pc'["recv"] = "none" /\ pc'["admin"] = pc["admin"] /\ pc'["send"] = pc["send"]
    BY <2>1, <1>1 DEF RecvStates
  <2>3. /\ k_thread' \in [recv: BOOLEAN, send: BOOLEAN]
        /\ k_thread'["recv"] = FALSE /\ k_thread'["send"] = k_thread["send"]
    BY <1>00, <2>1
  <2>4. EthType'
    BY <1>0, <1>00, <2>1, <2>2, <2>3, TypeKept
  <2>5. ThreadsKnown' /\ SocketsKnown'
    BY <1>0, <2>1, <2>2, <2>3 DEF ThreadsKnown, SocketsKnown
  <2> QED BY <2>4, <2>5 DEF Life
<1>9. CASE TryConnect("recv")
  BY <1>9, TrySteps
<1> QED BY <1>3, <1>4, <1>5, <1>6, <1>7, <1>8, <1>9 DEF RecvThread

(* The process that connects and disconnects.                              *)
LEMMA AdminSteps ==
  ASSUME EthInv, \/ Admin /\ ~SendReset
                 \/ \E then \in {"down", "create", "unloaded"} : Disconnect(then)
  PROVE  /\ Life' /\ UNCHANGED <<queue_vars, gpio_vars>>
         /\ \/ pc'["send"] = pc["send"]
            \/ pc["send"] \notin {"sending", "sent"} /\ pc'["send"] \notin {"sending", "sent"}
<1> USE EthAssumption
<1>0. EthType /\ ThreadsKnown /\ SocketsKnown /\ TypeOK
  BY DEF EthInv, EthType
<1>00. /\ _sock \in Sockets \cup {NULL} /\ live \subseteq Sockets /\ connection_state \in BOOLEAN
       /\ held \in [{"admin", "recv", "send"} -> Sockets \cup {NULL}]
       /\ should_stop \in [recv: BOOLEAN, send: BOOLEAN]
       /\ k_thread \in [recv: BOOLEAN, send: BOOLEAN] /\ NULL \in Sockets \cup {NULL}
       /\ after \in {"down", "create", "unloaded"}
       /\ pc \in [admin: AdminStates, recv: RecvStates, send: SendStates]
  BY <1>0 DEF TypeOK, EthType
<1>a. UNCHANGED <<queue_vars, gpio_vars>>
  BY DEF Admin, StopThread, WaitThread, Hangup, TryConnect, TryCreate, TryTimeout, TryAnswered,
     TryDone, RunRecv, RunRecvFails, RunSend, RunThread, RunSendFails, UndoRecv, Disconnect
<1>1. ASSUME NEW s \in AdminStates, Goto("admin", s)
      PROVE  /\ pc' \in [admin: AdminStates, recv: RecvStates, send: SendStates]
             /\ pc'["admin"] = s /\ pc'["recv"] = pc["recv"] /\ pc'["send"] = pc["send"]
  BY <1>0, <1>1, Moves
<1>2. ASSUME NEW t \in {"send", "recv"}, StopThread(t)
      PROVE  Life' /\ pc'["send"] = pc["send"]
  <2>0. UNCHANGED <<k_thread, after, conn_vars>>
    BY <1>2 DEF StopThread
  <2>1. should_stop' \in [recv: BOOLEAN, send: BOOLEAN]
    BY <1>00, <1>2 DEF StopThread
  <2>2. PICK s \in AdminStates : Goto("admin", s) /\ s = (IF k_thread[t] THEN Waiting[t] ELSE Stopped[t])
    BY <1>2 DEF StopThread, Waiting, Stopped, AdminStates
  <2>3. /\ pc' \in [admin: AdminStates, recv: RecvStates, send: SendStates]
        /\ pc'["admin"] = s /\ pc'["recv"] = pc["recv"] /\ pc'["send"] = pc["send"]
    BY <2>2, <1>1
  <2>4. /\ pc["admin"] = (IF t = "send" THEN "stop_send" ELSE "stop_recv")
        /\ s = IF t = "send" THEN (IF k_thread["send"] THEN "wait_send" ELSE "stop_recv")
                             ELSE (IF k_thread["recv"] THEN "wait_recv" ELSE "hangup")
    <3>1. CASE t = "send"
      BY <1>2, <2>2, <3>1 DEF StopThread, Stopping, Waiting, Stopped
    <3>2. CASE t = "recv"
      BY <1>2, <2>2, <3>2 DEF StopThread, Stopping, Waiting, Stopped
    <3> QED BY <3>1, <3>2
  <2>4a. should_stop'["send"] => should_stop["send"] \/ pc'["admin"] = "wait_send"
    BY <1>00, <1>2, <2>2, <2>3, <2>4 DEF StopThread
  <2>5. EthType'
    BY <1>0, <1>00, <1>a, <2>0, <2>1, <2>3, TypeKept DEF conn_vars
  <2>6. ThreadsKnown' /\ SocketsKnown'
    BY <1>0, <2>0, <2>3, <2>4a, <2>4 DEF ThreadsKnown, SocketsKnown, conn_vars
  <2> QED BY <2>3, <2>5, <2>6 DEF Life
<1>3. ASSUME NEW t \in {"send", "recv"}, WaitThread(t)
      PROVE  Life' /\ pc'["send"] = pc["send"]
  <2>1. /\ pc["admin"] = Waiting[t] /\ pc[t] = "none" /\ Goto("admin", Stopped[t])
        /\ k_thread' = [k_thread EXCEPT ![t] = FALSE] /\ UNCHANGED <<after, conn_vars>>
        /\ should_stop' = [should_stop EXCEPT ![t] = FALSE]
    BY <1>3 DEF WaitThread
  <2>2. /\ pc["admin"] = (IF t = "send" THEN "wait_send" ELSE "wait_recv")
        /\ Stopped[t] = (IF t = "send" THEN "stop_recv" ELSE "hangup")
    <3>1. CASE t = "send"
      BY <2>1, <3>1 DEF Waiting, Stopped
    <3>2. CASE t = "recv"
      BY <2>1, <3>2 DEF Waiting, Stopped
    <3> QED BY <3>1, <3>2
  <2>3. /\ pc' \in [admin: AdminStates, recv: RecvStates, send: SendStates]
        /\ pc'["admin"] = Stopped[t] /\ pc'["recv"] = pc["recv"] /\ pc'["send"] = pc["send"]
    BY <2>1, <2>2, <1>1 DEF AdminStates
  <2>4. /\ k_thread' \in [recv: BOOLEAN, send: BOOLEAN] /\ k_thread'[t] = FALSE
        /\ \A u \in {"recv", "send"} : u # t => k_thread'[u] = k_thread[u]
        /\ should_stop' \in [recv: BOOLEAN, send: BOOLEAN]
    BY <1>00, <2>1
  <2>5. EthType'
    BY <1>0, <1>00, <1>a, <2>1, <2>3, <2>4, TypeKept DEF conn_vars
  <2>6. ThreadsKnown'
    BY <1>0, <2>1, <2>2, <2>3, <2>4 DEF ThreadsKnown
  <2>7. SocketsKnown'
    BY <1>0, <2>1, <2>2, <2>3 DEF SocketsKnown, conn_vars
  <2> QED BY <2>3, <2>5, <2>6, <2>7 DEF Life
<1>4. CASE Hangup
  <2>1. /\ pc["admin"] = "hangup" /\ Goto("admin", after) /\ UNCHANGED <<should_stop, k_thread, held>>
        /\ after' = (IF after = "unloaded" THEN after ELSE "down")
    BY <1>4 DEF Hangup
  <2>2. /\ pc' \in [admin: AdminStates, recv: RecvStates, send: SendStates]
        /\ pc'["admin"] = after /\ pc'["recv"] = pc["recv"] /\ pc'["send"] = pc["send"]
    <3>1. after \in AdminStates
      BY <1>00 DEF AdminStates
    <3> QED BY <2>1, <3>1, <1>1
  <2>3. pc["recv"] = "none" /\ pc["send"] = "none"
    BY <1>0, <2>1 DEF ThreadsKnown
  <2>4. _sock' = NULL /\ live' = {} /\ connection_state' = FALSE
    <3>1. live = {_sock} \ {NULL}
      BY <1>0, <2>1, <2>3 DEF SocketsKnown
    <3>2. CASE _sock # NULL
      BY <1>4, <3>1, <3>2 DEF Hangup, Release
    <3>3. CASE _sock = NULL
      <4>1. ~connection_state
        BY <1>0, <2>3, <3>3 DEF SocketsKnown
      <4>2. connection_state = FALSE
        BY <1>00, <4>1, Zenon
      <4> QED BY <1>4, <3>1, <3>3, <4>2 DEF Hangup
    <3> QED BY <3>2, <3>3
  <2>5. EthType'
    BY <1>0, <1>00, <1>a, <2>1, <2>2, <2>4, TypeKept
  <2>6. ThreadsKnown' /\ SocketsKnown'
    BY <1>0, <1>00, <2>1, <2>2, <2>3, <2>4 DEF ThreadsKnown, SocketsKnown
  <2> QED BY <1>a, <2>2, <2>5, <2>6 DEF Life
<1>5. ASSUME NEW t \in {"send", "recv"}, NEW next \in {"run_send", "reset"}, RunThread(t, next),
             pc["admin"] = (IF t = "recv" THEN "run_recv" ELSE "run_send"),
             next = (IF t = "recv" THEN "run_send" ELSE "reset")
      PROVE  Life' /\ pc["send"] = "none" /\ pc'["send"] \in {"none", "loop"}
  <2>1. /\ k_thread' = [k_thread EXCEPT ![t] = TRUE]
        /\ pc' = [pc EXCEPT ![t] = "loop", !["admin"] = next]
        /\ UNCHANGED <<should_stop, after, conn_vars>>
    BY <1>5 DEF RunThread
  <2>2. /\ k_thread' \in [recv: BOOLEAN, send: BOOLEAN] /\ k_thread'[t] = TRUE
        /\ \A u \in {"recv", "send"} : u # t => k_thread'[u] = k_thread[u]
    BY <1>00, <2>1
  <2>3. /\ pc' \in [admin: AdminStates, recv: RecvStates, send: SendStates]
        /\ pc'["admin"] = next /\ pc'[t] = "loop"
        /\ \A u \in {"recv", "send"} : u # t => pc'[u] = pc[u]
    <3>1. next \in AdminStates /\ "loop" \in RecvStates /\ "loop" \in SendStates
      BY DEF AdminStates, RecvStates, SendStates
    <3>2. CASE t = "recv"
      BY <1>00, <2>1, <3>1, <3>2
    <3>3. CASE t = "send"
      BY <1>00, <2>1, <3>1, <3>3
    <3> QED BY <3>2, <3>3
  <2>4. EthType'
    BY <1>0, <1>00, <1>a, <2>1, <2>2, <2>3, TypeKept DEF conn_vars
  <2>5. pc["send"] = "none" /\ (t = "recv" => pc["recv"] = "none")
        /\ (t = "send" => pc["recv"] \in {"none", "loop", "recv", "exit"})
    BY <1>0, <1>5 DEF ThreadsKnown
  <2>6. ThreadsKnown'
    BY <1>0, <1>5, <2>1, <2>2, <2>3, <2>5 DEF ThreadsKnown
  <2>7. SocketsKnown'
    BY <1>0, <1>5, <2>1, <2>3, <2>5 DEF SocketsKnown, conn_vars
  <2> QED BY <2>3, <2>4, <2>5, <2>6, <2>7 DEF Life
<1>6. CASE RunRecvFails
  <2>1. /\ pc["admin"] = "run_recv" /\ Goto("admin", "down") /\ live' = live \ {_sock}
        /\ _sock' = NULL /\ connection_state' = FALSE
        /\ UNCHANGED <<should_stop, k_thread, after, held>>
    BY <1>6 DEF RunRecvFails, Release
  <2>2. /\ pc' \in [admin: AdminStates, recv: RecvStates, send: SendStates]
        /\ pc'["admin"] = "down" /\ pc'["recv"] = pc["recv"] /\ pc'["send"] = pc["send"]
    BY <2>1, <1>1 DEF AdminStates
  <2>3. pc["recv"] = "none" /\ pc["send"] = "none" /\ live' = {}
    BY <1>0, <2>1 DEF ThreadsKnown, SocketsKnown
  <2>4. EthType'
    BY <1>0, <1>00, <1>a, <2>1, <2>2, TypeKept
  <2>5. ThreadsKnown' /\ SocketsKnown'
    BY <1>0, <2>1, <2>2, <2>3 DEF ThreadsKnown, SocketsKnown
  <2> QED BY <1>a, <2>2, <2>4, <2>5 DEF Life
<1>7. CASE RunSendFails
  <2>1. /\ pc["admin"] = "run_send" /\ Goto("admin", "undo_recv")
        /\ should_stop' = [should_stop EXCEPT !["recv"] = TRUE]
        /\ UNCHANGED <<k_thread, after, conn_vars>>
    BY <1>7 DEF RunSendFails
  <2>2. /\ pc' \in [admin: AdminStates, recv: RecvStates, send: SendStates]
        /\ pc'["admin"] = "undo_recv" /\ pc'["recv"] = pc["recv"] /\ pc'["send"] = pc["send"]
    BY <2>1, <1>1 DEF AdminStates
  <2>3. should_stop' \in [recv: BOOLEAN, send: BOOLEAN]
    BY <1>00, <2>1
  <2>4. EthType'
    BY <1>0, <1>00, <1>a, <2>1, <2>2, <2>3, TypeKept DEF conn_vars
  <2>5. ThreadsKnown' /\ SocketsKnown'
    BY <1>0, <2>1, <2>2 DEF ThreadsKnown, SocketsKnown, conn_vars
  <2> QED BY <1>a, <2>2, <2>4, <2>5 DEF Life
<1>8. CASE UndoRecv
  <2>1. /\ pc["admin"] = "undo_recv" /\ pc["recv"] = "none" /\ Goto("admin", "down")
        /\ live' = live \ {_sock} /\ _sock' = NULL /\ connection_state' = FALSE
        /\ k_thread' = [k_thread EXCEPT !["recv"] = FALSE]
        /\ should_stop' = [should_stop EXCEPT !["recv"] = FALSE]
        /\ UNCHANGED <<after, held>>
    BY <1>8 DEF UndoRecv, Release
  <2>2. /\ pc' \in [admin: AdminStates, recv: RecvStates, send: SendStates]
        /\ pc'["admin"] = "down" /\ pc'["recv"] = pc["recv"] /\ pc'["send"] = pc["send"]
    BY <2>1, <1>1 DEF AdminStates
  <2>3. /\ should_stop' \in [recv: BOOLEAN, send: BOOLEAN]
        /\ k_thread' \in [recv: BOOLEAN, send: BOOLEAN]
        /\ k_thread'["recv"] = FALSE /\ k_thread'["send"] = k_thread["send"]
    BY <1>00, <2>1
  <2>4. pc["send"] = "none" /\ live' = {}
    BY <1>0, <2>1 DEF ThreadsKnown, SocketsKnown
  <2>5. EthType'
    BY <1>0, <1>00, <1>a, <2>1, <2>2, <2>3, TypeKept
  <2>6. ThreadsKnown' /\ SocketsKnown'
    BY <1>0, <2>1, <2>2, <2>3, <2>4 DEF ThreadsKnown, SocketsKnown
  <2> QED BY <1>a, <2>2, <2>5, <2>6 DEF Life
<1>9. ASSUME NEW then \in {"down", "create", "unloaded"}, Disconnect(then)
      PROVE  Life' /\ pc'["send"] = pc["send"]
  <2>1. /\ pc["admin"] \in {"down", "up"} /\ after' = then /\ Goto("admin", "stop_send")
        /\ UNCHANGED <<should_stop, k_thread, conn_vars>>
    BY <1>9 DEF Disconnect
  <2>2. /\ pc' \in [admin: AdminStates, recv: RecvStates, send: SendStates]
        /\ pc'["admin"] = "stop_send" /\ pc'["recv"] = pc["recv"] /\ pc'["send"] = pc["send"]
    BY <2>1, <1>1 DEF AdminStates
  <2>3. EthType'
    BY <1>0, <1>00, <1>a, <2>1, <2>2, TypeKept DEF conn_vars
  <2>4. ThreadsKnown' /\ SocketsKnown'
    BY <1>0, <2>1, <2>2 DEF ThreadsKnown, SocketsKnown, conn_vars
  <2> QED BY <2>2, <2>3, <2>4 DEF Life
<1>10. CASE TryConnect("admin")
  <2>1. Life'
    BY <1>10, TrySteps
  <2>2. \E s : Goto("admin", s)
    BY <1>10 DEF TryConnect, TryCreate, TryTimeout, TryAnswered, TryDone, Failed
  <2> QED BY <1>0, <1>a, <2>1, <2>2, Moves
<1>11. CASE RunRecv
  BY <1>5, <1>11, <1>a DEF RunRecv
<1>12. CASE RunSend
  BY <1>5, <1>12, <1>a DEF RunSend
<1> QED
  BY <1>a, <1>2, <1>3, <1>4, <1>6, <1>7, <1>8, <1>9, <1>10, <1>11, <1>12 DEF Admin

-----------------------------------------------------------------------------
(* The ring.  The slot of the i-th message that waits.                     *)
Slot(i) == (tail + i - 1) % QUEUE_LENGTH

(* What the positions of the ring have to do with each other.              *)
LEMMA RingArithmetic ==
  ASSUME EthType
  PROVE  LET n == CIRC_CNT(head, tail, QUEUE_LENGTH)
             head1 == (head + 1) % QUEUE_LENGTH
             tail1 == (tail + 1) % QUEUE_LENGTH
         IN /\ n \in 0..(QUEUE_LENGTH - 1)
            /\ n > 0 => head # tail
            /\ CIRC_SPACE(head, tail, QUEUE_LENGTH) >= 1 => n < QUEUE_LENGTH - 1
            /\ head1 \in Slots /\ tail1 \in Slots
            /\ n < QUEUE_LENGTH - 1 => CIRC_CNT(head1, tail, QUEUE_LENGTH) = n + 1
            /\ n > 0 => CIRC_CNT(head, tail1, QUEUE_LENGTH) = n - 1
            /\ \A i \in 1..n : Slot(i) \in Slots /\ Slot(i) # head
            /\ Slot(n + 1) = head
            /\ Slot(1) = tail
            /\ \A i \in 1..(n - 1) : Slot(i + 1) # tail
            /\ \A i \in 1..n : (tail1 + i - 1) % QUEUE_LENGTH = Slot(i + 1)
<1> DEFINE n == CIRC_CNT(head, tail, QUEUE_LENGTH)
           head1 == (head + 1) % QUEUE_LENGTH
           tail1 == (tail + 1) % QUEUE_LENGTH
<1>1. /\ QUEUE_LENGTH \in Nat \ {0, 1} /\ head \in 0..(QUEUE_LENGTH - 1)
      /\ tail \in 0..(QUEUE_LENGTH - 1) /\ head \in 0..QUEUE_LENGTH /\ tail \in 0..QUEUE_LENGTH
      /\ QUEUE_LENGTH \in Nat \ {0}
  BY EthAssumption DEF EthType, TypeOK, Slots
<1>2. n \in 0..(QUEUE_LENGTH - 1)
  BY <1>1, RingCount DEF Slots
<1>3. n = IF head >= tail THEN head - tail ELSE head + QUEUE_LENGTH - tail
  BY <1>1, RingCount DEF Slots
<1>4. CIRC_SPACE(head, tail, QUEUE_LENGTH) = QUEUE_LENGTH - 1 - n
  <2>1. CIRC_SPACE(head, tail, QUEUE_LENGTH) = (tail - (head + 1)) % QUEUE_LENGTH
    BY DEF CIRC_SPACE, CIRC_CNT
  <2>2. (tail - (head + 1)) % QUEUE_LENGTH =
          IF tail > head THEN tail - (head + 1) ELSE tail - (head + 1) + QUEUE_LENGTH
    BY <1>1
  <2> HIDE DEF n
  <2> QED BY <1>1, <1>3, <2>1, <2>2
<1>5. /\ head1 = IF head + 1 = QUEUE_LENGTH THEN 0 ELSE head + 1
      /\ tail1 = IF tail + 1 = QUEUE_LENGTH THEN 0 ELSE tail + 1
  BY <1>1
<1>6. head1 \in 0..(QUEUE_LENGTH - 1) /\ tail1 \in 0..(QUEUE_LENGTH - 1)
  BY <1>1, <1>5
<1>7. n < QUEUE_LENGTH - 1 => CIRC_CNT(head1, tail, QUEUE_LENGTH) = n + 1
  <2>1. CIRC_CNT(head1, tail, QUEUE_LENGTH) =
          IF head1 >= tail THEN head1 - tail ELSE head1 + QUEUE_LENGTH - tail
    BY <1>1, <1>6, RingCount DEF Slots
  <2> HIDE DEF n, head1
  <2> QED BY <1>1, <1>3, <1>5, <2>1
<1>8. n > 0 => CIRC_CNT(head, tail1, QUEUE_LENGTH) = n - 1
  <2>1. CIRC_CNT(head, tail1, QUEUE_LENGTH) =
          IF head >= tail1 THEN head - tail1 ELSE head + QUEUE_LENGTH - tail1
    BY <1>1, <1>6, RingCount DEF Slots
  <2> HIDE DEF n, tail1
  <2> QED BY <1>1, <1>3, <1>5, <2>1
<1>9. /\ \A i \in 1..n : Slot(i) \in Slots /\ Slot(i) # head
      /\ Slot(n + 1) = head /\ Slot(1) = tail
  <2> HIDE DEF n
  <2>0. \A i \in 1..QUEUE_LENGTH :
          Slot(i) = IF tail + i - 1 < QUEUE_LENGTH THEN tail + i - 1 ELSE tail + i - 1 - QUEUE_LENGTH
    BY <1>1 DEF Slot
  <2>1. \A i \in 1..QUEUE_LENGTH : Slot(i) \in Slots
    BY <1>1, <2>0 DEF Slots
  <2>2. \A i \in 1..n : Slot(i) # head
    BY <1>1, <1>2, <1>3, <2>0
  <2>3. (tail + n) % QUEUE_LENGTH = head
    BY <1>1, <1>2, <1>3
  <2>4. tail + (n + 1) - 1 = tail + n /\ tail + 1 - 1 = tail /\ tail % QUEUE_LENGTH = tail
    BY <1>1, <1>2
  <2>5. \A i \in 1..n : i \in 1..QUEUE_LENGTH
    BY <1>1, <1>2
  <2>6. Slot(n + 1) = head /\ Slot(1) = tail
    BY <2>3, <2>4 DEF Slot
  <2> QED BY <2>1, <2>2, <2>5, <2>6
<1>10. ASSUME NEW i \in 1..n
       PROVE  Slot(i + 1) = (IF tail + i < QUEUE_LENGTH THEN tail + i ELSE tail + i - QUEUE_LENGTH)
  <2>1. i \in 1..(QUEUE_LENGTH - 1) /\ tail + (i + 1) - 1 = tail + i
    BY <1>1, <1>2
  <2> QED BY <1>1, <2>1 DEF Slot
<1>11. ASSUME NEW i \in 1..n
       PROVE  (tail1 + i - 1) % QUEUE_LENGTH = Slot(i + 1) /\ Slot(i + 1) # tail
  <2>1. i \in 1..(QUEUE_LENGTH - 1)
    BY <1>1, <1>2
  <2>2. tail1 + i - 1 \in 0..(2 * QUEUE_LENGTH) /\
        tail1 + i - 1 = (IF tail + 1 = QUEUE_LENGTH THEN i - 1 ELSE tail + i)
    BY <1>1, <1>5, <2>1
  <2>3. (tail1 + i - 1) % QUEUE_LENGTH =
          (IF tail + i < QUEUE_LENGTH THEN tail + i ELSE tail + i - QUEUE_LENGTH)
    BY <1>1, <2>1, <2>2
  <2> QED BY <1>1, <1>10, <2>1, <2>3
<1>12. n > 0 => head # tail
  BY <1>1, <1>3
<1> QED BY <1>1, <1>2, <1>4, <1>6, <1>7, <1>8, <1>9, <1>11, <1>12 DEF Slots

(* The receive thread has nothing to do with what is sent.                 *)
LEMMA RecvLeavesRing ==
  ASSUME EthInv, RecvThread
  PROVE  UNCHANGED <<queue_vars, gpio_vars>> /\ pc'["send"] = pc["send"]
<1>1. UNCHANGED <<queue_vars, gpio_vars>>
  BY DEF RecvThread, RecvLoop, RecvForget, RecvLost, RecvReconnect, RecvExit, RecvPacket,
     TryConnect, TryCreate, TryTimeout, TryAnswered, TryDone, conn_vars
<1>2. \E s : Goto("recv", s)
  BY DEF RecvThread, RecvLoop, RecvForget, RecvLost, RecvReconnect, RecvExit, RecvPacket,
     TryConnect, TryCreate, TryTimeout, TryAnswered, TryDone, Failed
<1>3. EthType
  BY DEF EthInv
<1> QED BY <1>1, <1>2, <1>3, Moves

(* Filling a slot, or dropping the message of a full ring, by any caller.  *)
LEMMA QueueMsgKept ==
  ASSUME EthInv, NEW op \in DOMAIN Command, QueueMsg(op), pc'["send"] = pc["send"],
         op # "gpio" => gpio_value' = gpio_value, UNCHANGED <<gpio_read, board_gpio>>
  PROVE  /\ RingKept' /\ LedsKept'
         /\ UNCHANGED <<head, tail, pending>>
         /\ filling' \in BOOLEAN /\ gpio_lost' \in BOOLEAN
         /\ entries' \in [Slots -> {3, 4, 5, 6, 7, NULL}]
<1>0. EthType /\ RingKept /\ LedsKept /\ ~filling /\ UNCHANGED <<head, tail, pending>>
  BY DEF EthInv, QueueMsg
<1>1. /\ head \in Slots /\ tail \in Slots /\ entries \in [Slots -> {3, 4, 5, 6, 7, NULL}]
      /\ filling \in BOOLEAN /\ gpio_lost \in BOOLEAN /\ pending \in Seq(Commands)
  BY <1>0 DEF EthType, TypeOK
<1>2. /\ Command[op] \in Commands /\ Command[op] \in {3, 4, 5, 6, 7, NULL}
      /\ Command["gpio"] = 3 /\ (op # "gpio" => Command[op] # 3)
  BY DEF Command, Commands
<1>3. DOMAIN pending = 1..CIRC_CNT(head, tail, QUEUE_LENGTH)
  BY <1>0, <1>1, LenProperties DEF RingKept, QueueInOrder
<1>4. Unread' = Unread
  BY <1>0 DEF Unread
<1>5. GpioQueued' = GpioQueued
  BY <1>4 DEF GpioQueued
<1>6. CASE CIRC_SPACE(head, tail, QUEUE_LENGTH) >= 1
  <2>1. entries' = [entries EXCEPT ![head] = Command[op]] /\ filling' = TRUE /\ UNCHANGED gpio_lost
    BY <1>6 DEF QueueMsg
  <2>2. /\ entries' \in [Slots -> {3, 4, 5, 6, 7, NULL}] /\ entries'[head] = Command[op]
        /\ \A j \in Slots : j # head => entries'[j] = entries[j]
    BY <1>1, <1>2, <2>1
  <2>3. CIRC_CNT(head, tail, QUEUE_LENGTH) < QUEUE_LENGTH - 1
    BY <1>0, <1>6, RingArithmetic
  <2>4. \A i \in DOMAIN pending : Slot(i) \in Slots /\ Slot(i) # head
    BY <1>0, <1>3, RingArithmetic
  <2>5. \A i \in DOMAIN pending : entries'[Slot(i)] = pending[i]
    BY <1>0, <2>2, <2>4 DEF RingKept, QueueInOrder, Slot
  <2>6. RingKept'
    BY <1>0, <1>2, <2>2, <2>3, <2>5 DEF RingKept, QueueInOrder, Slot
  <2>7. pc["send"] \in {"sending", "sent"} => head # tail
    <3>1. SUFFICES ASSUME pc["send"] \in {"sending", "sent"} PROVE head # tail
      OBVIOUS
    <3>2. pending # <<>>
      BY <1>0, <3>1 DEF RingKept
    <3>3. Len(pending) # 0 /\ Len(pending) \in Nat
      BY <1>1, <3>2, EmptySeq
    <3>4. CIRC_CNT(head, tail, QUEUE_LENGTH) > 0
      BY <1>0, <3>3 DEF RingKept, QueueInOrder
    <3> QED BY <1>0, <3>4, RingArithmetic
  <2>8. pc["send"] \in {"sending", "sent"} => entries'[tail] = entries[tail]
    BY <1>1, <2>2, <2>7
  <2>9. LedsKept'
    <3>1. CASE op = "gpio"
      BY <1>0, <2>1, <2>2, <3>1 DEF LedsKept, LedsFollow
    <3>2. CASE op # "gpio"
      BY <1>0, <1>5, <2>1, <2>8, <3>2 DEF LedsKept, LedsFollow
    <3> QED BY <3>1, <3>2
  <2>10. filling' \in BOOLEAN /\ gpio_lost' \in BOOLEAN
    BY <1>1, <2>1
  <2> QED BY <1>0, <2>2, <2>6, <2>9, <2>10
<1>7. CASE ~(CIRC_SPACE(head, tail, QUEUE_LENGTH) >= 1)
  <2>1. /\ gpio_lost' = (gpio_lost \/ (op = "gpio" /\ ~GpioQueued))
        /\ entries' = entries /\ filling' = filling
    BY <1>7 DEF QueueMsg
  <2>2. gpio_lost' \in BOOLEAN
    BY <2>1, Zenon
  <2>3. gpio_lost' <=> gpio_lost \/ (op = "gpio" /\ ~GpioQueued)
    BY <2>1, Zenon
  <2>4. RingKept'
    BY <1>0, <2>1 DEF RingKept, QueueInOrder
  <2>5. LedsKept'
    <3>1. CASE op = "gpio"
      BY <1>5, <2>3, <3>1 DEF LedsKept, LedsFollow
    <3>2. CASE op # "gpio"
      BY <1>0, <1>5, <2>1, <2>3, <3>2 DEF LedsKept, LedsFollow
    <3> QED BY <3>1, <3>2
  <2>6. entries' \in [Slots -> {3, 4, 5, 6, 7, NULL}] /\ filling' \in BOOLEAN
    BY <1>1, <2>1
  <2> QED BY <1>0, <2>2, <2>4, <2>5, <2>6
<1> QED BY <1>6, <1>7

(* The slot that was filled becomes the last message that waits.           *)
LEMMA PublishKept ==
  ASSUME EthInv, QueuePublish
  PROVE  EthInv'
<1>0. /\ EthType /\ RingKept /\ LedsKept /\ ThreadsKnown /\ SocketsKnown /\ filling
      /\ head' = (head + 1) % QUEUE_LENGTH /\ pending' = Append(pending, entries[head])
      /\ filling' = FALSE
      /\ UNCHANGED <<thread_vars, conn_vars, gpio_vars, entries, tail>>
  BY DEF EthInv, QueuePublish
<1>1. /\ head \in Slots /\ tail \in Slots /\ entries \in [Slots -> {3, 4, 5, 6, 7, NULL}]
      /\ pending \in Seq(Commands)
  BY <1>0 DEF EthType, TypeOK
<1>2. /\ CIRC_CNT(head, tail, QUEUE_LENGTH) < QUEUE_LENGTH - 1 /\ entries[head] \in Commands
      /\ Len(pending) = CIRC_CNT(head, tail, QUEUE_LENGTH)
      /\ \A i \in DOMAIN pending : entries[Slot(i)] = pending[i]
  BY <1>0 DEF RingKept, QueueInOrder, Slot
<1>3. /\ head' \in Slots /\ Slot(Len(pending) + 1) = head
      /\ CIRC_CNT(head', tail, QUEUE_LENGTH) = Len(pending) + 1
  BY <1>0, <1>2, RingArithmetic
<1>4. /\ pending' \in Seq(Commands) /\ Len(pending') = Len(pending) + 1
      /\ DOMAIN pending' = 1..(Len(pending) + 1) /\ DOMAIN pending = 1..Len(pending)
      /\ \A i \in 1..Len(pending) : pending'[i] = pending[i]
      /\ pending'[Len(pending) + 1] = entries[head] /\ Len(pending) \in Nat
      /\ pending' # <<>>
  BY <1>0, <1>1, <1>2, AppendProperties, LenProperties
<1>5. RingKept'
  <2>1. \A i \in DOMAIN pending' : entries[Slot(i)] = pending'[i]
    <3>1. SUFFICES ASSUME NEW i \in DOMAIN pending' PROVE entries[Slot(i)] = pending'[i]
      OBVIOUS
    <3>2. CASE i = Len(pending) + 1
      BY <1>3, <1>4, <3>2
    <3>3. CASE i \in DOMAIN pending
      BY <1>2, <1>4, <3>3
    <3> QED BY <1>4, <3>2, <3>3
  <2>2. QueueInOrder'
    BY <1>0, <1>3, <1>4, <2>1 DEF QueueInOrder, Slot
  <2> QED BY <1>0, <1>4, <2>2 DEF RingKept, thread_vars
<1>6. EthType'
  BY <1>0, <1>3, <1>4 DEF EthType, TypeOK, thread_vars, conn_vars, gpio_vars
<1>7. ThreadsKnown' /\ SocketsKnown'
  BY <1>0 DEF ThreadsKnown, SocketsKnown, thread_vars, conn_vars
<1>8. (GpioQueued \/ entries[head] = Command["gpio"]) => GpioQueued'
  <2>1. CASE pc["send"] \in {"sending", "sent"}
    <3>1. pending # <<>>
      BY <1>0, <2>1 DEF RingKept
    <3>2. Len(pending) # 0
      BY <1>1, <3>1, EmptySeq
    <3>3. Unread = Tail(pending) /\ Unread' = Tail(pending')
      BY <1>0, <2>1 DEF Unread, thread_vars
    <3>4. /\ DOMAIN Tail(pending) = 1..(Len(pending) - 1) /\ DOMAIN Tail(pending') = 1..Len(pending)
          /\ \A i \in 1..(Len(pending) - 1) : Tail(pending)[i] = pending[i + 1]
          /\ \A i \in 1..Len(pending) : Tail(pending')[i] = pending'[i + 1]
      BY <1>1, <1>4, <3>1, HeadTailProperties, LenProperties
    <3>5. ASSUME GpioQueued PROVE GpioQueued'
      <4>1. PICK i \in 1..(Len(pending) - 1) : pending[i + 1] = Command["gpio"]
        BY <3>3, <3>4, <3>5 DEF GpioQueued
      <4>2. i \in 1..Len(pending) /\ i + 1 \in 1..Len(pending)
        BY <1>4
      <4>3. pending'[i + 1] = Command["gpio"]
        BY <1>4, <4>1, <4>2
      <4> QED BY <3>3, <3>4, <4>2, <4>3 DEF GpioQueued, Command
    <3>6. ASSUME entries[head] = Command["gpio"] PROVE GpioQueued'
      <4>1. Len(pending) \in 1..Len(pending)
        BY <1>4, <3>2
      <4> QED BY <1>4, <3>3, <3>4, <3>6, <4>1 DEF GpioQueued, Command
    <3> QED BY <3>5, <3>6
  <2>2. CASE pc["send"] \notin {"sending", "sent"}
    <3>1. Unread = pending /\ Unread' = pending'
      BY <1>0, <2>2 DEF Unread, thread_vars
    <3>2. \A i \in 1..Len(pending) : i \in 1..(Len(pending) + 1)
      BY <1>4
    <3>3. Len(pending) + 1 \in 1..(Len(pending) + 1)
      BY <1>4
    <3> QED BY <1>4, <3>1, <3>2, <3>3 DEF GpioQueued, Command
  <2> QED BY <2>1, <2>2
<1>9. LedsKept'
  BY <1>0, <1>8 DEF LedsKept, LedsFollow, thread_vars, gpio_vars, Command
<1> QED BY <1>5, <1>6, <1>7, <1>9 DEF EthInv

(* The calls of the raw UART and of the GPIO chip, and the reset that ends *)
(* hb_rf_eth_connect().                                                    *)
LEMMA CallsKept ==
  ASSUME EthInv, \/ \E op \in Ops : DriverCall(op)
                 \/ \E value \in {0, 1} : GpioSet(value)
                 \/ SendReset
  PROVE  EthInv'
<1>0. EthType /\ TypeOK /\ ThreadsKnown /\ SocketsKnown
  BY DEF EthInv, EthType
<1>1. PICK op \in DOMAIN Command :
        /\ QueueMsg(op) /\ (op # "gpio" => gpio_value' = gpio_value)
        /\ gpio_value' \in {0, 1} /\ UNCHANGED <<gpio_read, board_gpio>>
  <2>1. "gpio" \in DOMAIN Command /\ "reset" \in DOMAIN Command /\ Ops \subseteq DOMAIN Command
    BY EthAssumption DEF Command
  <2>2. gpio_value \in {0, 1}
    BY <1>0 DEF TypeOK
  <2> QED BY <2>1, <2>2 DEF DriverCall, GpioSet, SendReset
<1>2. /\ pc'["send"] = pc["send"] /\ ThreadsKnown' /\ SocketsKnown'
      /\ pc' \in [admin: AdminStates, recv: RecvStates, send: SendStates]
      /\ UNCHANGED <<should_stop, k_thread, after, conn_vars>>
      /\ after \in {"down", "create", "unloaded"}
  <2>0. /\ after \in {"down", "create", "unloaded"}
        /\ pc \in [admin: AdminStates, recv: RecvStates, send: SendStates]
    BY <1>0 DEF EthType
  <2>1. CASE SendReset
    <3>1. pc["admin"] = "reset" /\ Goto("admin", "up") /\ UNCHANGED <<should_stop, k_thread, after, conn_vars>>
      BY <2>1 DEF SendReset
    <3>2. /\ pc'["admin"] = "up" /\ pc'["recv"] = pc["recv"] /\ pc'["send"] = pc["send"]
          /\ pc' \in [admin: AdminStates, recv: RecvStates, send: SendStates]
      BY <1>0, <3>1, Moves DEF AdminStates
    <3> QED BY <1>0, <2>0, <3>1, <3>2 DEF ThreadsKnown, SocketsKnown, conn_vars
  <2>2. CASE ~SendReset
    <3>1. UNCHANGED <<thread_vars, conn_vars>>
      BY <2>2 DEF DriverCall, GpioSet
    <3> QED BY <1>0, <2>0, <3>1 DEF ThreadsKnown, SocketsKnown, thread_vars, conn_vars
  <2> QED BY <2>1, <2>2
<1>3. /\ RingKept' /\ LedsKept' /\ UNCHANGED <<head, tail, pending>>
      /\ filling' \in BOOLEAN /\ gpio_lost' \in BOOLEAN
      /\ entries' \in [Slots -> {3, 4, 5, 6, 7, NULL}]
  BY <1>1, <1>2, QueueMsgKept
<1>4. EthType'
  BY <1>0, <1>1, <1>2, <1>3 DEF EthType, TypeOK, conn_vars
<1> QED BY <1>2, <1>3, <1>4 DEF EthInv

-----------------------------------------------------------------------------
(* The send thread.  Who runs and who has which socket.                    *)
LEMMA SendLife ==
  ASSUME EthInv, SendThread
  PROVE  /\ ThreadsKnown' /\ SocketsKnown'
         /\ pc' \in [admin: AdminStates, recv: RecvStates, send: SendStates]
         /\ held' \in [{"admin", "recv", "send"} -> Sockets \cup {NULL}]
         /\ UNCHANGED <<should_stop, k_thread, after, _sock, live, connection_state>>
         /\ pc["send"] # "none"
<1>0. EthType /\ TypeOK /\ ThreadsKnown /\ SocketsKnown
  BY DEF EthInv, EthType
<1>1. UNCHANGED <<should_stop, k_thread, after, _sock, live, connection_state>> /\ pc["send"] # "none"
  BY DEF SendThread, SendLoop, SendMsg, SendAdvance, SendKeepAlive, conn_vars
<1>2. /\ _sock \in Sockets \cup {NULL} /\ NULL \in Sockets \cup {NULL}
      /\ held \in [{"admin", "recv", "send"} -> Sockets \cup {NULL}]
  BY <1>0 DEF TypeOK
<1>3. PICK s \in SendStates :
        /\ Goto("send", s)
        /\ s = "none" => should_stop["send"] /\ pc["send"] = "loop"
        /\ \/ UNCHANGED held /\ pc["send"] \notin {"sending", "keepalive_sending"}
           \/ Hold("send", NULL)
           \/ Hold("send", _sock) /\ s \in {"sending", "keepalive_sending"}
  BY DEF SendThread, SendLoop, SendMsg, SendAdvance, SendKeepAlive, conn_vars, SendStates
<1>4. /\ pc' \in [admin: AdminStates, recv: RecvStates, send: SendStates]
      /\ pc'["send"] = s /\ pc'["admin"] = pc["admin"] /\ pc'["recv"] = pc["recv"]
  BY <1>0, <1>3, Moves
<1>5. /\ held' \in [{"admin", "recv", "send"} -> Sockets \cup {NULL}]
      /\ held'["admin"] = held["admin"] /\ held'["recv"] = held["recv"]
      /\ \/ held'["send"] = NULL
         \/ held'["send"] = _sock /\ s \in {"sending", "keepalive_sending"}
  <2>1. CASE UNCHANGED held /\ pc["send"] \notin {"sending", "keepalive_sending"}
    BY <1>0, <1>2, <2>1 DEF SocketsKnown
  <2>2. CASE Hold("send", NULL)
    BY <1>0, <1>2, <2>2, Holds
  <2>3. CASE Hold("send", _sock) /\ s \in {"sending", "keepalive_sending"}
    BY <1>0, <1>2, <2>3, Holds
  <2> QED BY <1>3, <2>1, <2>2, <2>3
<1>6. ThreadsKnown'
  BY <1>0, <1>1, <1>3, <1>4 DEF ThreadsKnown
<1>7. SocketsKnown'
  BY <1>0, <1>1, <1>4, <1>5 DEF SocketsKnown
<1> QED BY <1>1, <1>4, <1>5, <1>6, <1>7

(* Taking a message, sending it, giving its slot back.                     *)
LEMMA SendKept ==
  ASSUME EthInv, SendThread
  PROVE  EthInv'
<1>0. EthType /\ TypeOK /\ RingKept /\ LedsKept
  BY DEF EthInv, EthType
<1>1. /\ ThreadsKnown' /\ SocketsKnown'
      /\ pc' \in [admin: AdminStates, recv: RecvStates, send: SendStates]
      /\ held' \in [{"admin", "recv", "send"} -> Sockets \cup {NULL}]
      /\ UNCHANGED <<should_stop, k_thread, after, _sock, live, connection_state>>
  BY SendLife
<1>2. /\ head \in Slots /\ tail \in Slots /\ entries \in [Slots -> {3, 4, 5, 6, 7, NULL}]
      /\ pending \in Seq(Commands) /\ gpio_value \in {0, 1} /\ gpio_read \in {0, 1}
      /\ board_gpio \in {0, 1} /\ 0 \in {0, 1} /\ gpio_lost \in BOOLEAN
      /\ filling \in BOOLEAN
  BY <1>0 DEF EthType, TypeOK
<1>3. /\ Len(pending) = CIRC_CNT(head, tail, QUEUE_LENGTH) /\ Len(pending) \in Nat
      /\ DOMAIN pending = 1..Len(pending)
      /\ \A i \in DOMAIN pending : entries[Slot(i)] = pending[i]
  BY <1>0, <1>2, LenProperties DEF RingKept, QueueInOrder, Slot
<1>4. pending # <<>> => /\ Tail(pending) \in Seq(Commands) /\ Len(pending) >= 1
                        /\ Len(Tail(pending)) = Len(pending) - 1
                        /\ DOMAIN Tail(pending) = 1..(Len(pending) - 1)
                        /\ \A i \in 1..(Len(pending) - 1) : Tail(pending)[i] = pending[i + 1]
                        /\ entries[tail] = pending[1]
  <2>1. SUFFICES ASSUME pending # <<>>
        PROVE  /\ Tail(pending) \in Seq(Commands) /\ Len(pending) >= 1
               /\ Len(Tail(pending)) = Len(pending) - 1
               /\ DOMAIN Tail(pending) = 1..(Len(pending) - 1)
               /\ \A i \in 1..(Len(pending) - 1) : Tail(pending)[i] = pending[i + 1]
               /\ entries[tail] = pending[1]
    OBVIOUS
  <2>2. Len(pending) # 0
    BY <1>2, <2>1, EmptySeq
  <2>3. Len(pending) >= 1 /\ 1 \in DOMAIN pending
    BY <1>3, <2>2
  <2>4. /\ Tail(pending) \in Seq(Commands) /\ Len(Tail(pending)) = Len(pending) - 1
        /\ \A i \in 1..(Len(pending) - 1) : Tail(pending)[i] = pending[i + 1]
    BY <1>2, <2>1, HeadTailProperties
  <2>5. DOMAIN Tail(pending) = 1..(Len(pending) - 1)
    BY <2>4, LenProperties
  <2>6. Slot(1) = tail
    BY <1>0, RingArithmetic
  <2> QED BY <1>3, <2>3, <2>4, <2>5, <2>6
<1>5. pc["send"] \in {"sending", "sent"} => pending # <<>>
  BY <1>0 DEF RingKept
<1>6. ASSUME NEW s, Goto("send", s) PROVE pc'["send"] = s
  BY <1>0, <1>6, Moves
<1>7. ASSUME UNCHANGED <<queue_vars, gpio_vars>>,
             pc["send"] \notin {"sending", "sent"}, pc'["send"] \notin {"sending", "sent"}
      PROVE  EthInv'
  <2>1. RingKept' /\ LedsKept'
    BY <1>7, RestKept
  <2>2. EthType'
    BY <1>0, <1>1, <1>7 DEF EthType, TypeOK, queue_vars, gpio_vars
  <2> QED BY <1>1, <2>1, <2>2 DEF EthInv
<1>8. CASE SendLoop
  <2>0. /\ pc["send"] = "loop" /\ UNCHANGED queue_vars
        /\ UNCHANGED <<gpio_value, board_gpio, gpio_lost>>
    BY <1>8 DEF SendLoop
  <2>1. CASE should_stop["send"] \/ CIRC_CNT(head, tail, QUEUE_LENGTH) = 0
    <3>1. /\ Goto("send", "none") \/ Goto("send", "keepalive")
          /\ UNCHANGED <<queue_vars, gpio_vars>>
      BY <1>8, <2>1 DEF SendLoop, gpio_vars
    <3>2. pc'["send"] \notin {"sending", "sent"}
      BY <3>1, <1>6
    <3> QED BY <2>0, <3>1, <3>2, <1>7
  <2>2. CASE ~should_stop["send"] /\ CIRC_CNT(head, tail, QUEUE_LENGTH) # 0
    <3>1. /\ gpio_read' = (IF entries[tail] = Command["gpio"] THEN gpio_value ELSE gpio_read)
          /\ Goto("send", "sending")
      BY <1>8, <2>2 DEF SendLoop
    <3>2. pc'["send"] = "sending" /\ pending # <<>>
      BY <1>2, <1>3, <2>2, <3>1, <1>6, EmptySeq
    <3>3. RingKept'
      BY <1>0, <2>0, <3>2 DEF RingKept, QueueInOrder, queue_vars
    <3>4. Unread = pending /\ Unread' = Tail(pending)
      BY <2>0, <3>2 DEF Unread, queue_vars
    <3>5. GpioQueued => GpioQueued' \/ entries[tail] = Command["gpio"]
      <4>1. SUFFICES ASSUME NEW i \in DOMAIN pending, pending[i] = Command["gpio"], i # 1
            PROVE  GpioQueued'
        BY <1>4, <3>2, <3>4 DEF GpioQueued
      <4>2. i - 1 \in 1..(Len(pending) - 1) /\ (i - 1) + 1 = i
        BY <1>3, <4>1
      <4>3. Tail(pending)[i - 1] = Command["gpio"]
        BY <1>4, <3>2, <4>1, <4>2
      <4> QED BY <1>4, <3>2, <3>4, <4>2, <4>3 DEF GpioQueued, Command
    <3>6. LedsKept'
      BY <1>0, <2>0, <3>1, <3>2, <3>5 DEF LedsKept, LedsFollow, queue_vars
    <3>7. EthType'
      BY <1>0, <1>1, <1>2, <2>0, <3>1 DEF EthType, TypeOK, queue_vars
    <3> QED BY <1>1, <3>3, <3>6, <3>7 DEF EthInv
  <2> QED BY <2>1, <2>2
<1>9. CASE SendMsg
  <2>0. /\ pc["send"] = "sending" /\ UNCHANGED queue_vars /\ UNCHANGED gpio_value
        /\ gpio_read' = 0 /\ Goto("send", "sent")
    BY <1>9 DEF SendMsg
  <2>1. pc'["send"] = "sent" /\ pending # <<>>
    BY <1>5, <1>6, <2>0
  <2>2. RingKept'
    BY <1>0, <2>0, <2>1 DEF RingKept, QueueInOrder, queue_vars
  <2>3. Unread' = Unread
    BY <2>0, <2>1 DEF Unread, queue_vars
  <2>4. GpioQueued' = GpioQueued
    BY <2>3 DEF GpioQueued
  <2>5. board_gpio' \in {0, 1}
    BY <1>2, <1>9 DEF SendMsg
  <2>6. gpio_lost' \in BOOLEAN
    <3>1. \/ gpio_lost' = (gpio_lost /\ gpio_read # gpio_value)
          \/ gpio_lost' = (gpio_lost \/ ~GpioQueued)
          \/ gpio_lost' = gpio_lost
      BY <1>9, Zenon DEF SendMsg
    <3> QED BY <1>2, <3>1, Zenon
  <2>7. EthType'
    BY <1>0, <1>1, <1>2, <2>0, <2>5, <2>6 DEF EthType, TypeOK, queue_vars
  <2>8. LedsKept'
    <3>1. CASE entries[tail] # Command["gpio"]
      <4>1. UNCHANGED <<gpio_lost, board_gpio>>
        BY <1>9, <3>1 DEF SendMsg
      <4> QED BY <1>0, <2>0, <2>1, <2>4, <3>1, <4>1 DEF LedsKept, LedsFollow, queue_vars
    <3>2. CASE /\ entries[tail] = Command["gpio"] /\ board_gpio' = gpio_read
               /\ gpio_lost' = (gpio_lost /\ gpio_read # gpio_value)
      <4>1. gpio_lost' <=> gpio_lost /\ gpio_read # gpio_value
        BY <3>2, Zenon
      <4>2. board_gpio' = gpio_read
        BY <3>2
      <4> QED BY <1>0, <2>0, <2>1, <2>4, <3>2, <4>1, <4>2 DEF LedsKept, LedsFollow, queue_vars
    <3>3. CASE gpio_lost' = (gpio_lost \/ ~GpioQueued)
      <4>1. gpio_lost' <=> gpio_lost \/ ~GpioQueued
        BY <3>3, Zenon
      <4> QED BY <2>0, <2>1, <2>4, <4>1 DEF LedsKept, LedsFollow
    <3> QED BY <1>9, <3>1, <3>2, <3>3 DEF SendMsg
  <2> QED BY <1>1, <2>2, <2>7, <2>8 DEF EthInv
<1>10. CASE SendAdvance
  <2>0. /\ pc["send"] = "sent" /\ tail' = (tail + 1) % QUEUE_LENGTH
        /\ entries' = [entries EXCEPT ![tail] = NULL] /\ pending' = Tail(pending)
        /\ Goto("send", "keepalive") /\ UNCHANGED <<filling, head, gpio_vars>>
    BY <1>10 DEF SendAdvance
  <2>1. pc'["send"] = "keepalive" /\ pending # <<>>
    BY <1>5, <1>6, <2>0
  <2>2. CIRC_CNT(head, tail, QUEUE_LENGTH) > 0
    BY <1>3, <1>4, <2>1
  <2>3. /\ tail' \in Slots /\ head # tail
        /\ CIRC_CNT(head, tail', QUEUE_LENGTH) = CIRC_CNT(head, tail, QUEUE_LENGTH) - 1
        /\ \A i \in 1..Len(pending) : (tail' + i - 1) % QUEUE_LENGTH = Slot(i + 1)
        /\ \A i \in 1..Len(pending) : Slot(i) \in Slots
        /\ \A i \in 1..(Len(pending) - 1) : Slot(i + 1) # tail
    BY <1>0, <1>3, <2>0, <2>2, RingArithmetic
  <2>4. /\ entries' \in [Slots -> {3, 4, 5, 6, 7, NULL}]
        /\ \A j \in Slots : j # tail => entries'[j] = entries[j]
    BY <1>2, <2>0
  <2>5. \A i \in DOMAIN pending' : entries'[(tail' + i - 1) % QUEUE_LENGTH] = pending'[i]
    <3>1. SUFFICES ASSUME NEW i \in 1..(Len(pending) - 1)
          PROVE  entries'[(tail' + i - 1) % QUEUE_LENGTH] = pending[i + 1]
      BY <1>4, <2>0, <2>1
    <3>2. i \in 1..Len(pending) /\ i + 1 \in 1..Len(pending)
      BY <1>3
    <3>3. (tail' + i - 1) % QUEUE_LENGTH = Slot(i + 1) /\ Slot(i + 1) \in Slots /\ Slot(i + 1) # tail
      BY <2>3, <3>1, <3>2
    <3>4. entries'[Slot(i + 1)] = entries[Slot(i + 1)]
      BY <2>4, <3>3
    <3> QED BY <1>3, <3>2, <3>3, <3>4
  <2>6. Len(pending') = CIRC_CNT(head', tail', QUEUE_LENGTH)
    BY <1>3, <1>4, <2>0, <2>1, <2>3
  <2>7. entries'[head] = entries[head]
    BY <1>2, <2>3, <2>4
  <2>8. RingKept'
    <3>1. CIRC_CNT(head', tail', QUEUE_LENGTH) < CIRC_CNT(head, tail, QUEUE_LENGTH)
      BY <1>3, <2>0, <2>3
    <3>2. filling => /\ CIRC_CNT(head', tail', QUEUE_LENGTH) < QUEUE_LENGTH - 1
                     /\ entries'[head'] \in Commands
      <4>1. filling => /\ CIRC_CNT(head, tail, QUEUE_LENGTH) < QUEUE_LENGTH - 1
                       /\ entries[head] \in Commands
        BY <1>0 DEF RingKept
      <4>2. /\ CIRC_CNT(head, tail, QUEUE_LENGTH) \in Int /\ QUEUE_LENGTH \in Int
            /\ CIRC_CNT(head', tail', QUEUE_LENGTH) \in Int
        BY <1>3, <2>0, <2>3, EthAssumption
      <4> QED BY <2>0, <2>7, <3>1, <4>1, <4>2
    <3> QED BY <2>0, <2>1, <2>5, <2>6, <3>2 DEF RingKept, QueueInOrder
  <2>9. Unread' = Unread
    BY <2>0, <2>1 DEF Unread
  <2>10. GpioQueued' = GpioQueued
    BY <2>9 DEF GpioQueued
  <2>11. LedsKept'
    BY <1>0, <2>0, <2>1, <2>7, <2>10 DEF LedsKept, LedsFollow, gpio_vars
  <2>12. EthType'
    BY <1>0, <1>1, <1>2, <1>4, <2>0, <2>1, <2>3, <2>4 DEF EthType, TypeOK, gpio_vars
  <2> QED BY <1>1, <2>8, <2>11, <2>12 DEF EthInv
<1>11. CASE SendKeepAlive
  <2>1. /\ pc["send"] \in {"keepalive", "keepalive_sending"} /\ UNCHANGED <<queue_vars, gpio_vars>>
        /\ Goto("send", "loop") \/ Goto("send", "keepalive_sending")
    BY <1>11 DEF SendKeepAlive
  <2>2. pc'["send"] \notin {"sending", "sent"}
    BY <2>1, <1>6
  <2> QED BY <2>1, <2>2, <1>7
<1> QED BY <1>8, <1>9, <1>10, <1>11 DEF SendThread

-----------------------------------------------------------------------------
(* Every step keeps the invariant.                                         *)
LEMMA EthInvStep == EthInv /\ [Next]_vars => EthInv'
<1> SUFFICES ASSUME EthInv, [Next]_vars PROVE EthInv'
  OBVIOUS
<1>1. CASE \/ \E op \in Ops : DriverCall(op)
           \/ \E value \in {0, 1} : GpioSet(value)
           \/ SendReset
  BY <1>1, CallsKept
<1>2. CASE QueuePublish
  BY <1>2, PublishKept
<1>3. CASE SendThread
  BY <1>3, SendKept
<1>4. CASE RecvThread
  BY <1>4, RecvSteps, RecvLeavesRing, RestKept DEF EthInv, Life
<1>5. CASE (Admin /\ ~SendReset) \/ \E then \in {"down", "create", "unloaded"} : Disconnect(then)
  <2>1. /\ Life' /\ UNCHANGED <<queue_vars, gpio_vars>>
        /\ \/ pc'["send"] = pc["send"]
           \/ pc["send"] \notin {"sending", "sent"} /\ pc'["send"] \notin {"sending", "sent"}
    BY <1>5, AdminSteps
  <2> QED BY <2>1, RestKept DEF EthInv, Life
<1>6. CASE UNCHANGED vars
  <2>1. UNCHANGED <<queue_vars, gpio_vars>> /\ pc' = pc
    BY <1>6 DEF vars, thread_vars
  <2>2. RingKept' /\ LedsKept'
    BY <2>1, RestKept
  <2>3. EthType' /\ ThreadsKnown' /\ SocketsKnown'
    BY <1>6 DEF vars, EthInv, EthType, TypeOK, ThreadsKnown, SocketsKnown, thread_vars, conn_vars,
       queue_vars, gpio_vars
  <2> QED BY <2>2, <2>3 DEF EthInv
<1> QED BY <1>1, <1>2, <1>3, <1>4, <1>5, <1>6 DEF Next

(* The invariant of the network adapter holds in every state.              *)
LEMMA EthInvariant == Spec => []EthInv
<1> HIDE DEF Fairness
<1> QED BY EthInvInit, EthInvStep, PTL DEF Spec

(* Every variable keeps the type the driver gives it.                      *)
THEOREM TypeCorrect == Spec => []TypeOK
<1>1. EthInv => TypeOK
  BY DEF EthInv, EthType
<1> QED BY <1>1, EthInvariant, PTL

(* hb_rf_eth_queue_msg() and the send thread, which takes no lock, keep    *)
(* the messages in order: none is overwritten, none is sent twice.         *)
THEOREM QueueKeepsOrder == Spec => []QueueInOrder
<1>1. EthInv => QueueInOrder
  BY DEF EthInv, RingKept
<1> QED BY <1>1, EthInvariant, PTL

(* The board is sent the LEDs the driver last asked for unless the change  *)
(* was dropped or could not be sent, although the value is read when the   *)
(* message is sent.                                                        *)
THEOREM LedsReachBoard == Spec => []LedsFollow
<1>1. EthInv => LedsFollow
  BY DEF EthInv, LedsKept
<1> QED BY <1>1, EthInvariant, PTL

(* hb_rf_eth_disconnect() and a failed hb_rf_eth_connect() leave neither   *)
(* thread nor socket behind.                                               *)
THEOREM NothingLeft == Spec => []DisconnectLeavesNothing
<1>1. EthInv => DisconnectLeavesNothing
  <2>1. SUFFICES ASSUME EthInv, pc["admin"] \in {"down", "create", "unloaded"}
        PROVE  /\ pc["recv"] = "none" /\ pc["send"] = "none"
               /\ _sock = NULL /\ live = {} /\ ~connection_state
    BY DEF DisconnectLeavesNothing
  <2>2. pc["recv"] = "none" /\ pc["send"] = "none"
    BY <2>1 DEF EthInv, ThreadsKnown
  <2> QED BY <2>1, <2>2 DEF EthInv, SocketsKnown
<1> QED BY <1>1, EthInvariant, PTL

(* No step releases the socket a thread is working with, but the receive   *)
(* thread that gives a silent connection up under the send thread.         *)
THEOREM SocketsStay == Spec => SocketKept
<1> DEFINE Kept ==
      \A t \in DOMAIN held :
        held[t] \in live /\ held'[t] = held[t] =>
          \/ held[t] \in live'
          \/ t = "send" /\ pc'["recv"] = "released"
<1>1. EthInv /\ [Next]_vars => [Kept]_vars
  <2> SUFFICES ASSUME EthInv, Next PROVE Kept
    OBVIOUS
  <2>a. DOMAIN held = {"admin", "recv", "send"}
    BY DEF EthInv, EthType, TypeOK
  <2> SUFFICES ASSUME NEW t \in {"admin", "recv", "send"},
                      held[t] \in live, held'[t] = held[t], held[t] \notin live'
               PROVE  t = "send" /\ pc'["recv"] = "released"
    BY <2>a
  <2> USE EthAssumption
  <2>0. /\ EthType /\ ThreadsKnown /\ SocketsKnown /\ live \subseteq Sockets
        /\ held[t] \in Sockets /\ held[t] # NULL /\ live' # live
        /\ NULL \in Sockets \cup {NULL}
    BY DEF EthInv, EthType, TypeOK
  <2>1. ASSUME NEW u \in {"admin", "recv"}, TryConnect(u) PROVE FALSE
    <3>1. CASE TryTimeout(u)
      <4>1. pc[u] = "trying" /\ live' = live \ {held[u]} /\ Hold(u, NULL)
        BY <3>1 DEF TryTimeout
      <4>2. held'[u] = NULL
        BY <2>0, <4>1, Holds
      <4>3. t # u
        BY <2>0, <4>2
      <4>4. held[t] # held[u]
        BY <2>0, <4>1, <4>3 DEF SocketsKnown
      <4> QED BY <4>1, <4>4
    <3> QED BY <2>1, <3>1, <2>0 DEF TryConnect, TryCreate, TryAnswered, TryDone
  <2>2. ASSUME NEW p \in Packets, RecvPacket(p) PROVE t = "send" /\ pc'["recv"] = "released"
    <3>1. /\ pc["recv"] = "recv" /\ Hold("recv", NULL) /\ Goto("recv", "released")
      BY <2>0, <2>2 DEF RecvPacket
    <3>2. held'["recv"] = NULL /\ pc'["recv"] = "released"
      BY <2>0, <3>1, Holds, Moves
    <3>3. pc["admin"] # "trying"
      BY <2>0, <3>1 DEF ThreadsKnown
    <3> QED BY <2>0, <3>2, <3>3 DEF SocketsKnown
  <2>3. ASSUME pc["recv"] = "none", pc["send"] = "none", pc["admin"] # "trying" PROVE FALSE
    BY <2>0, <2>3 DEF SocketsKnown
  <2>4. CASE Hangup \/ RunRecvFails \/ UndoRecv
    BY <2>0, <2>3, <2>4 DEF ThreadsKnown, Hangup, RunRecvFails, UndoRecv
  <2>5. CASE SendThread
    BY <2>0, <2>5, SendLife
  <2>6. CASE RecvThread
    BY <2>0, <2>1, <2>2, <2>6 DEF RecvThread, RecvLoop, RecvForget, RecvLost, RecvReconnect,
       RecvExit, conn_vars
  <2>7. CASE Admin
    BY <2>0, <2>1, <2>4, <2>7 DEF Admin, StopThread, WaitThread, RunRecv, RunSend, RunThread,
       RunSendFails, SendReset, conn_vars
  <2>8. CASE \/ \E op \in Ops : DriverCall(op)
             \/ \E value \in {0, 1} : GpioSet(value)
             \/ QueuePublish
             \/ \E then \in {"down", "create", "unloaded"} : Disconnect(then)
    BY <2>0, <2>8 DEF DriverCall, GpioSet, QueuePublish, Disconnect, conn_vars
  <2> QED BY <2>5, <2>6, <2>7, <2>8 DEF Next
<1>2. Spec => [][Next]_vars
  <2> HIDE DEF Fairness
  <2> QED BY PTL DEF Spec
<1>3. Spec => [][Kept]_vars
  BY <1>1, <1>2, EthInvariant, PTL
<1> QED BY <1>3 DEF SocketKept
=============================================================================
