------------------------------ MODULE Eq3Loop ------------------------------
(***************************************************************************)
(* One channel of the character loop device (kernel/eq3_char_loop.c): a    *)
(* process creates the channel through the control device and becomes its  *)
(* master, another one opens the slave device, and bytes written on one    *)
(* side are read on the other.                                             *)
(*                                                                         *)
(* Everything but the wait conditions and the event bits is accessed under *)
(* channel->sem, so a call is the step that takes the semaphore and the    *)
(* step that does the work, releases the semaphore and wakes the sleepers. *)
(* The slave's open() and close() change two event bits, which the master  *)
(* reads without the semaphore: they take two steps.                       *)
(* The control device's semaphore only matters between several channels.   *)
(***************************************************************************)
EXTENDS Integers, Sequences, FiniteSets, CircBuf

CONSTANTS
  Masters,    (* the threads that use the master's file                     *)
  Slaves,     (* the processes that open the slave device, one file each    *)
  BUFSIZE,    (* 1024 in the source, a power of two                         *)
  MaxCount,   (* bound: the largest count of a read() or write()            *)
  MaxWritten, (* bound: how many bytes are written to each ring             *)
  Orderly,    (* the channel is created only when no slave uses it, and     *)
              (* slaves open it only when it is ready                       *)
  Faults      (* the user's memory may fault when events are reported       *)

ASSUME LoopAssumption ==
  /\ Masters \cap Slaves = {}
  /\ IsFiniteSet(Slaves)
  /\ BUFSIZE \in Nat /\ \E k \in 1..BUFSIZE : BUFSIZE = 2^k
  /\ MaxCount \in Nat
  /\ MaxWritten \in [{"m2s", "s2m"} -> Nat]
  /\ Orderly \in BOOLEAN /\ Faults \in BOOLEAN

VARIABLES
  created,          (* channel->created                                     *)
  slave_open_count, (* channel->slave_open_count                            *)
  ring,             (* master2slave_buf and slave2master_buf                *)
  pending_events,   (* the bits set in channel->pending_events              *)
  sem,              (* the count of channel->sem                            *)
  sem_ready,        (* channel->sem is initialised                          *)
  creating,         (* a create_slave_dev() is in progress                  *)
  node,             (* the slave's device node exists                       *)
  conn,             (* the files that are connected to the channel          *)
  op,               (* the call each thread is in                           *)
  pc,               (* and where in it                                      *)
  count,            (* its argument                                         *)
  asleep,           (* the threads asleep on one of the two wait queues     *)
  temp,             (* the events the ioctl in progress has collected       *)
  told,             (* history: the slave is open, as last reported         *)
  misled,           (* history: the last ioctl read the state bit while a   *)
                    (* slave was between its event bit and its state bit    *)
  in,               (* history: how many bytes were put into each ring      *)
  out,              (* history: how many of them left it                    *)
  got               (* history: what the last read() of each ring returned  *)

life_vars == <<created, slave_open_count, pending_events, sem_ready, creating, node, conn>>
call_vars == <<op, pc, count, asleep>>
data_vars == <<ring, in, out, got>>
event_vars == <<temp, told, misled>>
vars == <<life_vars, sem, call_vars, data_vars, event_vars>>

Threads == Masters \cup Slaves
Dirs == {"m2s", "s2m"}
Opened == "EVENT_SLAVE_OPENED"
Closed == "EVENT_SLAVE_CLOSED"
State == "STATE_SLAVE_OPENED"

(* The master's file: connected if any of its threads is.                  *)
MasterConn == conn \cap Masters # {}

-----------------------------------------------------------------------------
(* The rings.  Both ends copy in two pieces, up to the end of the array    *)
(* and from its beginning.                                                 *)
EmptyRing == [buf |-> [i \in 0..(BUFSIZE - 1) |-> 0], head |-> 0, tail |-> 0]

Cnt(d) == CIRC_CNT(ring[d].head, ring[d].tail, BUFSIZE)
(* Mutant: every slot of the ring is used.                                 *)
SpaceOfAll(d) == BUFSIZE - Cnt(d)
Space(d) == CIRC_SPACE(ring[d].head, ring[d].tail, BUFSIZE)
Least(a, b) == IF a < b THEN a ELSE b

(* Store the bytes v at the head of ring r.                                *)
Put(r, v) ==
  LET to_end == Least(Len(v), CIRC_SPACE_TO_END(r.head, r.tail, BUFSIZE))
      head2  == (r.head + to_end) % BUFSIZE
      rest   == Len(v) - to_end
  IN [r EXCEPT !.buf = [i \in DOMAIN @ |->
                          IF i \in r.head..(r.head + to_end - 1) THEN v[i - r.head + 1]
                          ELSE IF i \in head2..(head2 + rest - 1) THEN v[to_end + i - head2 + 1]
                          ELSE @[i]],
               !.head = (head2 + rest) % BUFSIZE]

(* The first n bytes of ring r, and where its tail is after them.          *)
Piece(r, from, n) == [i \in 1..n |-> r.buf[from + i - 1]]
Take(r, n) ==
  LET to_end == Least(n, CIRC_CNT_TO_END(r.head, r.tail, BUFSIZE))
  IN Piece(r, r.tail, to_end) \o Piece(r, (r.tail + to_end) % BUFSIZE, n - to_end)
TailAfter(r, n) == (r.tail + n) % BUFSIZE

-----------------------------------------------------------------------------
Init ==
  /\ created = FALSE /\ slave_open_count = 0
  /\ ring = [d \in Dirs |-> EmptyRing]
  /\ pending_events = {}
  /\ sem = 0 /\ sem_ready = FALSE
  /\ creating = FALSE /\ node = FALSE
  /\ conn = {}
  /\ op = [t \in Threads |-> "none"]
  /\ pc = [t \in Threads |-> "idle"]
  /\ count = [t \in Threads |-> 0]
  /\ asleep = {}
  /\ temp = {}
  /\ told = FALSE /\ misled = FALSE
  /\ in = [d \in Dirs |-> 0]
  /\ out = [d \in Dirs |-> 0]
  /\ got = [d \in Dirs |-> <<>>]

(* The ring a thread's call works on; every ring has its wait queue.       *)
Dir(t) == IF (t \in Masters) = (op[t] \in {"write", "pollout"}) THEN "m2s" ELSE "s2m"

(* wake_up_interruptible() of the queue of ring d.                         *)
StillAsleep(d) == {t \in asleep : Dir(t) # d}

(* Go on inside a call, or return from it.                                 *)
Goto(t, l) == pc' = [pc EXCEPT ![t] = l] /\ UNCHANGED <<op, count>>
Return(t) ==
  /\ pc' = [pc EXCEPT ![t] = "idle"]
  /\ op' = [op EXCEPT ![t] = "none"]
  /\ count' = [count EXCEPT ![t] = 0]
Up == sem' = sem + 1

-----------------------------------------------------------------------------
(* eq3loop_create_slave_dev() up to device_create(): the channel is        *)
(* cleared, its semaphore included.  device_create() returns an error      *)
(* pointer and is compared with NULL, so that its failure, after which     *)
(* there is no new node, goes unnoticed.                                   *)
CreateBegin ==
  /\ ~created /\ ~creating /\ ~MasterConn
  /\ Orderly => conn = {} /\ \A s \in Slaves : pc[s] = "idle"
  /\ creating' = TRUE
  /\ slave_open_count' = 0
  /\ ring' = [d \in Dirs |-> EmptyRing]
  /\ in' = [d \in Dirs |-> 0] /\ out' = [d \in Dirs |-> 0] /\ got' = [d \in Dirs |-> <<>>]
  /\ pending_events' = {} /\ told' = FALSE /\ misled' = FALSE
  /\ sem' = 0 /\ sem_ready' = FALSE
  /\ node' \in {node, TRUE}
  /\ UNCHANGED <<created, conn, call_vars, temp>>

(* The rest of it: no memory for the connection, or the channel is ready.  *)
CreateEnd ==
  /\ creating
  /\ creating' = FALSE
  /\ \/ UNCHANGED <<created, conn, sem, sem_ready>>
     \/ /\ sem' = 1 /\ sem_ready' = TRUE
        /\ created' = TRUE
        /\ conn' = conn \cup Masters
  /\ UNCHANGED <<slave_open_count, pending_events, node, call_vars, data_vars, event_vars>>

(* A thread enters a call: it needs a connection, or for open() the node.  *)
MayCall(t, o) ==
  /\ pc[t] = "idle"
  /\ IF o = "open"
     THEN t \in Slaves \ conn /\ node /\ (Orderly => sem_ready)
     ELSE /\ t \in conn
          /\ t \in Masters /\ o = "close" => \A u \in Masters : pc[u] = "idle"
          /\ t \in Masters => \A u \in Masters : op[u] # "close"

Call(t, o, n) ==
  /\ MayCall(t, o)
  /\ op' = [op EXCEPT ![t] = o]
  /\ count' = [count EXCEPT ![t] = n]
  /\ pc' = [pc EXCEPT ![t] = "down"]
  /\ UNCHANGED <<life_vars, sem, asleep, data_vars, event_vars>>

(* down_interruptible(&channel->sem) succeeds, or fails because of a       *)
(* signal while somebody else holds the semaphore; close() is not          *)
(* interrupted here.                                                       *)
Down(t) ==
  /\ pc[t] = "down"
  /\ \/ sem > 0 /\ sem' = sem - 1 /\ Goto(t, "inside")
     \/ sem = 0 /\ op[t] # "close" /\ Return(t) /\ UNCHANGED sem
  /\ UNCHANGED <<life_vars, asleep, data_vars, event_vars>>

Inside(t, o) == pc[t] = "inside" /\ op[t] = o

(* Nothing to do yet: -EAGAIN (O_NONBLOCK), or the call waits.             *)
Blocks(t) ==
  /\ Return(t) \/ Goto(t, "wait")
  /\ UNCHANGED <<ring, in, out, got, asleep>>

(* A call that returns without touching the rings.                         *)
Fails(t) == Return(t) /\ UNCHANGED <<ring, in, out, got, asleep>>

-----------------------------------------------------------------------------
(* eq3loop_read_slave() and eq3loop_read_master(): without its peer the    *)
(* call ends, with -ENODEV or 0 bytes; copy_to_user() may fault.           *)
PeerGone(t) == IF t \in Slaves THEN ~created ELSE slave_open_count = 0

Read(t) ==
  /\ Inside(t, "read")
  /\ \/ PeerGone(t) /\ Fails(t)
     \/ ~PeerGone(t) /\ Cnt(Dir(t)) = 0 /\ Blocks(t)
     \/ ~PeerGone(t) /\ Cnt(Dir(t)) > 0 /\ Fails(t)
     \/ /\ ~PeerGone(t) /\ Cnt(Dir(t)) > 0
        /\ LET d == Dir(t)
               n == Least(count[t], Cnt(d))
           IN /\ ring' = [ring EXCEPT ![d].tail = TailAfter(ring[d], n)]
              /\ out' = [out EXCEPT ![d] = @ + n]
              /\ got' = [got EXCEPT ![d] = Take(ring[d], n)]
              /\ asleep' = IF n > 0 THEN StillAsleep(d) ELSE asleep
        /\ Return(t)
        /\ UNCHANGED in
  /\ Up
  /\ UNCHANGED <<life_vars, event_vars>>

(* eq3loop_write_slave() and eq3loop_write_master(): a full ring blocks    *)
(* the call whether there is a peer or not; a frame is written as a whole  *)
(* or refused with -EFAULT.  A failing write() of the master wakes the     *)
(* slave if the ring is not empty.                                         *)
Write(t) ==
  LET d == Dir(t) IN
  /\ Inside(t, "write")
  /\ \/ Space(d) = 0 /\ Blocks(t)
     \/ /\ Space(d) > 0
        /\ Return(t)
        /\ asleep' = IF t \in Masters /\ Cnt(d) > 0 THEN StillAsleep(d) ELSE asleep
        /\ UNCHANGED <<ring, in, out, got>>
     \/ /\ Space(d) > 0 /\ Space(d) >= count[t]
        /\ t \in Slaves => created
        /\ in[d] + count[t] <= MaxWritten[d]
        /\ ring' = [ring EXCEPT ![d] = Put(@, [i \in 1..count[t] |-> in[d] + i])]
        /\ in' = [in EXCEPT ![d] = @ + count[t]]
        /\ asleep' = IF count[t] > 0 \/ (t \in Masters /\ Cnt(d) > 0)
                     THEN StillAsleep(d) ELSE asleep
        /\ Return(t)
        /\ UNCHANGED <<out, got>>
  /\ Up
  /\ UNCHANGED <<life_vars, event_vars>>

(* Mutant: a woken thread does not look whether its peer is gone.          *)
WaitConditionData(t) == (IF op[t] = "read" THEN Cnt(Dir(t)) ELSE Space(Dir(t))) > 0

(* The conditions of wait_event_interruptible() in read() and write(),     *)
(* evaluated without the semaphore.                                        *)
WaitCondition(t) == PeerGone(t) \/ (IF op[t] = "read" THEN Cnt(Dir(t)) ELSE Space(Dir(t))) > 0

(* eq3loop_poll_master() and eq3loop_poll_slave(): is there something to   *)
(* report to a caller that asked for POLLIN and POLLPRI, or for POLLOUT?   *)
PollReady(t) ==
  LET data == (IF op[t] = "pollin" THEN Cnt(Dir(t)) ELSE Space(Dir(t))) > 0
  IN IF t \in Slaves THEN data \/ ~created
     ELSE \/ slave_open_count > 0 /\ data
          \/ op[t] = "pollin" /\ pending_events \cap {Opened, Closed} # {}

Poll(t) ==
  /\ Inside(t, "pollin") \/ Inside(t, "pollout")
  /\ \/ PollReady(t) /\ Return(t) /\ UNCHANGED asleep
     \/ ~PollReady(t) /\ Goto(t, "wait") /\ asleep' = asleep \cup {t}
  /\ Up
  /\ UNCHANGED <<life_vars, data_vars, event_vars>>

(* An awake thread evaluates its condition; poll() is called again.        *)
Wait(t) ==
  /\ pc[t] = "wait" /\ t \notin asleep
  /\ \/ op[t] \in {"pollin", "pollout"} /\ Goto(t, "down") /\ UNCHANGED asleep
     \/ op[t] \in {"read", "write"} /\ WaitCondition(t) /\ Goto(t, "down") /\ UNCHANGED asleep
     \/ /\ op[t] \in {"read", "write"} /\ ~WaitCondition(t)
        /\ asleep' = asleep \cup {t}
        /\ UNCHANGED <<op, pc, count>>
  /\ UNCHANGED <<life_vars, sem, data_vars, event_vars>>

(* A signal or a timeout ends a wait whose condition is false; if it holds *)
(* the thread only wakes up.                                               *)
Interrupt(t) ==
  /\ pc[t] = "wait"
  /\ asleep' = asleep \ {t}
  /\ IF op[t] \in {"read", "write"} /\ WaitCondition(t)
     THEN t \in asleep /\ UNCHANGED <<op, pc, count>>
     ELSE Return(t)
  /\ UNCHANGED <<life_vars, sem, data_vars, event_vars>>

-----------------------------------------------------------------------------
(* Mutant: a second slave is let in.                                       *)
OpenSlaveAgain(s) ==
  /\ Inside(s, "open")
  /\ \/ Return(s) /\ Up /\ UNCHANGED <<slave_open_count, pending_events, conn>>
     \/ /\ created
        /\ slave_open_count' = slave_open_count + 1
        /\ pending_events' = pending_events \cup {Opened}
        /\ conn' = conn \cup {s}
        /\ Goto(s, "bits")
        /\ UNCHANGED sem
  /\ UNCHANGED <<created, sem_ready, creating, node, asleep, data_vars, event_vars>>

(* eq3loop_open_slave(): no channel, a slave already there or no memory    *)
(* are errors; else the slave is counted and the event bit is set ...      *)
OpenSlave(s) ==
  /\ Inside(s, "open")
  /\ \/ Return(s) /\ Up /\ UNCHANGED <<slave_open_count, pending_events, conn>>
     \/ /\ created /\ slave_open_count = 0
        /\ slave_open_count' = slave_open_count + 1
        /\ pending_events' = pending_events \cup {Opened}
        /\ conn' = conn \cup {s}
        /\ Goto(s, "bits")
        /\ UNCHANGED sem
  /\ UNCHANGED <<created, sem_ready, creating, node, asleep, data_vars, event_vars>>

(* ... then the state bit, and the slave starts with an empty ring.        *)
SlaveOpened(s) ==
  /\ pc[s] = "bits" /\ op[s] = "open"
  /\ pending_events' = pending_events \cup {State}
  /\ ring' = [ring EXCEPT !["m2s"].head = 0, !["m2s"].tail = 0]
  /\ out' = [out EXCEPT !["m2s"] = in["m2s"]]
  /\ got' = [got EXCEPT !["m2s"] = <<>>]
  /\ asleep' = StillAsleep("s2m")
  /\ Return(s)
  /\ Up
  /\ UNCHANGED <<created, slave_open_count, sem_ready, creating, node, conn, in, event_vars>>

(* eq3loop_close_slave(): the connection is freed and the event bit is     *)
(* set ...                                                                 *)
CloseSlave(s) ==
  /\ s \in Slaves /\ Inside(s, "close")
  /\ slave_open_count' = IF slave_open_count > 0 THEN slave_open_count - 1 ELSE 0
  /\ pending_events' = pending_events \cup {Closed}
  /\ conn' = conn \ {s}
  /\ Goto(s, "bits")
  /\ UNCHANGED <<created, sem_ready, creating, node, sem, asleep, data_vars, event_vars>>

(* ... then the state bit is cleared, and the node goes if the master is   *)
(* gone.                                                                   *)
SlaveClosed(s) ==
  /\ pc[s] = "bits" /\ op[s] = "close"
  /\ pending_events' = pending_events \ {State}
  /\ node' = (node /\ created)
  /\ asleep' = StillAsleep("s2m")
  /\ Return(s)
  /\ Up
  /\ UNCHANGED <<created, slave_open_count, sem_ready, creating, conn, data_vars, event_vars>>

(* A slave is between its event bit and its state bit.                     *)
BetweenBits == \E s \in Slaves : pc[s] = "bits"

(* Mutants: the master's close() wakes the wrong queue, or destroys the    *)
(* node under a slave.                                                     *)
CloseMasterWrongQueue(m) ==
  /\ m \in Masters /\ Inside(m, "close")
  /\ created' = FALSE
  /\ node' = (node /\ slave_open_count > 0)
  /\ conn' = conn \ Masters
  /\ asleep' = StillAsleep("s2m")
  /\ Return(m)
  /\ Up
  /\ UNCHANGED <<slave_open_count, pending_events, sem_ready, creating, data_vars,
                 event_vars>>

CloseMasterDestroys(m) ==
  /\ m \in Masters /\ Inside(m, "close")
  /\ created' = FALSE /\ node' = FALSE
  /\ conn' = conn \ Masters
  /\ asleep' = StillAsleep("m2s")
  /\ Return(m)
  /\ Up
  /\ UNCHANGED <<slave_open_count, pending_events, sem_ready, creating, data_vars,
                 event_vars>>

(* eq3loop_close_master() *)
CloseMaster(m) ==
  /\ m \in Masters /\ Inside(m, "close")
  /\ created' = FALSE
  /\ node' = (node /\ slave_open_count > 0)
  /\ conn' = conn \ Masters
  /\ asleep' = StillAsleep("m2s")
  /\ Return(m)
  /\ Up
  /\ UNCHANGED <<slave_open_count, pending_events, sem_ready, creating, data_vars,
                 event_vars>>

-----------------------------------------------------------------------------
(* EQ3LOOP_IOCGEVENTS in eq3loop_ioctl_master(), which takes no semaphore: *)
(* each bit is tested and cleared on its own, then the state is tested     *)
(* and all is handed to the user.  If that faults the bits are put back.   *)
(* One thread of the master at a time asks for events.                     *)
GetEvents(m) ==
  /\ MayCall(m, "events")
  /\ \A u \in Masters : op[u] # "events"
  /\ op' = [op EXCEPT ![m] = "events"]
  /\ pc' = [pc EXCEPT ![m] = "opened"]
  /\ UNCHANGED <<life_vars, sem, count, asleep, data_vars, event_vars>>

Collect(m, l, bit, next) ==
  /\ pc[m] = l
  /\ temp' = temp \cup (pending_events \cap {bit})
  /\ pending_events' = pending_events \ ({bit} \ {State})
  /\ misled' = IF bit = State THEN BetweenBits ELSE misled
  /\ Goto(m, next)
  /\ UNCHANGED <<created, slave_open_count, sem_ready, creating, node, conn, sem,
                 asleep, data_vars, told>>

(* Mutant: the state is read before the events are cleared.                *)
CollectStateFirst(m) ==
  \/ Collect(m, "opened", State, "closed")
  \/ Collect(m, "closed", Opened, "state")
  \/ Collect(m, "state", Closed, "report")

CollectEvents(m) ==
  \/ Collect(m, "opened", Opened, "closed")
  \/ Collect(m, "closed", Closed, "state")
  \/ Collect(m, "state", State, "report")

ReportEvents(m) ==
  /\ pc[m] = "report"
  /\ \/ told' = (State \in temp) /\ UNCHANGED pending_events
     \/ Faults /\ pending_events' = temp /\ UNCHANGED told
  /\ temp' = {}
  /\ Return(m)
  /\ UNCHANGED <<created, slave_open_count, sem_ready, creating, node, conn, sem,
                 asleep, data_vars, misled>>

-----------------------------------------------------------------------------
Body(t) ==
  Read(t) \/ Write(t) \/ Poll(t) \/ CloseSlave(t) \/ SlaveClosed(t) \/ CloseMaster(t)

Next ==
  \/ CreateBegin
  \/ CreateEnd
  \/ \E t \in Threads :
       \/ \E o \in {"read", "write"}, n \in 0..MaxCount : Call(t, o, n)
       \/ \E o \in {"open", "close", "pollin", "pollout"} : Call(t, o, 0)
       \/ Down(t) \/ Wait(t) \/ Interrupt(t)
       \/ Body(t)
  \/ \E s \in Slaves : OpenSlave(s) \/ SlaveOpened(s)
  \/ \E m \in Masters : GetEvents(m) \/ CollectEvents(m) \/ ReportEvents(m)

Spec == Init /\ [][Next]_vars

(* A thread inside a call that can go on does; the semaphore is fair       *)
(* (a queue of waiters).                                                   *)
Fairness ==
  \A t \in Threads :
    /\ SF_vars(Down(t))
    /\ WF_vars(Wait(t) \/ Body(t) \/ OpenSlave(t) \/ SlaveOpened(t))

FairSpec == Spec /\ Fairness

(* ... and a signal is pending for the threads of the master.              *)
SignalledSpec == FairSpec /\ \A m \in Masters : WF_vars(Interrupt(m))

-----------------------------------------------------------------------------
TypeOK ==
  /\ created \in BOOLEAN /\ slave_open_count \in 0..Cardinality(Slaves)
  /\ \A d \in Dirs :
       /\ ring[d] \in [buf: [0..(BUFSIZE - 1) -> 0..MaxWritten[d]],
                      head: 0..(BUFSIZE - 1), tail: 0..(BUFSIZE - 1)]
       /\ in[d] \in 0..MaxWritten[d] /\ out[d] \in 0..MaxWritten[d]
       /\ got[d] \in Seq(1..MaxWritten[d])
  /\ pending_events \subseteq {Opened, Closed, State}
  /\ sem \in {0, 1}
  /\ sem_ready \in BOOLEAN /\ creating \in BOOLEAN /\ node \in BOOLEAN
  /\ conn \subseteq Threads
  /\ op \in [Threads -> {"none", "read", "write", "open", "close", "pollin", "pollout",
                         "events"}]
  /\ pc \in [Threads -> {"idle", "down", "inside", "bits", "wait", "opened", "closed",
                         "state", "report"}]
  /\ count \in [Threads -> 0..MaxCount]
  /\ asleep \subseteq {t \in Threads : pc[t] = "wait"}
  /\ temp \subseteq {Opened, Closed, State}
  /\ told \in BOOLEAN /\ misled \in BOOLEAN

(* At most one slave is connected, and slave_open_count counts it, as long *)
(* as the channel is not created again under it (open_slave, close_slave). *)
OneSlave ==
  /\ slave_open_count = Cardinality(conn \cap Slaves)
  /\ slave_open_count <= 1

(* A ring holds exactly the bytes written and not yet read, in order, and  *)
(* the last read() returned the ones before them: nothing is overwritten,  *)
(* skipped or read twice when the two-piece copies wrap around             *)
(* (read_slave, read_master, write_slave, write_master, open_slave).       *)
RingIsFifo ==
  \A d \in Dirs :
    /\ in[d] = out[d] + Cnt(d)
    /\ Take(ring[d], Cnt(d)) = [i \in 1..Cnt(d) |-> out[d] + i]
    /\ got[d] = [i \in 1..Len(got[d]) |-> out[d] - Len(got[d]) + i]

(* Nobody sleeps in read() or in a poll for input although its condition   *)
(* holds: write(), open() and both kinds of close() wake every reader.     *)
(* Only the master's readers may still have the wake-up before them of a   *)
(* slave that is in the middle of its open() or close().                   *)
ReadersWoken ==
  \A t \in asleep : t \in Slaves \/ ~BetweenBits =>
    /\ op[t] = "read" => ~WaitCondition(t)
    /\ op[t] = "pollin" => ~PollReady(t)

(* When no event is pending and none is being reported, the master was     *)
(* last told whether the slave is open or not: the bits are cleared before *)
(* the state is read (EQ3LOOP_IOCGEVENTS, open_slave, close_slave).  The   *)
(* exception is an ioctl that read the state while a slave was between its *)
(* two bits: it may have taken the event and reported the old state.       *)
MasterKnowsState ==
  created /\ pending_events \cap {Opened, Closed} = {} /\ ~misled
          /\ (\A m \in Masters : op[m] # "events") =>
    told = (slave_open_count > 0)

(* The last of the master and its slave to close removes the device node,  *)
(* and the first one leaves it alone (close_slave, close_master), as long  *)
(* as the channel is not created again under an old slave.                 *)
NodeUntilLastClose ==
  [][\A t \in Threads : op[t] = "close" /\ op'[t] = "none" =>
       (node' <=> node /\ (created' \/ conn' # {}))]_vars

(* A slave blocked in read() comes back when the master closes the channel *)
(* (close_master).                                                         *)
MasterCloseEndsRead ==
  \A s \in Slaves : op[s] = "read" /\ ~created ~> op[s] # "read"

(* "no space to write": a write() sleeps only while its ring is full       *)
(* (write_slave, write_master).                                            *)
WritersSleepWhenFull ==
  \A t \in asleep : op[t] = "write" => Space(Dir(t)) = 0

(* "signal: tell the fs layer to handle it": a write() of the master for   *)
(* which a signal is pending returns (write_master).                       *)
SignalEndsWrite ==
  \A m \in Masters : op[m] = "write" ~> op[m] # "write"

(* "semaphore for accessing this struct": whoever waits for channel->sem   *)
(* or holds it finds it initialised, and it is not reset under a holder    *)
(* (create_slave_dev).                                                     *)
SemaphoreGuardsChannel ==
  \A t \in Threads : pc[t] \in {"down", "inside", "bits"} => sem_ready

-----------------------------------------------------------------------------
(* The inductive invariants the proofs use (Eq3Loop_proofs).               *)
Collecting == {"opened", "closed", "state", "report"}

LoopType ==
  /\ created \in BOOLEAN /\ creating \in BOOLEAN /\ node \in BOOLEAN /\ sem_ready \in BOOLEAN
  /\ told \in BOOLEAN /\ misled \in BOOLEAN /\ slave_open_count \in Nat /\ sem \in Nat
  /\ pending_events \subseteq {Opened, Closed, State} /\ temp \subseteq {Opened, Closed, State}
  /\ conn \subseteq Threads /\ asleep \subseteq Threads
  /\ op \in [Threads -> {"none", "read", "write", "open", "close", "pollin", "pollout",
                         "events"}]
  /\ pc \in [Threads -> {"idle", "down", "inside", "bits", "wait"} \cup Collecting]
  /\ count \in [Threads -> Nat]

(* Who may be in which call: a file in use is connected, the master's      *)
(* close() runs alone, and one thread collects the events.                 *)
CallsKnown ==
  /\ \A t \in Threads : /\ pc[t] = "idle" <=> op[t] = "none"
                        /\ pc[t] \in Collecting <=> op[t] = "events"
                        /\ pc[t] = "wait" => op[t] \in {"read", "write", "pollin", "pollout"}
                        /\ pc[t] = "bits" => t \in Slaves /\ op[t] \in {"open", "close"}
  /\ \A t \in asleep : pc[t] = "wait"
  /\ \A s \in Slaves : /\ op[s] # "events"
                       /\ op[s] = "open" => (s \in conn <=> pc[s] = "bits")
                       /\ op[s] = "close" => (s \in conn <=> pc[s] # "bits")
                       /\ op[s] \notin {"none", "open", "close"} => s \in conn
  /\ \A m \in Masters : op[m] # "open" /\ (op[m] # "none" => m \in conn)
  /\ \A m, u \in Masters : /\ op[m] = "close" /\ u # m => op[u] = "none"
                           /\ op[m] = "events" /\ op[u] = "events" => u = m
  /\ MasterConn => created
  /\ creating => ~created

(* The channel while it is created only when nobody uses it: its slave     *)
(* and its semaphore.                                                      *)
ChannelKnown ==
  /\ \/ conn \cap Slaves = {} /\ slave_open_count = 0
     \/ \E s \in Slaves : conn \cap Slaves = {s} /\ slave_open_count = 1
  /\ \A s \in Slaves : pc[s] = "bits" /\ op[s] = "close" => conn \cap Slaves = {}
  /\ creating => conn = {} /\ ~sem_ready
  /\ created \/ conn # {} => sem_ready
  /\ \A t \in Threads : op[t] # "none" => sem_ready
  /\ sem \in {0, 1} /\ (sem = 1 => sem_ready)
  /\ \A t \in Threads : pc[t] \in {"inside", "bits"} =>
       sem = 0 /\ \A u \in Threads : pc[u] \in {"inside", "bits"} => u = t

(* What the thread that reports the events has found out so far.           *)
EventsKnown ==
  LET quiet == pending_events \cap {Opened, Closed} = {}
      open == slave_open_count > 0
  IN /\ State \in pending_events <=> (open <=> ~BetweenBits)
     /\ \A m \in Masters :
          /\ op[m] = "events" /\ pc[m] # "report" => State \notin temp
          /\ pc[m] = "report" /\ quiet /\ ~misled => (State \in temp <=> open)
     /\ (\A m \in Masters : op[m] # "events") =>
          temp = {} /\ (quiet /\ ~misled => (told <=> open))

(* Of the bytes written to ring r, which are numbered from 1 to n, all but *)
(* the first k are between its tail and its head, and g are the last ones  *)
(* of the first k.                                                         *)
RingType == [buf: [0..(BUFSIZE - 1) -> Nat], head: 0..(BUFSIZE - 1), tail: 0..(BUFSIZE - 1)]
RingHolds(r, k, n, g) ==
  /\ n = k + CIRC_CNT(r.head, r.tail, BUFSIZE)
  /\ \A i \in 1..CIRC_CNT(r.head, r.tail, BUFSIZE) : r.buf[(r.tail + i - 1) % BUFSIZE] = k + i
  /\ Len(g) <= k
  /\ \A i \in 1..Len(g) : g[i] = k - Len(g) + i

RingsKept ==
  /\ ring \in [Dirs -> RingType]
  /\ in \in [Dirs -> Nat] /\ out \in [Dirs -> Nat] /\ got \in [Dirs -> Seq(Nat)]
  /\ \A d \in Dirs : RingHolds(ring[d], out[d], in[d], got[d])

LoopInv ==
  /\ LoopType /\ CallsKnown /\ RingsKept
  /\ Orderly => ChannelKnown
  /\ ~Faults => ReadersWoken
  /\ Orderly /\ ~Faults => EventsKnown
=============================================================================
