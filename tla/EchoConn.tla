------------------------------ MODULE EchoConn ------------------------------
(***************************************************************************)
(* One accepted connection of echo.c: what its callbacks do with the pbufs  *)
(* lwIP delivers, and how it ends.                                         *)
(*                                                                         *)
(* The first pbuf configures the UART and stays in es->p until the first    *)
(* poll writes it back to the peer; later pbufs go to the UART when es->p   *)
(* is empty and are chained behind it when it is not.  lwIP calls the       *)
(* callbacks from the Ethernet interrupt (ENET_RECEIVE_ALL_INTERRUPT 1,     *)
(* RxInterrupt here) or from the main loop, and calls echo_poll always from *)
(* the main loop: with RxInterrupt every step of echo_poll may be followed  *)
(* by a callback on the same connection.                                   *)
(*                                                                         *)
(* Pbufs are pool cells with a next pointer and a reference count, each     *)
(* carrying one numbered segment; the send buffer and the receive window    *)
(* count segments.                                                         *)
(***************************************************************************)
EXTENDS Integers, Sequences, FiniteSets, Functions

CONSTANTS
  Pbuf,         \* the cells of the pbuf pool
  Null,
  SndBuf,       \* TCP_SND_BUF, in segments
  Wnd,          \* TCP_WND, in segments
  MaxSegs,      \* bound: segments the peer sends on one connection
  RxInterrupt,  \* ENET_RECEIVE_ALL_INTERRUPT
  MayAbort      \* the peer may reset the connection

ASSUME EchoConnAssumption ==
  /\ IsFiniteSet(Pbuf) /\ Null \notin Pbuf
  /\ SndBuf \in Nat \ {0}
  /\ Wnd \in Nat \ {0}
  /\ MaxSegs \in Nat
  /\ RxInterrupt \in BOOLEAN
  /\ MayAbort \in BOOLEAN

VARIABLES
  state,     \* es->state; ES_NONE when there is no es
  p,         \* es->p
  sent_cb,   \* the callback tcp_sent registered
  sndbuf,    \* tcp_sndbuf(tpcb)
  rcv_wnd,   \* tpcb->rcv_wnd
  rcvd,      \* segments received on this connection
  next, ref, \* pbuf fields; ref 0: the cell is free
  seg,       \* the segment a pbuf carries
  pc, ptr, nxt,  \* echo_poll in the main loop: place, and echo_send's locals
  consumed,  \* history: <<segment, "echo" or "ring">> in order of consumption
  aborted    \* history: pbufs es->p held when echo_error freed es

conn == <<state, sent_cb, rcvd>>
tcp == <<sndbuf, rcv_wnd>>
pbufs == <<next, ref, seg>>
poll == <<pc, ptr, nxt>>
history == <<consumed, aborted>>
vars == <<conn, p, tcp, pbufs, poll, history>>

PbufOrNull == Pbuf \union {Null}

(* Each variable holds values of its C type; no count exceeds its limit. *)
TypeOK ==
  /\ state \in {"ES_NONE", "ES_ACCEPTED", "ES_RECEIVED", "ES_CLOSING"}
  /\ p \in PbufOrNull
  /\ sent_cb \in {"none", "echo_sent", "TCP_UART_sent"}
  /\ sndbuf \in 0..SndBuf
  /\ rcv_wnd \in 0..Wnd
  /\ rcvd \in 0..MaxSegs
  /\ next \in [Pbuf -> PbufOrNull]
  /\ ref \in [Pbuf -> 0..3]
  /\ seg \in [Pbuf -> 0..MaxSegs]
  /\ pc \in {"idle", "check", "load", "store", "free"}
  /\ ptr \in PbufOrNull
  /\ nxt \in PbufOrNull
  /\ consumed \in Seq((1..MaxSegs) \X {"echo", "ring"})
  /\ aborted \subseteq Pbuf

Init ==
  /\ state = "ES_NONE"
  /\ p = Null
  /\ sent_cb = "none"
  /\ sndbuf = SndBuf
  /\ rcv_wnd = Wnd
  /\ rcvd = 0
  /\ next = [b \in Pbuf |-> Null]
  /\ ref = [b \in Pbuf |-> 0]
  /\ seg = [b \in Pbuf |-> 0]
  /\ pc = "idle" /\ ptr = Null /\ nxt = Null
  /\ consumed = <<>> /\ aborted = {}

-----------------------------------------------------------------------------
(***************************************************************************)
(* Chains.  PbufFree is pbuf_free: it drops one reference of the head, and  *)
(* goes on to the following pbuf only after it deallocated one.            *)
(***************************************************************************)
Chain(b) ==
  LET walk[n \in 0..Cardinality(Pbuf)] ==
        [x \in PbufOrNull |->
           IF x = Null \/ n = 0 THEN <<>> ELSE <<x>> \o walk[n - 1][next[x]]]
  IN  walk[Cardinality(Pbuf)][b]

PbufFree(b, r) ==
  LET s == Chain(b)
      Gone(k) == \A i \in 1..k : r[s[i]] = 1
      n == CHOOSE k \in 0..Len(s) :
             Gone(k) /\ (k < Len(s) => ~Gone(k + 1))
  IN  [x \in Pbuf |->
         IF \E i \in 1..n : x = s[i] THEN 0
         ELSE IF n < Len(s) /\ x = s[n + 1] THEN (r[x] - 1) % 65536
         ELSE r[x]]

(* "try hard to free pbuf": once, instead of until it is deallocated *)
FreeOnce(b, r) == PbufFree(b, r)

(* "try hard to free pbuf": pbuf_free until it deallocates something *)
TryHard(b, r) == PbufFree(b, [r EXCEPT ![b] = 1])

(* What echo_send and TCP_UART_send do to one pbuf: reference the following  *)
(* one, then free this one. *)
Chop(b, r) ==
  LET q == next[b]
  IN  TryHard(b, IF q = Null THEN r ELSE [r EXCEPT ![q] = @ + 1])

(* Chop the first n pbufs of the chain that starts at b. *)
ChopMany(b, n) ==
  LET s == Chain(b)
      refs[i \in 0..n] == IF i = 0 THEN ref ELSE Chop(s[i], refs[i - 1])
  IN  refs[n]

Consume(b, n, how) ==
  LET s == Chain(b)
  IN  consumed' = consumed \o [i \in 1..n |-> <<seg[s[i]], how>>]

AfterFirst(b, n) ==
  LET s == Chain(b) IN IF n < Len(s) THEN s[n + 1] ELSE Null

-----------------------------------------------------------------------------
(***************************************************************************)
(* lwIP runs a callback: at any time in the interrupt, or between two       *)
(* rounds of the main loop.                                                *)
(***************************************************************************)
CallbackRuns == RxInterrupt \/ pc = "idle"

(* a free cell of the pool takes the segment that arrived *)
Deliver(b) ==
  /\ state # "ES_NONE"
  /\ rcvd < MaxSegs
  /\ rcv_wnd > 0
  /\ ref[b] = 0
  /\ rcvd' = rcvd + 1
  /\ seg' = [seg EXCEPT ![b] = rcvd + 1]

echo_accept ==
  /\ CallbackRuns
  /\ state = "ES_NONE"
  /\ pc = "idle"
  /\ state' = "ES_ACCEPTED"
  /\ p' = Null
  /\ sent_cb' = "none"
  /\ sndbuf' = SndBuf
  /\ rcv_wnd' = Wnd
  /\ rcvd' = 0
  /\ consumed' = <<>>
  /\ UNCHANGED <<pbufs, poll, aborted>>

(* echo_close: es is freed and the pcb left to lwIP. *)
CloseConn ==
  /\ state' = "ES_NONE"
  /\ p' = Null
  /\ sent_cb' = "none"

(***************************************************************************)
(* echo_recv, in its four cases.  The UART registers the first segment sets *)
(* are in UartConfig.                                                      *)
(***************************************************************************)
RecvConfigMutant(b) ==            \* the tcp_sent line not commented out
  /\ CallbackRuns
  /\ state = "ES_ACCEPTED"
  /\ Deliver(b)
  /\ state' = "ES_RECEIVED"
  /\ p' = b
  /\ sent_cb' = "TCP_UART_sent"
  /\ next' = [next EXCEPT ![b] = Null]
  /\ ref' = [ref EXCEPT ![b] = 1]
  /\ rcv_wnd' = rcv_wnd - 1
  /\ UNCHANGED <<sndbuf, poll, history>>

RecvConfig(b) ==
  /\ CallbackRuns
  /\ state = "ES_ACCEPTED"
  /\ Deliver(b)
  /\ state' = "ES_RECEIVED"
  /\ p' = b
  /\ next' = [next EXCEPT ![b] = Null]
  /\ ref' = [ref EXCEPT ![b] = 1]
  /\ rcv_wnd' = rcv_wnd - 1
  /\ UNCHANGED <<sent_cb, sndbuf, poll, history>>

(* TCP_UART_send sends the pbuf on only if it fits the TCP send buffer. *)
RecvData(b) ==
  /\ CallbackRuns
  /\ state = "ES_RECEIVED"
  /\ p = Null
  /\ Deliver(b)
  /\ sent_cb' = "TCP_UART_sent"
  /\ next' = [next EXCEPT ![b] = Null]
  /\ IF sndbuf > 0
       THEN /\ p' = Null
            /\ ref' = ref
            /\ rcv_wnd' = rcv_wnd
            /\ consumed' = Append(consumed, <<rcvd + 1, "ring">>)
       ELSE /\ p' = b
            /\ ref' = [ref EXCEPT ![b] = 1]
            /\ rcv_wnd' = rcv_wnd - 1
            /\ UNCHANGED consumed
  /\ UNCHANGED <<state, sndbuf, poll, aborted>>

(* pbuf_chain with the reference it takes left out *)
RecvChainMutant(b) ==
  /\ CallbackRuns
  /\ state = "ES_RECEIVED"
  /\ p # Null
  /\ Deliver(b)
  /\ next' = [next EXCEPT ![b] = Null, ![Chain(p)[1]] = b]
  /\ ref' = [ref EXCEPT ![b] = 1]
  /\ rcv_wnd' = rcv_wnd - 1
  /\ UNCHANGED <<state, p, sent_cb, sndbuf, poll, history>>

RecvChain(b) ==
  /\ CallbackRuns
  /\ state = "ES_RECEIVED"
  /\ p # Null
  /\ Deliver(b)
  /\ next' = [next EXCEPT ![b] = Null, ![Chain(p)[Len(Chain(p))]] = b]
  /\ ref' = [ref EXCEPT ![b] = 2]
  /\ rcv_wnd' = rcv_wnd - 1
  /\ UNCHANGED <<state, p, sent_cb, sndbuf, poll, history>>

(* Mutant: whether something is still in es->p is not asked. *)
RecvFinAtOnce ==
  /\ CallbackRuns
  /\ state \in {"ES_ACCEPTED", "ES_RECEIVED"}
  /\ CloseConn
  /\ UNCHANGED <<rcvd, tcp, pbufs, poll, history>>

(* the peer closed: a NULL pbuf *)
RecvFin ==
  /\ CallbackRuns
  /\ state \in {"ES_ACCEPTED", "ES_RECEIVED"}
  /\ IF p = Null
       THEN CloseConn
       ELSE state' = "ES_CLOSING" /\ UNCHANGED <<p, sent_cb>>
  /\ UNCHANGED <<rcvd, tcp, pbufs, poll, history>>

(***************************************************************************)
(* The peer acknowledged n segments: lwIP calls what tcp_sent registered.   *)
(* echo_send writes as many pbufs as fit; tcp_write may run out of memory   *)
(* before that only while other segments are queued.                       *)
(***************************************************************************)
Acked(n) ==
  /\ CallbackRuns
  /\ state # "ES_NONE"
  /\ sndbuf + n <= SndBuf
  /\ UNCHANGED <<rcvd, next, seg, poll, aborted>>

NothingMore ==
  IF state = "ES_CLOSING"
    THEN CloseConn
    ELSE UNCHANGED <<state, p, sent_cb>>

AckedNoCallback(n) ==
  /\ Acked(n)
  /\ sent_cb = "none"
  /\ sndbuf' = sndbuf + n
  /\ UNCHANGED <<state, p, sent_cb, rcv_wnd, ref, consumed>>

echo_sent(n) ==
  /\ Acked(n)
  /\ sent_cb = "echo_sent"
  /\ IF p = Null
       THEN NothingMore /\ sndbuf' = sndbuf + n /\ UNCHANGED <<rcv_wnd, ref, consumed>>
       ELSE \E k \in 0..Len(Chain(p)) :
              LET room == sndbuf + n IN
              /\ k <= room
              /\ k < Len(Chain(p)) /\ k < room => room - k < SndBuf
              /\ sndbuf' = room - k
              /\ Consume(p, k, "echo")
              /\ ref' = ChopMany(p, k)
              /\ rcv_wnd' = rcv_wnd + k
              /\ p' = AfterFirst(p, k)
              /\ UNCHANGED <<state, sent_cb>>

(* here every pbuf goes to the ring, if the first one fits the send buffer *)
TCP_UART_sent(n) ==
  /\ Acked(n)
  /\ sent_cb = "TCP_UART_sent"
  /\ sndbuf' = sndbuf + n
  /\ IF p = Null
       THEN NothingMore /\ UNCHANGED <<rcv_wnd, ref, consumed>>
       ELSE LET k == Len(Chain(p)) IN
            /\ Consume(p, k, "ring")
            /\ ref' = ChopMany(p, k)
            /\ rcv_wnd' = rcv_wnd + k
            /\ p' = Null
            /\ UNCHANGED <<state, sent_cb>>

(* echo_error: the connection is dead, es is freed and nothing else *)
echo_error ==
  /\ CallbackRuns
  /\ MayAbort
  /\ state # "ES_NONE"
  /\ CloseConn
  /\ aborted' = aborted \union Range(Chain(p))
  /\ UNCHANGED <<rcvd, tcp, pbufs, poll, consumed>>

-----------------------------------------------------------------------------
(***************************************************************************)
(* echo_poll, in the main loop.  ReadInPoll may put UART data in the send   *)
(* buffer first.  echo_send is split where a callback could come between    *)
(* two accesses to es->p.                                                  *)
(***************************************************************************)
echo_poll_mutant ==               \* without echo_send
  /\ pc = "idle"
  /\ state # "ES_NONE"
  /\ \E n \in {0, 1} : n <= sndbuf /\ sndbuf' = sndbuf - n
  /\ UNCHANGED <<conn, p, rcv_wnd, pbufs, poll, history>>

echo_poll ==
  /\ pc = "idle"
  /\ state # "ES_NONE"
  /\ \E n \in {0, 1} : n <= sndbuf /\ sndbuf' = sndbuf - n
  /\ IF p = Null
       THEN UNCHANGED <<sent_cb, pc>>
       ELSE sent_cb' = "echo_sent" /\ pc' = "check"
  /\ UNCHANGED <<state, p, rcvd, rcv_wnd, pbufs, ptr, nxt, history>>

(***************************************************************************)
(* A callback freed es under the loop.  echo_close runs only when es->p is  *)
(* NULL, and mem_free leaves the block as it was: the loop ends.  Had the   *)
(* block a new owner already, anything could follow; the model stops there. *)
(***************************************************************************)
EsFreed == state = "ES_NONE"

(* the head of the loop, and tcp_write *)
PollCheck ==
  /\ pc = "check"
  /\ ~EsFreed
  /\ \/ /\ p = Null \/ sndbuf = 0
        /\ pc' = "idle"
        /\ UNCHANGED <<ptr, sndbuf, consumed>>
     \/ /\ p # Null
        /\ sndbuf > 0
        /\ sndbuf' = sndbuf - 1
        /\ ptr' = p
        /\ Consume(p, 1, "echo")
        /\ pc' = "load"
     \/ /\ p # Null
        /\ sndbuf \in 1..(SndBuf - 1)      \* ERR_MEM
        /\ pc' = "idle"
        /\ UNCHANGED <<ptr, sndbuf, consumed>>
  /\ UNCHANGED <<conn, p, rcv_wnd, pbufs, nxt, aborted>>

PollLoad ==
  /\ pc = "load"
  /\ nxt' = next[ptr]
  /\ pc' = "store"
  /\ UNCHANGED <<conn, p, tcp, pbufs, ptr, history>>

PollStore ==
  /\ pc = "store"
  /\ ~EsFreed
  /\ p' = nxt
  /\ ref' = IF nxt = Null THEN ref ELSE [ref EXCEPT ![nxt] = @ + 1]
  /\ pc' = "free"
  /\ UNCHANGED <<conn, tcp, next, seg, ptr, nxt, history>>

(* the window opened by the whole chain's length *)
PollFreeTotLen ==
  /\ pc = "free"
  /\ ref' = TryHard(ptr, ref)
  /\ rcv_wnd' = rcv_wnd + Len(Chain(ptr))
  /\ pc' = "check"
  /\ UNCHANGED <<conn, p, sndbuf, next, seg, ptr, nxt, history>>

(* tcp_recved left out *)
PollFreeKeepsWnd ==
  /\ pc = "free"
  /\ ref' = TryHard(ptr, ref)
  /\ pc' = "check"
  /\ UNCHANGED <<conn, p, tcp, next, seg, ptr, nxt, history>>

(* tcp_recved goes with it *)
PollFree ==
  /\ pc = "free"
  /\ ref' = TryHard(ptr, ref)
  /\ rcv_wnd' = rcv_wnd + 1
  /\ pc' = "check"
  /\ UNCHANGED <<conn, p, sndbuf, next, seg, ptr, nxt, history>>

PollAfterFree ==
  /\ pc \in {"check", "store"}
  /\ EsFreed
  /\ pc' = "idle"
  /\ UNCHANGED <<conn, p, tcp, pbufs, ptr, nxt, history>>

Poll == echo_poll \/ PollCheck \/ PollLoad \/ PollStore \/ PollFree
  \/ PollAfterFree

Next ==
  \/ echo_accept
  \/ \E b \in Pbuf : RecvConfig(b) \/ RecvData(b) \/ RecvChain(b)
  \/ RecvFin
  \/ \E n \in 1..SndBuf : AckedNoCallback(n) \/ echo_sent(n) \/ TCP_UART_sent(n)
  \/ echo_error
  \/ Poll

Spec == Init /\ [][Next]_vars

(***************************************************************************)
(* A connection with something in es->p goes on being polled (a poll of one *)
(* without may do nothing), and echo_send's loop goes on looping; a peer    *)
(* that is there acknowledges, again and again, all that is in flight (the  *)
(* round trip is shorter than the 500 ms between two polls).  Nothing is    *)
(* assumed of what the peer sends or when it closes.                       *)
(***************************************************************************)
AllAcked ==
  \E n \in 1..SndBuf :
    /\ sndbuf + n = SndBuf
    /\ AckedNoCallback(n) \/ echo_sent(n) \/ TCP_UART_sent(n)

PollEchoes == (echo_poll /\ p # Null) \/ (pc # "idle" /\ Poll)

Fairness == WF_vars(PollEchoes) /\ SF_vars(AllAcked)

FairSpec == Spec /\ Fairness

-----------------------------------------------------------------------------
(***************************************************************************)
(* Properties.  Those about whole segments are stated between two rounds of *)
(* the main loop, and those after them hold only while a callback does not  *)
(* come in the middle of echo_poll (~RxInterrupt).                          *)
(***************************************************************************)
Quiet == pc = "idle"

Consumed == Range(consumed)

Segments(s) == [i \in 1..Len(s) |-> seg[s[i]]]

(***************************************************************************)
(* The configuration segment never reaches the serial side, although it     *)
(* lies in es->p like data and TCP_UART_sent sends whatever lies there.     *)
(***************************************************************************)
ConfigNotToUart == <<1, "ring">> \notin Consumed

(***************************************************************************)
(* Every segment received is consumed once and in order, or waits in es->p  *)
(* behind those before it, whichever of echo_send and TCP_UART_send takes   *)
(* it and whatever their reference counting does to the rest of the chain.  *)
(***************************************************************************)
InOrder ==
  Quiet /\ state # "ES_NONE" =>
    [i \in 1..Len(consumed) |-> consumed[i][1]] \o Segments(Chain(p))
      = [i \in 1..rcvd |-> i]

(***************************************************************************)
(* The receive window is short of exactly what es->p holds: it is whole     *)
(* when echo_close runs, and tcp_close then does not reset the connection.  *)
(***************************************************************************)
WindowConserved ==
  Quiet /\ state # "ES_NONE" => rcv_wnd = Wnd - Len(Chain(p))

(***************************************************************************)
(* pbuf_chain leaves two references to a chained pbuf, and only the loops   *)
(* that try hard get rid of both: no pbuf is left allocated but those in    *)
(* es->p and those echo_error forgets.                                     *)
(***************************************************************************)
OnlyAbortLeaks ==
  Quiet => {b \in Pbuf : ref[b] > 0} = Range(Chain(p)) \union aborted

(***************************************************************************)
(* All of this together: the connection implements SegmentInbox.  What      *)
(* echo_poll has written back is taken, although it leaves es->p only two    *)
(* steps later, and what echo_error forgets is lost.                        *)
(***************************************************************************)
Phase ==
  CASE state = "ES_NONE" -> "closed"
    [] state = "ES_CLOSING" -> "closing"
    [] OTHER -> "open"

Taken == [i \in 1..Len(consumed) |-> consumed[i][2]]

Inbox == INSTANCE SegmentInbox WITH
  Window <- Wnd, Cells <- Cardinality(Pbuf),
  phase <- Phase,
  arrived <- rcvd,
  taken <- Taken,
  lost <- Cardinality(aborted)

InboxSpec == Inbox!Spec

(***************************************************************************)
(* Segments received are all written back or sent on in the end, unless the *)
(* connection ends first (a connection brings at most MaxSegs, so the last  *)
(* one is not put off for ever by others behind it).                       *)
(***************************************************************************)
AllConsumed == \A k \in 1..rcvd : \E c \in Consumed : c[1] = k

SegmentConsumed ==
  state # "ES_NONE" /\ ~AllConsumed ~> state = "ES_NONE" \/ AllConsumed

(***************************************************************************)
(* The head of echo.c: it passively closes when the client is done.  The    *)
(* code breaks it.                                                         *)
(***************************************************************************)
ClosesWhenClientDone == state = "ES_CLOSING" ~> state = "ES_NONE"

(***************************************************************************)
(* struct echo_state says the chain in p is recycled, and pbuf_free that a  *)
(* reference count is the number of pointers to the pbuf: a pbuf no longer  *)
(* in es->p is free, and one in es->p is not.  The code breaks it when the  *)
(* peer resets the connection, and when echo_recv interrupts echo_send.     *)
(***************************************************************************)
PbufsRecycled ==
  Quiet => {b \in Pbuf : ref[b] > 0} = Range(Chain(p))
=============================================================================
