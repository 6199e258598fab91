------------------------------ MODULE LwipTimers ------------------------------
(***************************************************************************)
(* lwIP's timeouts (lwip_timers.c): the list of pending handlers that the   *)
(* main loop works off in sys_check_timeouts, and the TCP timer, which runs *)
(* only while there are connections and on which ReadInPoll depends.        *)
(*                                                                         *)
(* The Ethernet interrupt opens and closes connections (TCP_REG, TCP_RMV)   *)
(* and may so call sys_timeout between any two steps of the loop; nothing   *)
(* is protected (SYS_LIGHTWEIGHT_PROT 0).  The interrupt's sys_timeout is    *)
(* one step; the loop is split where such a step makes a difference.  In    *)
(* three places it breaks into the loop's work on the pool's list or on the *)
(* list of timeouts; a torn list is not followed: the model ends there.     *)
(*                                                                         *)
(* A pending timeout is its handler and the time after the one before it;  *)
(* its cell of the pool MEMP_SYS_TIMEOUT is counted.                        *)
(***************************************************************************)
EXTENDS Integers, Sequences, FiniteSets, SequencesExt

CONSTANTS
  Started,   \* the handlers sys_timeouts_init starts before TCP's, in order
  TCP,       \* tcpip_tcp_timer
  Interval,  \* ticks between two calls of a handler
  Pool,      \* MEMP_NUM_SYS_TIMEOUT
  MaxLate,   \* bound: ticks the loop may be late
  MaxPcbs    \* MEMP_NUM_TCP_PCB

Cyclic == ToSet(Started)
Handler == Cyclic \cup {TCP}

ASSUME LwipTimersAssumption ==
  /\ Started \in Seq(Cyclic) /\ IsInjective(Started) /\ TCP \notin Cyclic
  /\ Interval \in [Handler -> Nat \ {0}]
  /\ Pool \in Nat
  /\ MaxLate \in Nat /\ MaxPcbs \in Nat

VARIABLES
  list,    \* next_timeout
  late,    \* ticks since timeouts_last_time
  since,   \* ticks since sys_check_timeouts read the clock
  diff,    \* its local: ticks still to be worked off
  pc,      \* its place
  h,       \* the handler it runs
  ahead,   \* entries before tmptimeout, or before its successor once loaded
  active,  \* tcpip_tcp_timer_active
  pcbs,    \* tcp_active_pcbs and tcp_tw_pcbs
  leaked,  \* history: timeouts of the interrupt's that were lost with tmptimeout
  missed,  \* history: the timer went off as a connection was opened
  torn     \* history: the interrupt broke into the loop's work on a list

check == <<since, diff, pc, h, ahead>>
vars == <<list, late, check, active, pcbs, leaked, missed, torn>>

Intervals == {Interval[k] : k \in Handler}
Timeout == [h : Handler, time : 0..Max(Intervals)]

TypeOK ==
  /\ list \in Seq(Timeout)
  /\ late \in 0..MaxLate /\ since \in 0..MaxLate /\ diff \in 0..MaxLate
  /\ pc \in {"idle", "test", "pop", "next", "popped", "free", "run", "decide", "clear",
             "alloc", "take", "cell", "link"}
  /\ h \in Handler
  /\ ahead \in 0..2
  /\ active \in BOOLEAN
  /\ pcbs \in 0..MaxPcbs
  /\ leaked \in Nat /\ missed \in BOOLEAN /\ torn \in BOOLEAN

-----------------------------------------------------------------------------
(* How long after timeouts_last_time the k-th entry is due. *)
DueAt(q) == LET f[k \in 0..Len(q)] == IF k = 0 THEN 0 ELSE f[k - 1] + q[k].time IN f

(* sys_timeout on a list q, with a cell at hand. *)
Place(q, k) == Cardinality({j \in 1..Len(q) : DueAt(q)[j] <= Interval[k]})

Insert(q, k) ==
  LET i == Place(q, k)
      time == Interval[k] - DueAt(q)[i] IN
  InsertAt([j \in 1..Len(q) |->
              IF j = i + 1 THEN [q[j] EXCEPT !.time = @ - time] ELSE q[j]],
           i + 1, [h |-> k, time |-> time])

(* sys_timeouts_init: one handler after the other, the TCP timer last, *)
Startup ==
  LET all == Append(Started, TCP)
      built[k \in 0..Len(all)] ==
        IF k = 0 THEN <<>> ELSE Insert(built[k - 1], all[k])
  IN built[Len(all)]

(* and tcpip_tcp_timer_active is not set. *)
Init ==
  /\ list = Startup
  /\ late = 0 /\ since = 0 /\ diff = 0
  /\ pc = "idle" /\ h = TCP /\ ahead = 0
  /\ active = FALSE
  /\ pcbs = 0
  /\ leaked = 0 /\ missed = FALSE /\ torn = FALSE

-----------------------------------------------------------------------------
(***************************************************************************)
(* The main loop: sys_check_timeouts.                                      *)
(***************************************************************************)
LoopAt(place) == ~torn /\ pc = place

GoesOn(from, to) ==
  /\ LoopAt(from)
  /\ pc' = to
  /\ UNCHANGED <<list, late, since, diff, h, ahead, active, pcbs, leaked, missed, torn>>

CheckBegins ==
  /\ LoopAt("idle")
  /\ list # <<>>
  /\ diff' = late
  /\ since' = 0
  /\ pc' = "test"
  /\ UNCHANGED <<list, late, h, ahead, active, pcbs, leaked, missed, torn>>

(* Mutant: it is not asked whether the timeout has expired. *)
ExpiredAnyway ==
  /\ LoopAt("test")
  /\ list # <<>>
  /\ late' = since
  /\ diff' = diff - Head(list).time
  /\ ahead' = 0
  /\ pc' = "pop"
  /\ UNCHANGED <<list, since, h, active, pcbs, leaked, missed, torn>>

(* Mutant: timeouts_last_time stays. *)
ExpiredKeepsLastTime ==
  /\ LoopAt("test")
  /\ list # <<>>
  /\ Head(list).time <= diff
  /\ diff' = diff - Head(list).time
  /\ ahead' = 0
  /\ pc' = "pop"
  /\ UNCHANGED <<list, late, since, h, active, pcbs, leaked, missed, torn>>

(* tmptimeout = next_timeout has expired, *)
Expired ==
  /\ LoopAt("test")
  /\ list # <<>>
  /\ Head(list).time <= diff
  /\ late' = since
  /\ diff' = diff - Head(list).time
  /\ ahead' = 0
  /\ pc' = "pop"
  /\ UNCHANGED <<list, since, h, active, pcbs, leaked, missed, torn>>

(* or not, and sys_check_timeouts returns. *)
CheckEnds ==
  /\ LoopAt("test")
  /\ list # <<>> => Head(list).time > diff
  /\ pc' = "idle" /\ diff' = 0 /\ since' = 0 /\ ahead' = 0
  /\ UNCHANGED <<list, late, h, active, pcbs, leaked, missed, torn>>

(* tmptimeout->next is loaded, *)
LoadsNext ==
  /\ LoopAt("pop")
  /\ h' = list[ahead + 1].h
  /\ ahead' = ahead + 1
  /\ pc' = "next"
  /\ UNCHANGED <<list, late, since, diff, active, pcbs, leaked, missed, torn>>

(* (mutant: next_timeout->next) *)
PopHead ==
  /\ LoopAt("next")
  /\ list' = Tail(list)
  /\ pc' = "popped"
  /\ UNCHANGED <<late, since, diff, h, ahead, active, pcbs, leaked, missed, torn>>

(* and stored to next_timeout. *)
Pop ==
  /\ LoopAt("next")
  /\ list' = SubSeq(list, ahead + 1, Len(list))
  /\ leaked' = leaked + ahead - 1
  /\ pc' = "popped"
  /\ UNCHANGED <<late, since, diff, h, ahead, active, pcbs, missed, torn>>

(* memp_free loads the pool's head and makes the cell the new one. *)
Frees == GoesOn("popped", "free")
Freed == GoesOn("free", "run")

(* Mutant: the handler does not restart itself. *)
CyclicRunsOnce == h # TCP /\ GoesOn("run", "test")

CyclicRuns == h # TCP /\ GoesOn("run", "alloc")

(* tcp_tmr: connections may time out. *)
TcpRuns ==
  /\ LoopAt("run")
  /\ h = TCP
  /\ pcbs' \in 0..pcbs
  /\ pc' = "decide"
  /\ UNCHANGED <<list, late, since, diff, h, ahead, active, leaked, missed, torn>>

TcpDecides == GoesOn("decide", IF pcbs > 0 THEN "alloc" ELSE "clear")

(* Mutant: tcpip_tcp_timer_active stays set. *)
TcpClearsNot == GoesOn("clear", "test")

TcpClears ==
  /\ LoopAt("clear")
  /\ active' = FALSE
  /\ missed' = (pcbs > 0)
  /\ pc' = "test"
  /\ UNCHANGED <<list, late, since, diff, h, ahead, pcbs, leaked, torn>>

(* sys_timeout: memp_malloc loads the pool's head and makes its successor the new *)
(* one; the list is looked at, *)
Allocates == GoesOn("alloc", "take")
Allocated == GoesOn("take", "cell")
Seeks == GoesOn("cell", "link")

(* and the place in it is known. *)
Links ==
  /\ LoopAt("link")
  /\ list' = Insert(list, h)
  /\ pc' = "test"
  /\ UNCHANGED <<late, since, diff, h, ahead, active, pcbs, leaked, missed, torn>>

Loop ==
  \/ CheckBegins \/ Expired \/ CheckEnds \/ LoadsNext \/ Pop \/ Frees \/ Freed
  \/ CyclicRuns \/ TcpRuns \/ TcpDecides \/ TcpClears
  \/ Allocates \/ Allocated \/ Seeks \/ Links

-----------------------------------------------------------------------------
(***************************************************************************)
(* The Ethernet interrupt, and the clock.                                  *)
(***************************************************************************)
(* The loop has loaded the head of a list and not yet stored what follows from it. *)
AtList == pc \in {"free", "take", "link"}

Starts ==
  /\ ~AtList
  /\ list' = Insert(list, TCP)
  /\ ahead' = ahead + (IF pc \in {"pop", "next"} /\ Place(list, TCP) <= ahead THEN 1 ELSE 0)
  /\ UNCHANGED <<pc, torn>>

Tears ==
  /\ AtList
  /\ torn' = TRUE
  /\ UNCHANGED <<list, pc, ahead>>

(* Mutant: whether the timer is on already is not asked. *)
tcp_timer_needed_always ==
  IF pcbs' > 0
    THEN active' = TRUE /\ missed' = FALSE /\ (Starts \/ Tears)
    ELSE UNCHANGED <<list, pc, ahead, active, missed, torn>>

tcp_timer_needed ==
  IF ~active /\ pcbs' > 0
    THEN active' = TRUE /\ missed' = FALSE /\ (Starts \/ Tears)
    ELSE UNCHANGED <<list, pc, ahead, active, missed, torn>>

(* TCP_REG, of a new connection or of one that goes to TIME_WAIT *)
TCP_REG ==
  /\ ~torn
  /\ pcbs' \in {pcbs, pcbs + 1} \cap 1..MaxPcbs
  /\ tcp_timer_needed
  /\ UNCHANGED <<late, since, diff, h, leaked>>

TCP_RMV ==
  /\ ~torn
  /\ pcbs > 0
  /\ pcbs' = pcbs - 1
  /\ UNCHANGED <<list, late, check, active, leaked, missed, torn>>

Tick ==
  /\ ~torn
  /\ late < MaxLate
  /\ late' = late + 1
  /\ since' = IF pc = "idle" THEN 0 ELSE since + 1
  /\ UNCHANGED <<list, diff, pc, h, ahead, active, pcbs, leaked, missed, torn>>

-----------------------------------------------------------------------------
Next == Loop \/ TCP_REG \/ TCP_RMV \/ Tick

(* The main loop never blocks, and time passes. *)
Fairness == WF_vars(Loop) /\ WF_vars(Tick)

Spec == Init /\ [][Next]_vars /\ Fairness

-----------------------------------------------------------------------------
(* tmptimeout has been popped, and its handler has yet to put itself in again. *)
Out == pc \in {"popped", "free", "run", "decide", "alloc", "take", "cell", "link"}

TcpRunning == h = TCP /\ (Out \/ pc = "clear")
Pending(k) == {j \in 1..Len(list) : list[j].h = k}
Running(k) == IF h = k /\ Out THEN 1 ELSE 0

(* The list implements Alarms as long as the loop loses no timeout with the    *)
(* one it pops: its times are relative to each other, to timeouts_last_time    *)
(* or to what sys_check_timeouts has worked off.                              *)
Past ==
  CASE pc = "idle" -> late
    [] pc = "pop"  -> since + diff + DueAt(list)[ahead + 1]
    [] pc = "next" -> since + diff + DueAt(list)[ahead]
    [] OTHER       -> since + diff

TimeLeft == [j \in 1..Len(list) |-> [who |-> list[j].h, in |-> DueAt(list)[j] - Past]]

(* The interrupt has put a timeout where the loop is about to cut the list. *)
Losing == leaked > 0 \/ (pc = "next" /\ ahead > 1)

Clock == INSTANCE Alarms WITH
  Who <- Handler,
  Lateness <- 2 * MaxLate,
  alarms <- TimeLeft,
  lost <- Losing

AlarmSpec == Clock!Spec

(* sys_timeouts_init starts a TCP timer without noting it, so two may run, but *)
(* never three, and only one while none is noted. *)
TcpTimersBounded ==
  ~torn => Cardinality(Pending(TCP)) + Running(TCP) <= (IF active THEN 2 ELSE 1)

(* While there is a connection the TCP timer is noted, and when it is noted it *)
(* is pending or running, unless the interrupt opened a connection just before *)
(* tcpip_tcp_timer gave up, or put its timeout before the one the loop popped.  *)
(* The first is made good by the next TCP_REG. *)
TimerWhenNeeded ==
  ~torn /\ ~missed /\ leaked = 0 =>
    /\ pcbs > 0 => active
    /\ active => Pending(TCP) # {} \/ TcpRunning

(* Every other handler is pending or running, exactly once. *)
CyclicKept ==
  ~torn => \A k \in Cyclic : Cardinality(Pending(k)) + Running(k) = 1

(* The pool is never asked for more than it has, which would end in             *)
(* LWIP_ASSERT's endless loop: it needs one cell more than lwIP counts          *)
(* timeouts (the default of MEMP_NUM_SYS_TIMEOUT), for the second TCP timer.    *)
(* The cells of the timeouts that were lost never come back, and it suffices    *)
(* all the same; so does the cell the loop has in its hand when the interrupt   *)
(* takes one. *)
PoolSuffices ==
  ~torn =>
    Len(list) + leaked + (IF pc \in {"popped", "free", "take", "cell", "link"} THEN 1 ELSE 0)
      <= Pool

(* Every handler goes on being called. *)
HandlersRun == \A k \in Cyclic : []<>((pc = "run" /\ h = k) \/ torn)

(* A connection that stays is polled, with the exceptions above. *)
TcpTimerRuns ==
  pcbs > 0 ~> pcbs = 0 \/ (pc = "run" /\ h = TCP) \/ missed \/ leaked > 0 \/ torn
=============================================================================
