------------------------------- MODULE Alarms -------------------------------
(***************************************************************************)
(* What lwIP's timeouts promise, without the list and its relative times:   *)
(* an alarm is set for its interval, less at most Lateness if the loop is    *)
(* behind; from then on only the clock brings it nearer, whatever else is    *)
(* set or rings; it rings when its time has come and not before, the most    *)
(* urgent first.  All of them may slip to a later time, together.  The       *)
(* promise ends when an alarm is lost.                                      *)
(***************************************************************************)
EXTENDS Integers, Sequences, SequencesExt

CONSTANTS
  Who,        \* who has an alarm set
  Interval,   \* for how long each sets its own
  Lateness    \* how far behind the loop may be

VARIABLES
  alarms,     \* who has one set and the time left, the most urgent first
  lost        \* whether one was lost

vars == <<alarms, lost>>

(* Everyone has set one alarm. *)
Init ==
  /\ \A k \in Who : \E j \in 1..Len(alarms) : alarms[j] = [who |-> k, in |-> Interval[k]]
  /\ \A i, j \in 1..Len(alarms) : alarms[i].who = alarms[j].who => i = j
  /\ lost = FALSE

Later(d) == [j \in 1..Len(alarms) |-> [alarms[j] EXCEPT !.in = @ + d]]

Tick == alarms' = Later(-1)

Slip(d) == alarms' = Later(d)

Set(k, d) ==
  LET in == Interval[k] - d IN
  \E i \in 1..Len(alarms) + 1 :
    /\ \A j \in 1..Len(alarms) : alarms[j].in <= in <=> j < i
    /\ alarms' = InsertAt(alarms, i, [who |-> k, in |-> in])

Ring ==
  /\ alarms # <<>>
  /\ Head(alarms).in <= 0
  /\ alarms' = Tail(alarms)

Keep ==
  /\ \/ Tick
     \/ \E d \in 1..Lateness : Slip(d)
     \/ \E k \in Who, d \in 0..Lateness : Set(k, d)
     \/ Ring
  /\ UNCHANGED lost

Lose == lost' = TRUE

Next == (~lost /\ Keep) \/ Lose

Spec == Init /\ [][Next]_vars
=============================================================================
