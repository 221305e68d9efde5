---------------------------- MODULE DaemonProofs ----------------------------
(***************************************************************************)
(* No synchronisation outlives the call that stopped it, and no two of     *)
(* them run at once, for any number of callers, schedulers and rules.      *)
(*                                                                         *)
(* NoStrayRounds is not inductive: that Stop may forget a scheduler rests  *)
(* on what its flags and channels say of its goroutine, and on the mutex   *)
(* that keeps d.scheduler still from the look at the flag to the end of    *)
(* the wait.  The counters of a scheduler add up to the rounds it began.   *)
(***************************************************************************)
EXTENDS Daemon, TLAPS

Inside == {"enter", "publish", "signal", "wait", "leave"}

(* The types the argument needs: the counters of the rounds play no part. *)
Types ==
  /\ mu \in Caller \cup {None}
  /\ made \in 0..MaxStarts /\ scheduler \in 0..made
  /\ pc \in [Caller -> Pcs] /\ op \in [Caller -> Ops \cup {"none"}]
  /\ running \in [Sched -> BOOLEAN] /\ stopChan \in [Sched -> BOOLEAN]
  /\ stoppedChan \in [Sched -> BOOLEAN] /\ cancelled \in [Sched -> BOOLEAN]
  /\ gor \in [Sched -> Gors]

(* A caller in the middle of Start, Stop or Close holds d.mu. *)
Mutex == \A c \in Caller : pc[c] \in Inside => mu = c

(* While Start has a goroutine nobody knows of there is no other; Stop     *)
(* has one to wait for.                                                    *)
Known ==
  \A c \in Caller :
    /\ pc[c] = "publish" => scheduler = 0 /\ made # 0
    /\ pc[c] \in {"signal", "wait"} => scheduler # 0

(* What flags and channels say of the goroutine. *)
Flags ==
  \A k \in Sched :
    /\ k > made => gor[k] = "none"
    /\ ~running[k] => gor[k] \in {"none", "closing", "done"}
    /\ stoppedChan[k] => gor[k] = "done"

DaemonInv == Types /\ Mutex /\ Known /\ Flags /\ NoStrayRounds

-----------------------------------------------------------------------------
(* Nothing runs, nobody is inside a method. *)
LEMMA InitDaemonInv == Init => DaemonInv
<1>. SUFFICES ASSUME Init PROVE DaemonInv
  OBVIOUS
<1>. USE ConstantsAssumption DEF Init
<1>1. Types
  BY DEF Types, Sched, Pcs, Ops, Gors
<1>2. Mutex /\ Known
  BY DEF Mutex, Known, Inside
<1>3. Flags /\ NoStrayRounds
  BY DEF Flags, NoStrayRounds
<1>. QED
  BY <1>1, <1>2, <1>3 DEF DaemonInv

(* No step of a caller or of a goroutine disturbs the invariant. *)
LEMMA CallerKeepsInv ==
  ASSUME DaemonInv, NEW c \in Caller,
         Lock(c) \/ Status(c) \/ CallerStep(c) \/ (\E o \in Ops : Call(c, o))
  PROVE  DaemonInv'
<1>. USE ConstantsAssumption DEF DaemonInv, Sched, Goto
<1>1. CASE \E o \in Ops : Call(c, o)
  <2>. PICK o \in Ops : Call(c, o)
    BY <1>1
  <2>. USE DEF Call, flags, rounds
  <2>1. Types'
    BY DEF Types, Pcs
  <2>2. (Mutex /\ Known)'
    BY DEF Mutex, Known, Inside, Types
  <2>3. (Flags /\ NoStrayRounds)'
    BY DEF Flags, NoStrayRounds, Types
  <2>. QED
    BY <2>1, <2>2, <2>3
<1>2. CASE Lock(c)
  <2>. USE <1>2 DEF Lock, flags, rounds
  <2>1. Types'
    BY DEF Types, Pcs
  <2>2. (Mutex /\ Known)'
    BY DEF Mutex, Known, Inside, Types
  <2>3. (Flags /\ NoStrayRounds)'
    BY DEF Flags, NoStrayRounds, Types
  <2>. QED
    BY <2>1, <2>2, <2>3
<1>3. CASE Status(c)
  <2>. USE <1>3 DEF Status, Return, flags, rounds
  <2>1. Types'
    BY DEF Types, Pcs, Ops
  <2>2. (Mutex /\ Known)'
    BY DEF Mutex, Known, Inside, Types
  <2>3. (Flags /\ NoStrayRounds)'
    BY DEF Flags, NoStrayRounds, Types
  <2>. QED
    BY <2>1, <2>2, <2>3
<1>4. CASE StartScheduler(c)
  <2>0. mu = c /\ \A d \in Caller \ {c} : pc[d] \notin Inside
    BY <1>4 DEF StartScheduler, Mutex, Inside
  <2>1. CASE made' = made
    <3>. USE <1>4, <2>1 DEF StartScheduler, Return, Types
    <3>1. Return(c) /\ UNCHANGED <<made, running, gor>>
      OBVIOUS
    <3>2. Types'
      BY <3>1 DEF Pcs, Ops
    <3>3. (Mutex /\ Known)'
      BY <3>1 DEF Mutex, Known, Inside
    <3>4. (Flags /\ NoStrayRounds)'
      BY <3>1 DEF Flags, NoStrayRounds
    <3>. QED
      BY <3>2, <3>3, <3>4
  <2>2. CASE made' # made
    <3>1. /\ scheduler = 0 /\ scheduler' = 0 /\ made < MaxStarts /\ made' = made + 1
          /\ running' = [running EXCEPT ![made + 1] = TRUE]
          /\ gor' = [gor EXCEPT ![made + 1] = "select"]
          /\ pc' = [pc EXCEPT ![c] = "publish"]
          /\ UNCHANGED <<mu, op, stopped, stopChan, stoppedChan, cancelled>>
      BY <1>4, <2>2 DEF StartScheduler
    <3>2. made + 1 \in Sched
      BY <3>1 DEF Types
    <3>3. Types'
      BY <3>1, <3>2 DEF Types, Pcs, Gors
    <3>4. (Mutex /\ Known)'
      BY <2>0, <3>1 DEF Types, Mutex, Known, Inside
    <3>5. Flags'
      BY <3>1, <3>2 DEF Types, Flags
    <3>6. \A k \in Sched : gor[k] \notin {"select", "round"}
      BY <1>4, <2>0, <3>1 DEF StartScheduler, NoStrayRounds, Inside
    <3>7. NoStrayRounds'
      BY <3>1, <3>2, <3>6 DEF Types, NoStrayRounds
    <3>. QED
      BY <3>3, <3>4, <3>5, <3>7
  <2>. QED
    BY <2>1, <2>2
<1>5. CASE Publish(c)
  <2>0. mu = c /\ (\A d \in Caller \ {c} : pc[d] \notin Inside) /\ scheduler = 0
    BY <1>5 DEF Publish, Mutex, Known, Inside
  <2>. USE <1>5, <2>0 DEF Publish, Return, flags, rounds
  <2>1. Types'
    BY DEF Types, Pcs, Ops
  <2>2. (Mutex /\ Known)'
    <3>1. Mutex'
      BY DEF Mutex, Inside, Types
    <3>2. Known'
      BY DEF Known, Inside, Types
    <3>. QED
      BY <3>1, <3>2
  <2>3. Flags'
    BY DEF Flags, Types
  <2>4. NoStrayRounds'
    BY DEF NoStrayRounds, Types, Inside
  <2>. QED
    BY <2>1, <2>2, <2>3, <2>4
<1>6. CASE Look(c)
  <2>0. mu = c /\ \A d \in Caller \ {c} : pc[d] \notin Inside
    BY <1>6 DEF Look, Mutex, Inside
  <2>1. /\ \/ /\ scheduler # 0 /\ running[scheduler]
              /\ Goto(c, "signal") /\ UNCHANGED <<mu, op, scheduler>>
           \/ /\ scheduler = 0 \/ ~running[scheduler]
              /\ Goto(c, "leave") /\ scheduler' = 0 /\ UNCHANGED <<mu, op>>
           \/ Return(c) /\ UNCHANGED scheduler
        /\ UNCHANGED <<made, running, stopChan, stoppedChan, cancelled, gor>>
    BY <1>6 DEF Look, flags
  <2>2. Types'
    BY <2>1 DEF Types, Pcs, Ops, Return
  <2>3. (Mutex /\ Known)'
    BY <2>0, <2>1 DEF Mutex, Known, Inside, Types, Return
  <2>4. Flags'
    BY <2>1 DEF Flags
  <2>5. NoStrayRounds'
    <3>1. scheduler' = scheduler \/ scheduler = 0 \/ ~running[scheduler]
      BY <2>1
    <3>2. \A k \in Sched : gor[k] \in {"select", "round"} => running[k] /\ scheduler = k
      BY <2>0, <1>6 DEF Look, Flags, NoStrayRounds, Inside
    <3>3. \A k \in Sched : gor[k] \in {"select", "round"} => scheduler' = k
      BY <3>1, <3>2
    <3>. QED
      BY <2>1, <3>3 DEF NoStrayRounds
  <2>. QED
    BY <2>2, <2>3, <2>4, <2>5
<1>7. CASE Signal(c)
  <2>. USE <1>7 DEF Signal, rounds
  <2>1. Types'
    BY DEF Types, Pcs, Known
  <2>2. (Mutex /\ Known)'
    BY DEF Mutex, Known, Inside, Types
  <2>3. (Flags /\ NoStrayRounds)'
    BY DEF Flags, NoStrayRounds, Types
  <2>. QED
    BY <2>1, <2>2, <2>3
<1>8. CASE Wait(c)
  <2>0. mu = c /\ (\A d \in Caller \ {c} : pc[d] \notin Inside) /\ scheduler \in Sched
    BY <1>8 DEF Wait, Mutex, Known, Inside, Types
  <2>. USE <1>8, <2>0 DEF Wait, Return, rounds
  <2>1. Types'
    BY DEF Types, Pcs, Ops
  <2>2. (Mutex /\ Known)'
    <3>1. Mutex'
      BY DEF Mutex, Inside, Types
    <3>2. Known'
      BY DEF Known, Inside, Types
    <3>. QED
      BY <3>1, <3>2
  <2>3. Flags'
    BY DEF Flags, Types
  <2>4. NoStrayRounds'
    <3>1. gor[scheduler] = "done"
      BY DEF Flags
    <3>2. \A k \in Sched : gor[k] \notin {"select", "round"}
      BY <3>1 DEF NoStrayRounds, Inside
    <3>. QED
      BY <3>2 DEF NoStrayRounds
  <2>. QED
    BY <2>1, <2>2, <2>3, <2>4
<1>9. CASE CloseResources(c)
  <2>. USE <1>9 DEF CloseResources, Return, flags, rounds
  <2>1. Types'
    BY DEF Types, Pcs, Ops
  <2>2. (Mutex /\ Known)'
    BY DEF Mutex, Known, Inside, Types
  <2>3. (Flags /\ NoStrayRounds)'
    BY DEF Flags, NoStrayRounds, Types
  <2>. QED
    BY <2>1, <2>2, <2>3
<1>. QED
  BY <1>1, <1>2, <1>3, <1>4, <1>5, <1>6, <1>7, <1>8, <1>9 DEF CallerStep

LEMMA GoroutineKeepsInv ==
  ASSUME DaemonInv, NEW k \in Sched,
         Tick(k) \/ Quit(k) \/ GoroutineStep(k) \/ Cancel(k)
  PROVE  DaemonInv'
<1>. USE DEF DaemonInv, At, callers, flags, rounds
<1>1. CASE Tick(k) \/ RunSync(k) \/ EndRound(k)
  <2>1. /\ gor[k] \in {"select", "round"}
        /\ \E g \in {"select", "round"} : gor' = [gor EXCEPT ![k] = g]
        /\ UNCHANGED <<callers, flags, cancelled>>
    BY <1>1 DEF Tick, RunSync, EndRound
  <2>. USE <2>1
  <2>2. Types'
    BY DEF Types, Gors
  <2>3. (Mutex /\ Known)'
    BY DEF Mutex, Known
  <2>4. (Flags /\ NoStrayRounds)'
    BY DEF Flags, NoStrayRounds, Types
  <2>. QED
    BY <2>2, <2>3, <2>4
<1>2. CASE Quit(k)
  <2>. USE <1>2 DEF Quit
  <2>1. Types'
    BY DEF Types, Gors
  <2>2. (Mutex /\ Known)'
    BY DEF Mutex, Known
  <2>3. (Flags /\ NoStrayRounds)'
    BY DEF Flags, NoStrayRounds, Types
  <2>. QED
    BY <2>1, <2>2, <2>3
<1>3. CASE MarkStopped(k)
  <2>. USE <1>3 DEF MarkStopped
  <2>1. Types'
    BY DEF Types, Gors
  <2>2. (Mutex /\ Known)'
    BY DEF Mutex, Known
  <2>3. (Flags /\ NoStrayRounds)'
    BY DEF Flags, NoStrayRounds, Types
  <2>. QED
    BY <2>1, <2>2, <2>3
<1>4. CASE CloseChan(k)
  <2>. USE <1>4 DEF CloseChan
  <2>1. Types'
    BY DEF Types, Gors
  <2>2. (Mutex /\ Known)'
    BY DEF Mutex, Known
  <2>3. (Flags /\ NoStrayRounds)'
    BY DEF Flags, NoStrayRounds, Types
  <2>. QED
    BY <2>1, <2>2, <2>3
<1>5. CASE Cancel(k)
  <2>. USE <1>5 DEF Cancel
  <2>1. Types'
    BY DEF Types
  <2>2. (Mutex /\ Known /\ Flags /\ NoStrayRounds)'
    BY DEF Mutex, Known, Flags, NoStrayRounds
  <2>. QED
    BY <2>1, <2>2
<1>. QED
  BY <1>1, <1>2, <1>3, <1>4, <1>5 DEF GoroutineStep

LEMMA NextDaemonInv == DaemonInv /\ [Next]_vars => DaemonInv'
<1>. SUFFICES ASSUME DaemonInv, [Next]_vars PROVE DaemonInv'
  OBVIOUS
<1>1. CASE Next
  <2>1. CASE \E c \in Caller : Lock(c) \/ Status(c) \/ CallerStep(c)
    BY <2>1, CallerKeepsInv
  <2>2. CASE \E c \in Caller, o \in Ops : Call(c, o)
    BY <2>2, CallerKeepsInv
  <2>3. CASE \E k \in Sched : Tick(k) \/ Quit(k) \/ GoroutineStep(k) \/ Cancel(k)
    BY <2>3, GoroutineKeepsInv
  <2>. QED
    BY <1>1, <2>1, <2>2, <2>3 DEF Next
<1>2. CASE UNCHANGED vars
  BY <1>2 DEF vars, callers, flags, rounds, DaemonInv, Types, Mutex, Known, Flags,
     NoStrayRounds
<1>. QED
  BY <1>1, <1>2

-----------------------------------------------------------------------------
LEMMA DaemonInvariant == Spec => []DaemonInv
BY InitDaemonInv, NextDaemonInv, PTL DEF Spec

(* Whoever comes back from Stop or Close (daemon.go:99-167) leaves no      *)
(* goroutine behind that runs synchronisations or may yet begin one.       *)
THEOREM StopLeavesNothing == Spec => []NoStrayRounds
<1>1. DaemonInv => NoStrayRounds
  BY DEF DaemonInv
<1>. QED
  BY <1>1, DaemonInvariant, PTL

(* Two rounds never run at once, however starts, stops, closes and         *)
(* cancellations of any number of callers interleave: d.scheduler names    *)
(* the only scheduler that may run one, or Start is about to name it.      *)
THEOREM RoundsExclude == Spec => []OneRoundAtATime
<1>1. DaemonInv => OneRoundAtATime
  <2>. SUFFICES ASSUME DaemonInv, NEW j \in Sched, NEW k \in Sched,
                       gor[j] = "round", gor[k] = "round"
                PROVE  j = k
    BY DEF OneRoundAtATime
  <2>1. j # 0 /\ k # 0
    BY ConstantsAssumption DEF Sched
  <2>2. /\ scheduler = j \/ (scheduler = 0 /\ made = j)
        /\ scheduler = k \/ (scheduler = 0 /\ made = k)
    BY DEF DaemonInv, NoStrayRounds, Known
  <2>. QED
    BY <2>1, <2>2
<1>. QED
  BY <1>1, DaemonInvariant, PTL

-----------------------------------------------------------------------------
(* Counting modulo Width: two numbers have the same remainder exactly when *)
(* they differ by a multiple of Width.                                     *)
LEMMA Remainders ==
  ASSUME NEW m \in Int, NEW n \in Int, NEW r \in Counter, NEW s \in Counter,
         (Width * m) + r = (Width * n) + s
  PROVE  r = s
<1>. USE ConstantsAssumption DEF Counter
<1>1. ASSUME NEW d \in Int, d # 0 PROVE Width * d >= Width \/ Width * d <= -Width
  BY <1>1
<1>2. Width * (m - n) = s - r
  OBVIOUS
<1>. QED
  BY <1>1, <1>2

LEMMA Quotient ==
  ASSUME NEW a \in Nat
  PROVE  a % Width \in Counter /\ \E q \in Nat : a = (Width * q) + (a % Width)
<1>. USE ConstantsAssumption DEF Counter
<1>1. a % Width \in Counter
  OBVIOUS
<1>2. a \div Width \in Nat
  OBVIOUS
<1>3. a = (Width * (a \div Width)) + (a % Width)
  OBVIOUS
<1>. QED
  BY <1>1, <1>2, <1>3, Zenon

LEMMA SameRemainder ==
  ASSUME NEW a \in Nat, NEW b \in Nat
  PROVE  a % Width = b % Width <=> \E m \in Int : a = b + (Width * m)
<1>1. PICK q \in Nat : a = (Width * q) + (a % Width)
  BY Quotient
<1>2. PICK r \in Nat : b = (Width * r) + (b % Width)
  BY Quotient
<1>3. a % Width \in Counter /\ b % Width \in Counter
  BY Quotient
<1>4. Counter \subseteq Nat /\ Width \in Nat
  BY ConstantsAssumption DEF Counter
<1>5. ASSUME a % Width = b % Width PROVE \E m \in Int : a = b + (Width * m)
  <2>1. a = b + (Width * (q - r))
    BY <1>1, <1>2, <1>3, <1>4, <1>5
  <2>. QED
    BY <2>1
<1>6. ASSUME NEW m \in Int, a = b + (Width * m) PROVE a % Width = b % Width
  <2>1. (Width * q) + (a % Width) = (Width * (r + m)) + (b % Width)
    BY <1>1, <1>2, <1>3, <1>4, <1>6
  <2>. QED
    BY <1>3, <2>1, Remainders
<1>. QED
  BY <1>5, <1>6

(* A counter that is bumped, or multiplied, counts on modulo Width. *)
LEMMA BumpCounts ==
  ASSUME NEW n \in Nat, NEW t \in Nat
  PROVE  /\ Bump(n) \in Counter
         /\ (Bump(n) + t) % Width = (n + 1 + t) % Width
         /\ (Bump(n) * t) % Width = ((n * t) + t) % Width
<1>1. PICK q \in Nat : n + 1 = (Width * q) + Bump(n)
  BY Quotient DEF Bump
<1>2. Bump(n) \in Counter
  BY Quotient DEF Bump
<1> HIDE DEF Bump
<1>9. Bump(n) \in Nat /\ Width \in Nat
  BY <1>2, ConstantsAssumption DEF Counter
<1>3. Bump(n) + t = (n + 1 + t) + (Width * (-q))
  BY <1>1, <1>9
<1>4. (n * t) + t = (Bump(n) * t) + (Width * (q * t))
  <2>1. (n + 1) * t = (n * t) + t
    OBVIOUS
  <2>2. ((Width * q) + Bump(n)) * t = ((Width * q) * t) + (Bump(n) * t)
    BY <1>9
  <2>3. (Width * q) * t = Width * (q * t)
    BY <1>9
  <2> QED
    BY <1>1, <1>9, <2>1, <2>2, <2>3
<1>5. Bump(n) + t \in Nat /\ Bump(n) * t \in Nat /\ (n * t) + t \in Nat /\ q * t \in Nat
  BY <1>9
<1>. QED
  BY <1>2, <1>3, <1>4, <1>5, SameRemainder, -q \in Int, n + 1 + t \in Nat

LEMMA AddCounts ==
  ASSUME NEW a \in Nat, NEW b \in Nat, NEW t \in Nat, a % Width = b % Width
  PROVE  (a + t) % Width = (b + t) % Width
<1>1. PICK m \in Int : a = b + (Width * m)
  BY SameRemainder
<1>2. a + t = (b + t) + (Width * m)
  BY <1>1, ConstantsAssumption
<1>. QED
  BY <1>2, SameRemainder

-----------------------------------------------------------------------------
(* A round that is not under way has no rule left to run. *)
NothingLeft == \A k \in Sched : gor[k] # "round" => todo[k] = 0

CountInv == TypeOK /\ NothingLeft /\ RoundsAddUp

LEMMA InitCountInv == Init => CountInv
<1>. SUFFICES ASSUME Init PROVE CountInv
  OBVIOUS
<1>. USE ConstantsAssumption DEF Init
<1>1. TypeOK
  <2>1. 0 \in Counter /\ 0 \in 0..made /\ 0 \in 0..MaxStarts /\ 0 \in 0..NumRules
    BY DEF Counter
  <2>. QED
    BY <2>1 DEF TypeOK, Sched, Pcs, Ops, Gors
<1>2. NothingLeft
  BY DEF NothingLeft
<1>3. 0 * NumRules = 0 /\ 0 + 0 + 0 = 0 /\ 0 % Width = 0
  OBVIOUS
<1>4. RoundsAddUp
  <2>1. ASSUME NEW k \in Sched
        PROVE  /\ total[k] = 0 /\ finished[k] = 0 /\ gor[k] = "none"
               /\ saved[k] = 0 /\ lost[k] = 0 /\ todo[k] = 0
    BY <2>1
  <2>. QED
    BY <1>3, <2>1 DEF RoundsAddUp
<1>. QED
  BY <1>1, <1>2, <1>4 DEF CountInv

(* The callers leave the counters alone, and no goroutine they start is in *)
(* the middle of a round.                                                  *)
LEMMA CallerKeepsCount ==
  ASSUME CountInv, DaemonInv, DaemonInv', NEW c \in Caller,
         Lock(c) \/ Status(c) \/ CallerStep(c) \/ (\E o \in Ops : Call(c, o))
  PROVE  CountInv'
<1>1. UNCHANGED rounds /\ (closed' = closed \/ closed' = TRUE)
  BY DEF Lock, Status, CallerStep, Call, StartScheduler, Publish, Look, Signal, Wait,
     CloseResources, flags
<1>5. stopped' = stopped \/ (\E j \in Int : stopped' = [stopped EXCEPT ![j] = TRUE])
  BY DEF Lock, Status, CallerStep, Call, StartScheduler, Publish, Look, Signal, Wait,
     CloseResources, flags, CountInv, TypeOK
<1>6. \A k \in Sched : gor'[k] = "round" <=> gor[k] = "round"
  <2>1. CASE StartScheduler(c)
    <3>1. \/ gor' = gor
          \/ made < MaxStarts /\ gor' = [gor EXCEPT ![made + 1] = "select"]
      BY <2>1 DEF StartScheduler
    <3>2. made + 1 > made /\ (made < MaxStarts => made + 1 \in Sched)
      BY ConstantsAssumption DEF DaemonInv, Types, Sched
    <3>3. CASE made < MaxStarts /\ gor' = [gor EXCEPT ![made + 1] = "select"]
      <4>1. gor[made + 1] = "none"
        BY <3>2, <3>3 DEF DaemonInv, Flags
      <4>. QED
        BY <3>3, <4>1 DEF CountInv, TypeOK
    <3>4. CASE gor' = gor
      BY <3>4
    <3>. QED
      BY <3>1, <3>3, <3>4
  <2>2. CASE ~StartScheduler(c)
    <3>1. gor' = gor
      BY <2>2 DEF Lock, Status, CallerStep, Call, Publish, Look, Signal, Wait,
         CloseResources
    <3>. QED
      BY <3>1
  <2>. QED
    BY <2>1, <2>2
<1>2. TypeOK'
  BY <1>1, <1>5 DEF CountInv, DaemonInv, Types, TypeOK, rounds
<1>3. NothingLeft'
  BY <1>1, <1>6 DEF CountInv, NothingLeft, rounds
<1>4. RoundsAddUp'
  BY <1>1, <1>6 DEF CountInv, RoundsAddUp, rounds
<1>. QED
  BY <1>2, <1>3, <1>4 DEF CountInv

(* The goroutines: a tick takes up the rules of a round, each rule that is *)
(* run is one less to run and one more record, saved or lost.              *)
LEMMA GoroutineKeepsCount ==
  ASSUME CountInv, DaemonInv', NEW k \in Sched,
         Tick(k) \/ Quit(k) \/ GoroutineStep(k) \/ Cancel(k)
  PROVE  CountInv'
<1>. USE DEF At, callers, flags, rounds
<1>1. Counter \subseteq Nat /\ total[k] \in Nat /\ finished[k] \in Nat /\ saved[k] \in Nat
      /\ lost[k] \in Nat /\ todo[k] \in Nat /\ NumRules \in Nat /\ 1 \in Nat /\ 0 \in Nat
  BY ConstantsAssumption DEF CountInv, TypeOK, Counter
<1>2. \A n \in Nat : Bump(n) \in Counter /\ Bump(n) \in Nat
  BY <1>1, BumpCounts
<1>3. \A n \in Nat : n % Width \in Counter
  BY Quotient
<1>4. CASE Tick(k)
  <2>1. /\ gor' = [gor EXCEPT ![k] = "round"] /\ gor[k] = "select"
        /\ total' = [total EXCEPT ![k] = Bump(total[k])]
        /\ todo' = [todo EXCEPT ![k] = NumRules]
        /\ UNCHANGED <<callers, flags, cancelled, finished, saved, lost>>
    BY <1>4 DEF Tick
  <2>2. TypeOK'
    BY <1>1, <1>2, <2>1 DEF CountInv, DaemonInv, Types, TypeOK
  <2>3. NothingLeft'
    BY <2>1 DEF CountInv, NothingLeft, TypeOK
  <2>4. total[k] = finished[k] % Width /\ todo[k] = 0
    BY <1>1, <2>1 DEF CountInv, RoundsAddUp, NothingLeft
  <2>5. Bump(total[k]) = (finished[k] + 1) % Width
    <3>1. finished[k] % Width = finished[k]
      BY ConstantsAssumption DEF CountInv, TypeOK, Counter
    <3>. QED
      BY <2>4, <3>1 DEF Bump
  <2>6. (saved[k] + lost[k] + NumRules) % Width = (Bump(total[k]) * NumRules) % Width
    <3>1. (saved[k] + lost[k]) % Width = (total[k] * NumRules) % Width
      <4>1. (saved[k] + lost[k] + todo[k]) % Width = (total[k] * NumRules) % Width
        BY DEF CountInv, RoundsAddUp
      <4>2. saved[k] + lost[k] + todo[k] = saved[k] + lost[k]
        BY <1>1, <2>4
      <4>. QED
        BY <4>1, <4>2
    <3>2. total[k] * NumRules \in Nat /\ saved[k] + lost[k] \in Nat
      BY <1>1
    <3>3. (saved[k] + lost[k] + NumRules) % Width = ((total[k] * NumRules) + NumRules) % Width
      BY <1>1, <3>1, <3>2, AddCounts
    <3>. QED
      BY <1>1, <3>3, BumpCounts
  <2>. HIDE DEF Bump
  <2>7. RoundsAddUp'
    <3>. SUFFICES ASSUME NEW j \in Sched
                  PROVE  /\ total'[j] = (finished'[j] + (IF gor'[j] = "round" THEN 1 ELSE 0)) % Width
                         /\ (saved'[j] + lost'[j] + todo'[j]) % Width = (total'[j] * NumRules) % Width
      BY DEF RoundsAddUp
    <3>1. CASE j = k
      BY <2>1, <2>5, <2>6, <3>1 DEF CountInv, TypeOK
    <3>2. CASE j # k
      BY <2>1, <3>2 DEF CountInv, TypeOK, RoundsAddUp
    <3>. QED
      BY <3>1, <3>2
  <2>. QED
    BY <2>2, <2>3, <2>7 DEF CountInv
<1>5. CASE RunSync(k)
  <2>1. /\ gor' = gor /\ gor[k] = "round" /\ todo[k] > 0
        /\ todo' = [todo EXCEPT ![k] = todo[k] - 1]
        /\ \/ saved' = [saved EXCEPT ![k] = Bump(saved[k])] /\ lost' = lost
           \/ lost' = [lost EXCEPT ![k] = Bump(lost[k])] /\ saved' = saved
        /\ UNCHANGED <<callers, flags, cancelled, total, finished>>
    BY <1>5 DEF RunSync, SaveExecution, CountInv, TypeOK
  <2>2. TypeOK'
    BY <1>1, <1>2, <2>1 DEF CountInv, DaemonInv, Types, TypeOK
  <2>3. NothingLeft'
    BY <2>1 DEF CountInv, NothingLeft, TypeOK
  <2>4. /\ (Bump(saved[k]) + (lost[k] + (todo[k] - 1))) % Width = (total[k] * NumRules) % Width
        /\ (Bump(lost[k]) + (saved[k] + (todo[k] - 1))) % Width = (total[k] * NumRules) % Width
    <3>1. /\ lost[k] + (todo[k] - 1) \in Nat /\ saved[k] + (todo[k] - 1) \in Nat
          /\ saved[k] + 1 + (lost[k] + (todo[k] - 1)) = saved[k] + lost[k] + todo[k]
          /\ lost[k] + 1 + (saved[k] + (todo[k] - 1)) = saved[k] + lost[k] + todo[k]
      BY <1>1, <2>1
    <3>2. (Bump(saved[k]) + (lost[k] + (todo[k] - 1))) % Width
            = (saved[k] + 1 + (lost[k] + (todo[k] - 1))) % Width
      BY <1>1, <3>1, BumpCounts
    <3>3. (Bump(lost[k]) + (saved[k] + (todo[k] - 1))) % Width
            = (lost[k] + 1 + (saved[k] + (todo[k] - 1))) % Width
      BY <1>1, <3>1, BumpCounts
    <3>. QED
      BY <3>1, <3>2, <3>3 DEF CountInv, RoundsAddUp
  <2>. HIDE DEF Bump
  <2>6. (saved'[k] + lost'[k] + todo'[k]) % Width = (total[k] * NumRules) % Width
    <3>0. Bump(saved[k]) \in Nat /\ Bump(lost[k]) \in Nat /\ todo'[k] = todo[k] - 1
      BY <1>1, <1>2, <2>1 DEF CountInv, TypeOK
    <3>1. \/ saved'[k] = Bump(saved[k]) /\ lost'[k] = lost[k]
          \/ lost'[k] = Bump(lost[k]) /\ saved'[k] = saved[k]
      BY <2>1 DEF CountInv, TypeOK
    <3>2. saved'[k] + lost'[k] + todo'[k]
            \in {Bump(saved[k]) + (lost[k] + (todo[k] - 1)), Bump(lost[k]) + (saved[k] + (todo[k] - 1))}
      BY <1>1, <3>0, <3>1
    <3>. QED
      BY <2>4, <3>2
  <2>5. RoundsAddUp'
    <3>. SUFFICES ASSUME NEW j \in Sched
                  PROVE  /\ total'[j] = (finished'[j] + (IF gor'[j] = "round" THEN 1 ELSE 0)) % Width
                         /\ (saved'[j] + lost'[j] + todo'[j]) % Width = (total'[j] * NumRules) % Width
      BY DEF RoundsAddUp
    <3>1. CASE j = k
      BY <2>1, <2>6, <3>1 DEF CountInv, TypeOK, RoundsAddUp
    <3>2. CASE j # k
      BY <2>1, <3>2 DEF CountInv, TypeOK, RoundsAddUp
    <3>. QED
      BY <3>1, <3>2
  <2>. QED
    BY <2>2, <2>3, <2>5 DEF CountInv
<1>6. CASE EndRound(k)
  <2>1. /\ gor' = [gor EXCEPT ![k] = "select"] /\ gor[k] = "round" /\ todo[k] = 0
        /\ finished' = [finished EXCEPT ![k] = Bump(finished[k])]
        /\ UNCHANGED <<callers, flags, cancelled, todo, total, saved, lost>>
    BY <1>6 DEF EndRound
  <2>2. TypeOK'
    BY <1>1, <1>2, <2>1 DEF CountInv, DaemonInv, Types, TypeOK
  <2>3. NothingLeft'
    BY <2>1 DEF CountInv, NothingLeft, TypeOK
  <2>4. total[k] = (Bump(finished[k]) + 0) % Width
    <3>1. total[k] = (finished[k] + 1 + 0) % Width
      BY <1>1, <2>1 DEF CountInv, RoundsAddUp
    <3>. QED
      BY <1>1, <3>1, BumpCounts
  <2>. HIDE DEF Bump
  <2>5. RoundsAddUp'
    <3>. SUFFICES ASSUME NEW j \in Sched
                  PROVE  /\ total'[j] = (finished'[j] + (IF gor'[j] = "round" THEN 1 ELSE 0)) % Width
                         /\ (saved'[j] + lost'[j] + todo'[j]) % Width = (total'[j] * NumRules) % Width
      BY DEF RoundsAddUp
    <3>1. CASE j = k
      BY <2>1, <2>4, <3>1 DEF CountInv, TypeOK, RoundsAddUp
    <3>2. CASE j # k
      BY <2>1, <3>2 DEF CountInv, TypeOK, RoundsAddUp
    <3>. QED
      BY <3>1, <3>2
  <2>. QED
    BY <2>2, <2>3, <2>5 DEF CountInv
<1>7. CASE Quit(k) \/ MarkStopped(k) \/ CloseChan(k) \/ Cancel(k)
  <2>1. /\ UNCHANGED rounds /\ closed' = closed
        /\ gor' = gor \/ (gor[k] # "round" /\ \E g \in Gors \ {"round"} : gor' = [gor EXCEPT ![k] = g])
        /\ stopped' = stopped \/ stopped' = [stopped EXCEPT ![k] = TRUE]
    BY <1>7 DEF Quit, MarkStopped, CloseChan, Cancel, Gors
  <2>2. TypeOK'
    BY <2>1 DEF CountInv, DaemonInv, Types, TypeOK
  <2>3. \A j \in Sched : gor'[j] = "round" <=> gor[j] = "round"
    BY <2>1 DEF CountInv, TypeOK
  <2>4. NothingLeft' /\ RoundsAddUp'
    BY <2>1, <2>3 DEF CountInv, NothingLeft, RoundsAddUp
  <2>. QED
    BY <2>2, <2>4 DEF CountInv
<1>. QED
  BY <1>4, <1>5, <1>6, <1>7 DEF GoroutineStep

LEMMA CountInvariant == Spec => []CountInv
<1>1. CountInv /\ DaemonInv /\ DaemonInv' /\ [Next]_vars => CountInv'
  <2>. SUFFICES ASSUME CountInv, DaemonInv, DaemonInv', [Next]_vars PROVE CountInv'
    OBVIOUS
  <2>1. CASE Next
    <3>1. CASE \E c \in Caller : Lock(c) \/ Status(c) \/ CallerStep(c)
      BY <3>1, CallerKeepsCount
    <3>2. CASE \E c \in Caller, o \in Ops : Call(c, o)
      BY <3>2, CallerKeepsCount
    <3>3. CASE \E k \in Sched : Tick(k) \/ Quit(k) \/ GoroutineStep(k) \/ Cancel(k)
      BY <3>3, GoroutineKeepsCount
    <3>. QED
      BY <2>1, <3>1, <3>2, <3>3 DEF Next
  <2>2. CASE UNCHANGED vars
    BY <2>2 DEF vars, callers, flags, rounds, CountInv, TypeOK, NothingLeft, RoundsAddUp
  <2>. QED
    BY <2>1, <2>2
<1>. QED
  BY <1>1, InitCountInv, DaemonInvariant, PTL DEF Spec

(* The types, with the counters of the rounds. *)
THEOREM TypesHold == Spec => []TypeOK
<1>1. CountInv => TypeOK
  BY DEF CountInv
<1>. QED
  BY <1>1, CountInvariant, PTL

(* Every round is counted once when it begins and once when it ends, and   *)
(* each of its rules is brought to the history exactly once, which keeps   *)
(* the record or refuses it (daemon.go:185-240), for any number of rules   *)
(* and any counter width.                                                  *)
THEOREM RoundsCount == Spec => []RoundsAddUp
<1>1. CountInv => RoundsAddUp
  BY DEF CountInv
<1>. QED
  BY <1>1, CountInvariant, PTL
=============================================================================
