---------------------------- MODULE ThreadsProofs ----------------------------
(***************************************************************************)
(* Theorems about Threads, for every number of threads and semaphores: the *)
(* contexts the scheduler saves stay with their threads, no wake-up is     *)
(* lost, and the units of a semaphore are conserved.                       *)
(***************************************************************************)
EXTENDS Threads, FiniteSetTheorems, SequenceTheorems, TLAPS

(* Where a saved context may go on, and where schedule(0) returns to. *)
Resumed == {"user", "sched", "join", "waited", "exiting", "dead"}
Back    == {"user", "join", "waited", "dead"}

(* What holds of the flow that executes and of the saved ones. *)
FlowSound ==
  /\ current < count
  /\ exec.at \notin {"loop", "picked"} => exec.who = current
  /\ exec.at = "sched" => exec.then \in Back
  /\ exec.at = "create" => count < MaxThreads /\ ctx[count].set
ContextSound ==
  /\ \A t \in Threads : ctx[t].set => ctx[t].flow.who = t
  /\ \A t \in Threads : t < count /\ t # 0 => ctx[t].set
  /\ \A t \in Threads : ctx[t].flow.at \in Resumed
  /\ \A t \in Threads : ctx[t].flow.at = "sched" => ctx[t].flow.then \in Back
(* A thread other than main that executes its own code is ready. *)
ReadySound ==
  exec.at \in {"user", "create", "join", "waited"} /\ exec.who # 0 => state[exec.who] = "READY"

FlowInv == TypeOK /\ FlowSound /\ ContextSound /\ ReadySound

(* A flow inside sem_wait, past the test of the value, and its semaphore. *)
Waits(f) == f.at = "waited" \/ (f.at = "sched" /\ f.then = "waited")
ArgSound ==
  /\ Waits(exec) => exec.arg \in Sems
  /\ \A t \in Threads : Waits(ctx[t].flow) => ctx[t].flow.arg \in Sems

(* What threads and timer do to the tables of the scheduler. *)
Switch == schedule_save \/ schedule_next \/ schedule_jump \/ (Calm /\ schedule_signal)
-----------------------------------------------------------------------------
LEMMA ThreadsNat == MaxThreads \in Nat /\ MaxThreads > 0 /\ Threads \subseteq Nat /\ 0 \in Threads
BY SizesAssumption DEF Threads

LEMMA FlowType ==
  ASSUME NEW f \in Flow, NEW place \in Places, NEW a \in Nat, NEW back \in Places
  PROVE  /\ [f EXCEPT !.at = place] \in Flow
         /\ [f EXCEPT !.at = place, !.arg = a] \in Flow
         /\ [f EXCEPT !.at = place, !.then = back, !.arg = a] \in Flow
BY DEF Flow

LEMMA UserType == \A t \in Threads : User(t) \in Flow
BY DEF User, Flow, Places

LEMMA SavedType == \A f \in Flow, h \in BOOLEAN : Saved(f, h) \in Context
BY DEF Saved, Context

LEMMA InitFlow == Init => FlowInv
<1> SUFFICES ASSUME Init PROVE FlowInv
  OBVIOUS
<1>1. User(0) \in Flow /\ NoContext \in Context
  BY UserType, ThreadsNat DEF NoContext, Context
<1>2. \A s \in Sems : NoSem \in Sem
  BY SizesAssumption, EmptySeq DEF NoSem, Sem
<1>3. TypeOK
  <2>1. count \in 1 .. MaxThreads /\ current \in Threads /\ nsem \in 0 .. MaxSems
    BY SizesAssumption, ThreadsNat DEF Init
  <2>2. state \in [Threads -> States] /\ inside \in [Threads -> SUBSET Sems]
    BY DEF Init, States
  <2>3. ctx \in [Threads -> Context] /\ masked \in BOOLEAN /\ exec \in Flow /\ sems \in [Sems -> Sem]
    BY <1>1, <1>2 DEF Init
  <2> QED BY <2>1, <2>2, <2>3 DEF TypeOK
<1>4. FlowSound /\ ReadySound
  BY DEF Init, FlowSound, ReadySound, User
<1>5. ContextSound
  BY DEF Init, ContextSound, NoContext, User, Resumed, Threads
<1> QED BY <1>3, <1>4, <1>5 DEF FlowInv

LEMMA SwitchType == TypeOK /\ FlowSound /\ Switch => TypeOK'
<1> SUFFICES ASSUME TypeOK, FlowSound, Switch PROVE TypeOK'
  OBVIOUS
<1>1. CASE schedule_save
  <2>1. exec.then \in Places /\ "loop" \in Places
    BY DEF TypeOK, Flow, Places
  <2>2. Saved([exec EXCEPT !.at = exec.then], FALSE) \in Context
    BY <2>1, FlowType, SavedType DEF TypeOK
  <2>3. [exec EXCEPT !.at = "loop"] \in Flow
    BY <2>1, FlowType DEF TypeOK
  <2> QED BY <1>1, <2>2, <2>3 DEF schedule_save, Goto, TypeOK
<1>2. CASE schedule_next
  <2>1. [exec EXCEPT !.at = "picked"] \in Flow
    BY FlowType DEF TypeOK, Places
  <2>2. (current + 1) % count \in Threads
    BY ThreadsNat DEF TypeOK, Threads
  <2> QED BY <1>2, <2>1, <2>2 DEF schedule_next, Goto, TypeOK
<1>3. CASE schedule_jump
  <2>1. [exec EXCEPT !.at = "loop"] \in Flow /\ ctx[current].flow \in Flow
    BY FlowType DEF TypeOK, Places, Context
  <2> QED BY <1>3, <2>1 DEF schedule_jump, Goto, TypeOK
<1>4. CASE schedule_signal
  <2>1. [exec EXCEPT !.at = "loop"] \in Flow /\ Saved(exec, TRUE) \in Context
    BY FlowType, SavedType DEF TypeOK, Places
  <2> QED BY <1>4, <2>1 DEF schedule_signal, Goto, TypeOK
<1> QED BY <1>1, <1>2, <1>3, <1>4 DEF Switch

(* schedule, called or by the signal, keeps the contexts with their threads. *)
LEMMA SwitchFlow == FlowInv /\ Switch => FlowInv'
<1> SUFFICES ASSUME FlowInv, Switch PROVE FlowSound' /\ ContextSound' /\ ReadySound'
  BY SwitchType DEF FlowInv
<1> USE DEF FlowInv, FlowSound, ContextSound, ReadySound
<1>0. /\ count \in Nat \ {0} /\ current \in Threads /\ current \in Nat
      /\ ctx \in [Threads -> Context] /\ exec \in Flow
  BY ThreadsNat DEF TypeOK
<1>1. CASE schedule_save
  <2>1. exec.at = "sched" /\ exec.who = current /\ exec.then \in Back
    BY <1>1 DEF schedule_save, Running
  <2>2. exec'.at = "loop" /\ exec'.who = exec.who
    BY <1>0, <1>1 DEF schedule_save, Goto, Flow
  <2>3. /\ ctx' = [ctx EXCEPT ![current] = Saved([exec EXCEPT !.at = exec.then], FALSE)]
        /\ UNCHANGED <<count, current, state>>
    BY <1>1 DEF schedule_save
  <2>4. ctx'[current].set /\ ctx'[current].flow.who = current /\ ctx'[current].flow.at = exec.then
    BY <1>0, <2>1, <2>3 DEF Saved, Flow
  <2>5. \A t \in Threads : t # current => ctx'[t] = ctx[t]
    BY <1>0, <2>3
  <2>6. Back \subseteq Resumed /\ "sched" \notin Back
    BY DEF Back, Resumed
  <2>7. FlowSound' /\ ReadySound'
    BY <2>2, <2>3
  <2>8. ContextSound'
    <3>1. ctx'[current].flow.at \in Resumed /\ ctx'[current].flow.at # "sched"
      BY <2>1, <2>4, <2>6
    <3> QED BY <1>0, <2>3, <2>4, <2>5, <3>1
  <2> QED BY <2>7, <2>8
<1>2. CASE schedule_next
  <2>1. exec'.at = "picked" /\ UNCHANGED <<count, ctx, state>> /\ current' = (current + 1) % count
    BY <1>0, <1>2 DEF schedule_next, Goto, Flow
  <2>2. current' < count'
    BY <1>0, <2>1
  <2> QED BY <2>1, <2>2
<1>3. CASE schedule_jump
  <2>1. UNCHANGED <<count, current, ctx, state>>
    BY <1>3 DEF schedule_jump
  <2>2. CASE state[current] # "READY" /\ current # 0
    <3>1. exec'.at = "loop"
      BY <1>0, <1>3, <2>2 DEF schedule_jump, Goto, Flow
    <3> QED BY <2>1, <3>1
  <2>3. CASE ~(state[current] # "READY" /\ current # 0)
    <3>1. ctx[current].set /\ exec' = ctx[current].flow
      BY <1>3, <2>3 DEF schedule_jump
    <3>2. exec'.who = current /\ exec'.at \in Resumed /\ (exec'.at = "sched" => exec'.then \in Back)
      BY <1>0, <3>1
    <3>3. exec'.at \notin {"loop", "picked", "create"}
      BY <3>2 DEF Resumed
    <3> QED BY <2>1, <2>3, <3>2, <3>3
  <2> QED BY <2>2, <2>3
<1>4. CASE Calm /\ schedule_signal
  <2>1. /\ exec.who = current /\ exec.at \in Resumed
        /\ ctx' = [ctx EXCEPT ![current] = Saved(exec, TRUE)]
        /\ exec'.at = "loop" /\ UNCHANGED <<count, current, state>>
    BY <1>0, <1>4 DEF schedule_signal, Calm, Running, Goto, Flow, Places, Resumed
  <2>2. ctx'[current].set /\ ctx'[current].flow = exec
    BY <1>0, <2>1 DEF Saved
  <2>3. \A t \in Threads : t # current => ctx'[t] = ctx[t]
    BY <1>0, <2>1
  <2> QED BY <1>0, <2>1, <2>2, <2>3
<1> QED BY <1>1, <1>2, <1>3, <1>4 DEF Switch
-----------------------------------------------------------------------------
(* The steps of the program and of the library outside schedule *)

LEMMA ExecRecords ==
  ASSUME exec \in Flow, NEW place \in Places, NEW back \in Places, NEW a \in Nat
  PROVE  /\ Goto(place) => exec' \in Flow /\ exec'.at = place /\ exec'.who = exec.who /\ exec'.arg = exec.arg
         /\ Yield(back, a) => /\ exec' \in Flow /\ exec'.at = "sched" /\ exec'.who = exec.who
                              /\ exec'.then = back /\ exec'.arg = a
         /\ exec' = User(exec.who) => exec' \in Flow /\ exec'.at = "user" /\ exec'.who = exec.who
<1>1. Goto(place) => exec' \in Flow /\ exec'.at = place /\ exec'.who = exec.who /\ exec'.arg = exec.arg
  BY DEF Goto, Flow
<1>2. Yield(back, a) => /\ exec' \in Flow /\ exec'.at = "sched" /\ exec'.who = exec.who
                        /\ exec'.then = back /\ exec'.arg = a
  BY DEF Yield, Flow, Places
<1>3. exec.who \in Threads /\ User(exec.who) \in Flow
  BY UserType DEF Flow
<1>4. exec' = User(exec.who) => exec' \in Flow /\ exec'.at = "user" /\ exec'.who = exec.who
  BY <1>3 DEF User
<1> QED BY <1>1, <1>2, <1>4

(* A step that leaves the scheduler's tables alone. *)
LEMMA StayFlow ==
  ASSUME FlowInv, TypeOK', UNCHANGED <<count, current, ctx>>,
         exec'.who = exec.who, exec.at \notin {"loop", "picked"}, exec'.at # "create",
         exec'.at = "sched" => exec'.then \in Back,
         ReadySound'
  PROVE  FlowInv'
BY DEF FlowInv, FlowSound, ContextSound

LEMMA CreateType == FlowInv /\ pthread_create => TypeOK'
<1> SUFFICES ASSUME FlowInv, pthread_create PROVE TypeOK'
  OBVIOUS
<1>1. count \in Threads
  BY ThreadsNat DEF pthread_create, FlowInv, TypeOK, Threads
<1>2. Saved(User(count), FALSE) \in Context
  BY <1>1, UserType, SavedType
<1>3. exec' \in Flow
  BY ExecRecords DEF FlowInv, TypeOK, pthread_create, Places
<1>4. state' \in [Threads -> States] /\ ctx' \in [Threads -> Context]
  BY <1>1, <1>2 DEF FlowInv, TypeOK, pthread_create, States
<1> QED BY <1>3, <1>4 DEF FlowInv, TypeOK, pthread_create

LEMMA CreateFlow == FlowInv /\ pthread_create => FlowInv'
<1> SUFFICES ASSUME FlowInv, pthread_create PROVE FlowSound' /\ ContextSound' /\ ReadySound'
  BY CreateType DEF FlowInv
<1>1. count \in Threads /\ count < MaxThreads /\ count \in Nat /\ current \in Nat /\ current < count
  BY ThreadsNat DEF pthread_create, FlowInv, FlowSound, TypeOK, Threads
<1>2. exec.at = "user" /\ exec'.at = "create" /\ exec'.who = exec.who /\ exec.who = current
  BY ExecRecords DEF FlowInv, FlowSound, TypeOK, pthread_create, Running, Places
<1>3. /\ UNCHANGED <<count, current>>
      /\ ctx'[count] = Saved(User(count), FALSE) /\ state'[count] = "READY"
      /\ \A t \in Threads : t # count => ctx'[t] = ctx[t] /\ state'[t] = state[t]
  BY <1>1 DEF pthread_create, FlowInv, TypeOK
<1>4. ctx'[count].set /\ ctx'[count].flow.who = count /\ ctx'[count].flow.at = "user"
  BY <1>3 DEF Saved, User
<1>5. FlowSound'
  BY <1>1, <1>2, <1>3, <1>4 DEF FlowSound
<1>6. ContextSound'
  BY <1>1, <1>3, <1>4 DEF FlowInv, ContextSound, Resumed
<1>7. ReadySound'
  BY <1>1, <1>2, <1>3 DEF FlowInv, ReadySound, TypeOK
<1> QED BY <1>5, <1>6, <1>7

LEMMA CreateReturnFlow == FlowInv /\ create_return => FlowInv'
<1> SUFFICES ASSUME FlowInv, create_return PROVE FlowInv'
  OBVIOUS
<1>1. /\ exec.at = "create" /\ exec.who = current /\ count < MaxThreads /\ ctx[count].set
      /\ count \in Nat \ {0} /\ current \in Nat /\ current < count
  BY ThreadsNat DEF create_return, Running, FlowInv, FlowSound, TypeOK
<1>2. exec' \in Flow /\ exec'.at = "sched" /\ exec'.who = exec.who /\ exec'.then = "user"
  BY ExecRecords DEF FlowInv, TypeOK, create_return, Places
<1>3. count' = count + 1 /\ UNCHANGED <<current, state, ctx, masked, sems, nsem, inside>>
  BY DEF create_return
<1>4. TypeOK'
  BY <1>1, <1>2, <1>3, ThreadsNat DEF FlowInv, TypeOK
<1>5. FlowSound' /\ ReadySound'
  BY <1>1, <1>2, <1>3 DEF FlowSound, ReadySound, Back
<1>6. ContextSound'
  <2>1. \A t \in Threads : t < count' => t < count \/ t = count
    BY <1>1, <1>3, ThreadsNat
  <2> QED BY <1>1, <1>3, <2>1 DEF FlowInv, ContextSound
<1> QED BY <1>4, <1>5, <1>6 DEF FlowInv

LEMMA ExitFlow == FlowInv /\ pthread_exit => FlowInv'
<1> SUFFICES ASSUME FlowInv, pthread_exit PROVE FlowInv'
  OBVIOUS
<1>1. exec' \in Flow /\ exec'.at = "sched" /\ exec'.who = exec.who /\ exec'.then = "dead"
  BY ExecRecords DEF FlowInv, TypeOK, pthread_exit, Places
<1>2. state' \in [Threads -> States]
  BY DEF FlowInv, TypeOK, pthread_exit, States
<1>3. TypeOK'
  BY <1>1, <1>2 DEF FlowInv, TypeOK, pthread_exit
<1>4. UNCHANGED <<count, current, ctx>> /\ exec.at = "user"
  BY DEF pthread_exit, Running
<1>5. ReadySound'
  BY <1>1 DEF ReadySound
<1> QED BY <1>1, <1>3, <1>4, <1>5, StayFlow DEF Back

LEMMA EndFlow == FlowInv /\ main_return => FlowInv'
<1> SUFFICES ASSUME FlowInv, main_return PROVE FlowInv'
  OBVIOUS
<1>1. exec' \in Flow /\ exec'.at = "end" /\ exec'.who = exec.who
  BY ExecRecords DEF FlowInv, TypeOK, main_return, Places
<1>2. TypeOK' /\ UNCHANGED <<count, current, ctx>> /\ exec.at = "user" /\ ReadySound'
  BY <1>1 DEF FlowInv, TypeOK, main_return, Running, ReadySound
<1> QED BY <1>1, <1>2, StayFlow

LEMMA JoinFlow == FlowInv /\ (\E u \in Threads : pthread_join(u)) => FlowInv'
<1> SUFFICES ASSUME FlowInv, NEW u \in Threads, pthread_join(u) PROVE FlowInv'
  OBVIOUS
<1>1. exec' \in Flow /\ exec'.at = "join" /\ exec'.who = exec.who
  BY ThreadsNat DEF FlowInv, TypeOK, pthread_join, Flow, Places
<1>2. TypeOK' /\ UNCHANGED <<count, current, ctx, state>> /\ exec.at = "user"
  BY <1>1 DEF FlowInv, TypeOK, pthread_join, Running
<1>3. ReadySound'
  BY <1>1, <1>2 DEF FlowInv, ReadySound
<1> QED BY <1>1, <1>2, <1>3, StayFlow

LEMMA JoinTestFlow == FlowInv /\ join_test => FlowInv'
<1> SUFFICES ASSUME FlowInv, join_test PROVE FlowInv'
  OBVIOUS
<1>1. exec.at = "join" /\ exec.who = current /\ exec.arg \in Nat /\ exec \in Flow
  BY DEF FlowInv, FlowSound, TypeOK, join_test, Running, Flow
<1>2. UNCHANGED <<count, current, ctx, sems, nsem, inside>> /\ masked' = FALSE
  BY DEF join_test
<1>3. CASE state[exec.arg] = "EXITED"
  <2>1. exec' = User(exec.who) /\ state' = state
    BY <1>3 DEF join_test
  <2>2. exec' \in Flow /\ exec'.at = "user" /\ exec'.who = exec.who
    BY <1>1, <2>1, ExecRecords DEF Places
  <2>3. TypeOK' /\ ReadySound'
    BY <1>1, <1>2, <2>1, <2>2 DEF FlowInv, TypeOK, ReadySound
  <2> QED BY <1>1, <1>2, <2>2, <2>3, StayFlow
<1>4. CASE state[exec.arg] # "EXITED"
  <2>1. exec' \in Flow /\ exec'.at = "sched" /\ exec'.who = exec.who /\ exec'.then = "join"
    BY <1>1, <1>4, ExecRecords DEF join_test, Places
  <2>2. state' \in [Threads -> States]
    BY <1>4 DEF FlowInv, TypeOK, join_test, States
  <2>3. TypeOK' /\ ReadySound'
    BY <1>2, <2>1, <2>2 DEF FlowInv, TypeOK, ReadySound
  <2> QED BY <1>1, <1>2, <2>1, <2>3, StayFlow DEF Back
<1> QED BY <1>3, <1>4

(* The semaphores *)

LEMMA SemType ==
  ASSUME TypeOK, NEW s \in Sems
  PROVE  /\ sems[s] \in Sem /\ sems[s].live \in BOOLEAN /\ sems[s].value \in Nat
         /\ sems[s].init \in 0 .. MaxValue /\ sems[s].waiting \in Seq(Threads)
         /\ Len(sems[s].waiting) \in Nat
<1>1. sems[s] \in Sem
  BY DEF TypeOK
<1> QED BY <1>1, LenProperties DEF Sem

LEMMA SemInitFlow == FlowInv /\ (\E v \in 0 .. MaxValue : sem_init(v)) => FlowInv'
<1> SUFFICES ASSUME FlowInv, NEW v \in 0 .. MaxValue, sem_init(v) PROVE FlowInv'
  OBVIOUS
<1>1. nsem \in Sems /\ nsem' \in 0 .. MaxSems
  BY SizesAssumption DEF sem_init, FlowInv, TypeOK, Sems
<1>2. [live |-> TRUE, init |-> v, value |-> v, waiting |-> <<>>] \in Sem
  BY EmptySeq DEF Sem
<1>3. sems' \in [Sems -> Sem]
  BY <1>1, <1>2 DEF sem_init, FlowInv, TypeOK
<1>4. TypeOK' /\ UNCHANGED <<count, current, ctx, exec, state>> /\ exec.at = "user"
  BY <1>1, <1>3 DEF sem_init, FlowInv, TypeOK, Running
<1> QED BY <1>4, StayFlow DEF FlowInv, ReadySound

LEMMA SemDestroyFlow == FlowInv /\ (\E s \in Sems : sem_destroy(s)) => FlowInv'
<1> SUFFICES ASSUME FlowInv, NEW s \in Sems, sem_destroy(s) PROVE FlowInv'
  OBVIOUS
<1>1. NoSem \in Sem
  BY SizesAssumption, EmptySeq DEF Sem, NoSem
<1>2. TypeOK' /\ UNCHANGED <<count, current, ctx, exec, state>> /\ exec.at = "user"
  BY <1>1 DEF sem_destroy, FlowInv, TypeOK, Running
<1> QED BY <1>2, StayFlow DEF FlowInv, ReadySound

(* What the two outcomes of sem_wait change. *)
Pass(s) ==
  /\ sems[s].value > 0
  /\ sems' = [sems EXCEPT ![s].value = sems[s].value - 1]
  /\ inside' = [inside EXCEPT ![exec.who] = inside[exec.who] \cup {s}]
  /\ masked' = FALSE
  /\ UNCHANGED <<state, exec>>
Block(s) ==
  /\ sems[s].value = 0
  /\ sems' = [sems EXCEPT ![s].waiting = Append(sems[s].waiting, current)]
  /\ state' = [state EXCEPT ![current] = "BLOCKED"]
  /\ masked' = TRUE
  /\ Yield("waited", s)
  /\ UNCHANGED inside

LEMMA SemWaitFlow == FlowInv /\ (\E s \in Sems : sem_wait(s)) => FlowInv'
<1> SUFFICES ASSUME FlowInv, NEW s \in Sems, sem_wait(s) PROVE FlowInv'
  OBVIOUS
<1>1. /\ exec \in Flow /\ exec.at = "user" /\ exec.who \in Threads /\ s \in Nat
      /\ UNCHANGED <<count, current, ctx, nsem>> /\ current \in Threads
  BY SizesAssumption DEF sem_wait, Running, FlowInv, TypeOK, Flow, Sems
<1>2. CASE Pass(s)
  <2>1. sems' \in [Sems -> Sem]
    <3>1. [sems[s] EXCEPT !.value = sems[s].value - 1] \in Sem
      BY <1>2, SemType DEF Pass, Sem, FlowInv
    <3> QED BY <1>2, <3>1 DEF Pass, FlowInv, TypeOK
  <2>2. TypeOK'
    BY <1>1, <1>2, <2>1 DEF Pass, FlowInv, TypeOK
  <2>3. UNCHANGED <<state, exec>>
    BY <1>2 DEF Pass
  <2> QED BY <1>1, <2>2, <2>3, StayFlow DEF FlowInv, ReadySound
<1>3. CASE Block(s)
  <2>1. sems' \in [Sems -> Sem]
    <3>1. Append(sems[s].waiting, current) \in Seq(Threads)
      BY <1>1, SemType, AppendProperties DEF FlowInv
    <3>2. [sems[s] EXCEPT !.waiting = Append(sems[s].waiting, current)] \in Sem
      BY <3>1, SemType DEF Sem, FlowInv
    <3> QED BY <1>3, <3>2 DEF Block, FlowInv, TypeOK
  <2>2. exec' \in Flow /\ exec'.at = "sched" /\ exec'.who = exec.who /\ exec'.then = "waited"
    BY <1>1, <1>3, ExecRecords DEF Block, Places
  <2>3. state' \in [Threads -> States]
    BY <1>3 DEF Block, FlowInv, TypeOK, States
  <2>4. TypeOK' /\ ReadySound'
    BY <1>1, <1>3, <2>1, <2>2, <2>3 DEF Block, FlowInv, TypeOK, ReadySound
  <2> QED BY <1>1, <2>2, <2>4, StayFlow DEF Back
<1> QED BY <1>2, <1>3 DEF sem_wait, Pass, Block

LEMMA WaitReturnFlow == FlowInv /\ wait_return /\ exec.arg \in Sems => FlowInv'
<1> SUFFICES ASSUME FlowInv, wait_return, exec.arg \in Sems PROVE FlowInv'
  OBVIOUS
<1>1. exec.at = "waited" /\ exec' = User(exec.who) /\ exec \in Flow /\ UNCHANGED <<count, current, ctx, state>>
  BY DEF wait_return, Running, FlowInv, TypeOK
<1>2. exec' \in Flow /\ exec'.at = "user" /\ exec'.who = exec.who
  BY <1>1, ExecRecords DEF Places
<1>3. inside' \in [Threads -> SUBSET Sems]
  BY DEF wait_return, FlowInv, TypeOK
<1>4. TypeOK' /\ ReadySound'
  BY <1>1, <1>2, <1>3 DEF wait_return, FlowInv, TypeOK, ReadySound
<1> QED BY <1>1, <1>2, <1>4, StayFlow

(* What the two outcomes of sem_post change. *)
Wake(s) ==
  LET waiting == sems[s].waiting
      last    == Len(waiting)
  IN /\ last > 0
     /\ sems' = [sems EXCEPT ![s].waiting = SubSeq(waiting, 1, last - 1)]
     /\ state' = [state EXCEPT ![waiting[last]] = "READY"]
Raise(s) ==
  /\ Len(sems[s].waiting) = 0
  /\ sems' = [sems EXCEPT ![s].value = sems[s].value + 1]
  /\ UNCHANGED state

LEMMA SemPostFlow == FlowInv /\ (\E s \in Sems : sem_post(s)) => FlowInv'
<1> SUFFICES ASSUME FlowInv, NEW s \in Sems, sem_post(s) PROVE FlowInv'
  OBVIOUS
<1>1. /\ exec.at = "user" /\ UNCHANGED <<count, current, ctx, exec, nsem>>
      /\ inside' = [inside EXCEPT ![exec.who] = inside[exec.who] \ {s}] /\ masked' = FALSE
  BY DEF sem_post, Running
<1>2. inside' \in [Threads -> SUBSET Sems]
  BY <1>1 DEF FlowInv, TypeOK
<1>3. CASE Wake(s)
  <2> DEFINE waiting == sems[s].waiting
             last    == Len(waiting)
  <2>1. waiting \in Seq(Threads) /\ last \in Nat /\ last > 0 /\ last \in 1 .. Len(waiting)
    BY <1>3, SemType DEF Wake, FlowInv
  <2>2. waiting[last] \in Threads
    BY <2>1, ElementOfSeq
  <2>3. SubSeq(waiting, 1, last - 1) \in Seq(Threads)
    <3>1. \A i \in 1 .. last - 1 : waiting[i] \in Threads
      BY <2>1, ElementOfSeq
    <3> QED BY <2>1, <3>1, SubSeqProperties
  <2>4. [sems[s] EXCEPT !.waiting = SubSeq(waiting, 1, last - 1)] \in Sem
    BY <2>3, SemType DEF Sem, FlowInv
  <2>5. sems' \in [Sems -> Sem]
    BY <1>3, <2>4 DEF Wake, FlowInv, TypeOK
  <2>6. state' \in [Threads -> States] /\ \A t \in Threads : state[t] = "READY" => state'[t] = "READY"
    BY <1>3, <2>2 DEF Wake, FlowInv, TypeOK, States
  <2>7. TypeOK' /\ ReadySound'
    BY <1>1, <1>2, <2>5, <2>6 DEF FlowInv, TypeOK, ReadySound, Flow
  <2> QED BY <1>1, <2>7, StayFlow
<1>4. CASE Raise(s)
  <2>1. [sems[s] EXCEPT !.value = sems[s].value + 1] \in Sem
    BY SemType DEF Sem, FlowInv
  <2>2. sems' \in [Sems -> Sem] /\ state' = state
    BY <1>4, <2>1 DEF Raise, FlowInv, TypeOK
  <2>3. TypeOK' /\ ReadySound'
    BY <1>1, <1>2, <2>2 DEF FlowInv, TypeOK, ReadySound
  <2> QED BY <1>1, <2>3, StayFlow
<1> QED BY <1>3, <1>4 DEF sem_post, Wake, Raise
-----------------------------------------------------------------------------
LEMMA InitArg == Init => ArgSound
BY DEF Init, ArgSound, Waits, NoContext, User

(* A step outside schedule leaves the contexts alone, but for that of the
   thread it creates. *)
LEMMA StayArg ==
  ASSUME ArgSound, Waits(exec') => exec'.arg \in Sems, ctx' = ctx
  PROVE  ArgSound'
BY DEF ArgSound

LEMMA SwitchArg == FlowInv /\ ArgSound /\ Switch => ArgSound'
<1> SUFFICES ASSUME FlowInv, ArgSound, Switch PROVE ArgSound'
  OBVIOUS
<1>0. /\ current \in Threads /\ ctx \in [Threads -> Context] /\ exec \in Flow
      /\ "loop" \in Places /\ "picked" \in Places
  BY DEF FlowInv, TypeOK, Places
<1>1. CASE schedule_save
  <2>1. /\ ctx'[current].flow = [exec EXCEPT !.at = exec.then] /\ exec.at = "sched"
        /\ \A t \in Threads : t # current => ctx'[t] = ctx[t]
    BY <1>0, <1>1 DEF schedule_save, Saved, Running
  <2>2. exec'.at = "loop"
    BY <1>0, <1>1 DEF schedule_save, Goto, Flow
  <2>3. exec.then \in Back
    BY <2>1 DEF FlowInv, FlowSound
  <2>4. ctx'[current].flow.at = exec.then /\ ctx'[current].flow.arg = exec.arg
    BY <1>0, <2>1 DEF Flow
  <2>5. Waits(ctx'[current].flow) => exec.then = "waited"
    BY <2>3, <2>4 DEF Waits, Back
  <2> QED BY <2>1, <2>2, <2>4, <2>5 DEF ArgSound, Waits
<1>2. CASE schedule_next
  BY <1>0, <1>2, ExecRecords DEF schedule_next, Goto, Flow, ArgSound, Waits
<1>3. CASE schedule_jump
  BY <1>0, <1>3 DEF schedule_jump, Goto, Flow, ArgSound, Waits
<1>4. CASE schedule_signal
  <2>1. ctx'[current].flow = exec /\ \A t \in Threads : t # current => ctx'[t] = ctx[t]
    BY <1>0, <1>4 DEF schedule_signal, Saved
  <2>2. exec'.at = "loop"
    BY <1>0, <1>4 DEF schedule_signal, Goto, Flow
  <2> QED BY <2>1, <2>2 DEF ArgSound, Waits
<1> QED BY <1>1, <1>2, <1>3, <1>4 DEF Switch

LEMMA CreateArg == FlowInv /\ ArgSound /\ pthread_create => ArgSound'
<1> SUFFICES ASSUME FlowInv, ArgSound, pthread_create PROVE ArgSound'
  OBVIOUS
<1>1. count \in Threads
  BY ThreadsNat DEF pthread_create, FlowInv, TypeOK, Threads
<1>2. ctx'[count].flow = User(count) /\ \A t \in Threads : t # count => ctx'[t] = ctx[t]
  BY <1>1 DEF pthread_create, Saved, FlowInv, TypeOK
<1>3. exec'.at = "create"
  BY ExecRecords DEF FlowInv, TypeOK, pthread_create, Places
<1> QED BY <1>2, <1>3 DEF ArgSound, Waits, User

(* The other steps of Next. *)
Others ==
  \/ create_return \/ pthread_exit \/ main_return \/ join_test \/ wait_return
  \/ \E u \in Threads : pthread_join(u)
  \/ \E v \in 0 .. MaxValue : sem_init(v)
  \/ \E s \in Sems : sem_destroy(s) \/ sem_wait(s) \/ sem_post(s)

LEMMA NextCases == Next => Switch \/ pthread_create \/ Others
BY DEF Next, Program, Library, Switch, Others

LEMMA OthersArg == FlowInv /\ ArgSound /\ Others => ArgSound'
<1> SUFFICES ASSUME FlowInv, ArgSound, Others PROVE ArgSound'
  OBVIOUS
<1>0. exec \in Flow /\ exec.arg \in Nat
  BY DEF FlowInv, TypeOK, Flow
<1>1. CASE create_return
  BY <1>0, <1>1, ExecRecords, StayArg DEF create_return, Waits, Places
<1>2. CASE pthread_exit
  BY <1>0, <1>2, ExecRecords, StayArg DEF pthread_exit, Waits, Places
<1>3. CASE main_return
  BY <1>0, <1>3, ExecRecords, StayArg DEF main_return, Waits, Places
<1>4. CASE join_test
  <2>1. exec' = User(exec.who) \/ Yield("join", exec.arg)
    BY <1>4 DEF join_test
  <2>2. ~Waits(exec')
    BY <1>0, <2>1, ExecRecords DEF Waits, Places
  <2> QED BY <1>4, <2>2, StayArg DEF join_test
<1>5. CASE wait_return
  BY <1>0, <1>5, ExecRecords, StayArg DEF wait_return, Waits, User
<1>6. CASE \E u \in Threads : pthread_join(u)
  <2>1. PICK u \in Threads : pthread_join(u)
    BY <1>6
  <2>2. exec'.at = "join"
    BY <1>0, <2>1 DEF pthread_join, Flow
  <2> QED BY <2>1, <2>2, StayArg DEF pthread_join, Waits
<1>7. CASE \E v \in 0 .. MaxValue : sem_init(v)
  BY <1>7, StayArg DEF sem_init, ArgSound
<1>8. CASE \E s \in Sems : sem_destroy(s)
  BY <1>8, StayArg DEF sem_destroy, ArgSound
<1>9. CASE \E s \in Sems : sem_wait(s)
  <2>1. PICK s \in Sems : sem_wait(s)
    BY <1>9
  <2>2. s \in Nat /\ ctx' = ctx /\ exec.at = "user"
    BY <2>1, SizesAssumption DEF sem_wait, Sems, Running
  <2>3. exec' = exec \/ Yield("waited", s)
    BY <2>1 DEF sem_wait
  <2>4. exec' = exec \/ exec'.arg = s
    BY <1>0, <2>2, <2>3, ExecRecords DEF Places
  <2> QED BY <2>2, <2>4, StayArg DEF ArgSound
<1>10. CASE \E s \in Sems : sem_post(s)
  BY <1>10, StayArg DEF sem_post, ArgSound
<1> QED BY <1>1, <1>2, <1>3, <1>4, <1>5, <1>6, <1>7, <1>8, <1>9, <1>10 DEF Others

(* The part of the inductive invariant that concerns the scheduler. *)
SchedInv == FlowInv /\ ArgSound

LEMMA SchedStep == SchedInv /\ [Next]_vars => SchedInv'
<1> SUFFICES ASSUME SchedInv, [Next]_vars PROVE SchedInv'
  OBVIOUS
<1>1. CASE Switch
  BY <1>1, SwitchFlow, SwitchArg DEF SchedInv
<1>2. CASE pthread_create
  BY <1>2, CreateFlow, CreateArg DEF SchedInv
<1>3. CASE Others
  <2>1. wait_return => exec.arg \in Sems
    BY DEF wait_return, Running, SchedInv, ArgSound, Waits
  <2>2. FlowInv'
    BY <1>3, <2>1, CreateReturnFlow, ExitFlow, EndFlow, JoinTestFlow, WaitReturnFlow, JoinFlow,
       SemInitFlow, SemDestroyFlow, SemWaitFlow, SemPostFlow DEF SchedInv, Others
  <2> QED BY <1>3, <2>2, OthersArg DEF SchedInv
<1>4. CASE UNCHANGED vars
  BY <1>4 DEF vars, SchedInv, FlowInv, TypeOK, FlowSound, ContextSound, ReadySound, ArgSound, Waits
<1> QED BY <1>1, <1>2, <1>3, <1>4, NextCases

(* The scheduler's part of the inductive invariant holds always: the timer may
   go off at any point outside pthread_create and the scheduler's loop. *)
THEOREM SchedulerSound == Spec => []SchedInv
<1>1. Init => SchedInv
  BY InitFlow, InitArg DEF SchedInv
<1> QED BY <1>1, SchedStep, PTL DEF Spec

(* The tables keep their types: current_thread and thread_count stay within
   tcb, and every thread number in a waiting list is one. *)
THEOREM TypeCorrect == Spec => []TypeOK
<1>1. SchedInv => TypeOK
  BY DEF SchedInv, FlowInv
<1> QED BY <1>1, SchedulerSound, PTL

(* Every thread resumes where it left off: longjmp goes to a context setjmp
   saved for the same thread. *)
THEOREM ContextsStayOwn == Spec => []ContextsOwn
<1>1. SchedInv => ContextsOwn
  BY DEF SchedInv, FlowInv, ContextSound, ContextsOwn
<1> QED BY <1>1, SchedulerSound, PTL

(* The thread that executes is current_thread, and unless it is main it is
   neither blocked nor exited. *)
THEOREM RunnersStayReady == Spec => []RunnersReady
<1>1. SchedInv => RunnersReady
  BY DEF SchedInv, FlowInv, FlowSound, ReadySound, RunnersReady
<1> QED BY <1>1, SchedulerSound, PTL
-----------------------------------------------------------------------------
(* The semaphores.  The main thread does not call sem_wait: the scheduler
   resumes it whatever its state. *)

(* A thread that has blocked in sem_wait has the signal blocked until schedule
   has saved its context; a thread in sem_wait waits for a live semaphore. *)
WaitSound ==
  /\ exec.at = "sched" /\ exec.then = "waited" => masked
  /\ \A t \in Threads : ctx[t].flow.at = "sched" => ctx[t].flow.then # "waited"
  /\ \A t \in Threads, s \in Sems :
       InWait(t, s) => t # 0 /\ t < count /\ sems[s].live /\ s \notin inside[t]
HoldSound == \A t \in Threads : \A s \in inside[t] : sems[s].live
(* The waiting lists hold, once each, the threads that are blocked there. *)
ListSound ==
  \A s \in Sems :
    /\ sems[s].live => s < nsem
    /\ ~sems[s].live => sems[s].waiting = <<>>
    /\ \A i, j \in 1 .. Len(sems[s].waiting) : sems[s].waiting[i] = sems[s].waiting[j] => i = j
    /\ \A t \in Threads : t \in Listed(s) <=> InWait(t, s) /\ state[t] = "BLOCKED"

SemInv == WaitSound /\ HoldSound /\ ListSound /\ SemaphoreConserved
IndInv == SchedInv /\ SemInv
-----------------------------------------------------------------------------
LEMMA InitSem == Init => SemInv
<1> SUFFICES ASSUME Init PROVE SemInv
  OBVIOUS
<1>1. \A t \in Threads, s \in Sems : ~InWait(t, s)
  BY DEF Init, InWait, NoContext, User
<1>2. WaitSound /\ HoldSound
  BY <1>1 DEF Init, WaitSound, HoldSound, NoContext, User
<1>3. \A s \in Sems : ~sems[s].live /\ sems[s].waiting = <<>> /\ Listed(s) = {}
  BY DEF Init, NoSem, Listed
<1>4. ListSound
  BY <1>1, <1>3 DEF ListSound
<1>5. SemaphoreConserved
  BY <1>3 DEF SemaphoreConserved
<1> QED BY <1>2, <1>4, <1>5 DEF SemInv

LEMMA WokenSet ==
  ASSUME WaitSound, NEW s \in Sems
  PROVE  Woken(s) = {t \in Threads : InWait(t, s) /\ t \notin Listed(s)}
BY DEF WaitSound, Woken

LEMMA FiniteThreads ==
  /\ IsFiniteSet(Threads)
  /\ \A S \in SUBSET Threads : IsFiniteSet(S) /\ Cardinality(S) \in Nat
<1>1. IsFiniteSet(Threads)
  BY FS_Interval, SizesAssumption DEF Threads
<1>2. \A S \in SUBSET Threads : IsFiniteSet(S)
  BY <1>1, FS_Subset
<1> QED BY <1>1, <1>2, FS_CardinalityType

(* A step that changes nobody's place in sem_wait and no semaphore. *)
LEMMA KeepSem ==
  ASSUME SemInv,
         \A t \in Threads, s \in Sems : InWait(t, s)' <=> InWait(t, s),
         \A t \in Threads, s \in Sems : InWait(t, s) => (state'[t] = "BLOCKED" <=> state[t] = "BLOCKED"),
         \A t \in Threads : t < count => t < count',
         UNCHANGED <<sems, nsem, inside>>,
         exec'.at = "sched" /\ exec'.then = "waited" => masked',
         \A t \in Threads : ctx'[t].flow.at = "sched" => ctx'[t].flow.then # "waited"
  PROVE  SemInv'
<1>1. WaitSound'
  BY DEF SemInv, WaitSound
<1>2. HoldSound'
  BY DEF SemInv, HoldSound
<1>3. \A s \in Sems : Listed(s)' = Listed(s) /\ Holders(s)' = Holders(s)
  BY DEF Listed, Holders
<1>4. ListSound'
  BY <1>3 DEF SemInv, ListSound
<1>5. \A s \in Sems : Woken(s)' = Woken(s)
  <2> SUFFICES ASSUME NEW s \in Sems PROVE Woken(s)' = Woken(s)
    OBVIOUS
  <2>1. Woken(s) = {t \in Threads : InWait(t, s) /\ t \notin Listed(s)}
    BY WokenSet DEF SemInv
  <2>2. Woken(s)' = {t \in Threads : InWait(t, s)' /\ t \notin Listed(s)'}
    BY <1>1 DEF WaitSound, Woken
  <2> QED BY <1>3, <2>1, <2>2
<1>6. SemaphoreConserved'
  BY <1>3, <1>5 DEF SemInv, SemaphoreConserved
<1> QED BY <1>1, <1>2, <1>4, <1>6 DEF SemInv

(* schedule takes nobody out of sem_wait. *)
LEMMA SwitchSem == IndInv /\ Switch => SemInv'
<1> SUFFICES ASSUME IndInv, Switch PROVE SemInv'
  OBVIOUS
<1>0. /\ current \in Threads /\ ctx \in [Threads -> Context] /\ exec \in Flow
      /\ UNCHANGED <<sems, nsem, inside, state, count>>
  BY DEF IndInv, SchedInv, FlowInv, TypeOK, Switch, schedule_save, schedule_next, schedule_jump, schedule_signal
<1>a. WaitSound /\ FlowSound /\ ContextSound
  BY DEF IndInv, SchedInv, FlowInv, SemInv
<1>1. CASE schedule_save
  <2>1. /\ ctx' = [ctx EXCEPT ![current] = Saved([exec EXCEPT !.at = exec.then], FALSE)]
        /\ exec.at = "sched" /\ exec.who = current /\ exec.then \in Back
    BY <1>1, <1>a DEF schedule_save, Running, FlowSound
  <2>2. \A t \in Threads : t # current => ctx'[t] = ctx[t]
    BY <1>0, <2>1
  <2>3. /\ ctx'[current].set /\ ctx'[current].flow.at = exec.then
        /\ ctx'[current].flow.arg = exec.arg
    BY <1>0, <2>1 DEF Saved, Flow
  <2>4. exec'.at = "loop"
    BY <1>0, <1>1 DEF schedule_save, Goto, Flow
  <2>5. ASSUME NEW t \in Threads, NEW s \in Sems PROVE InWait(t, s)' <=> InWait(t, s)
    <3>1. InWait(t, s)' <=> ctx'[t].set /\ ctx'[t].flow.at = "waited" /\ ctx'[t].flow.arg = s
      BY <2>4 DEF InWait
    <3>2. CASE t = current
      BY <2>1, <2>3, <3>1, <3>2 DEF InWait
    <3>3. CASE t # current
      BY <2>1, <2>2, <3>1, <3>3 DEF InWait
    <3> QED BY <3>2, <3>3
  <2>6. \A t \in Threads : ctx'[t].flow.at = "sched" => ctx'[t].flow.then # "waited"
    BY <1>a, <2>1, <2>2, <2>3 DEF WaitSound, Back
  <2> QED BY <1>0, <2>4, <2>5, <2>6, KeepSem DEF IndInv
<1>2. CASE schedule_next
  <2>1. exec.at = "loop" /\ exec'.at = "picked" /\ ctx' = ctx
    BY <1>0, <1>2 DEF schedule_next, Running, Goto, Flow
  <2>2. \A t \in Threads, s \in Sems : InWait(t, s)' <=> InWait(t, s)
    BY <2>1 DEF InWait
  <2> QED BY <1>0, <1>a, <2>1, <2>2, KeepSem DEF IndInv, WaitSound
<1>3. CASE schedule_jump
  <2>1. exec.at = "picked" /\ ctx' = ctx
    BY <1>3 DEF schedule_jump, Running
  <2>2. CASE state[current] # "READY" /\ current # 0
    <3>1. exec'.at = "loop"
      BY <1>0, <1>3, <2>2 DEF schedule_jump, Goto, Flow
    <3>2. \A t \in Threads, s \in Sems : InWait(t, s)' <=> InWait(t, s)
      BY <2>1, <3>1 DEF InWait
    <3> QED BY <1>0, <1>a, <2>1, <3>1, <3>2, KeepSem DEF IndInv, WaitSound
  <2>3. CASE ~(state[current] # "READY" /\ current # 0)
    <3>1. ctx[current].set /\ exec' = ctx[current].flow
      BY <1>3, <2>3 DEF schedule_jump
    <3>2. /\ exec'.who = current /\ exec'.at \notin {"loop", "picked"}
          /\ exec'.at = "sched" => exec'.then # "waited"
      BY <1>0, <1>a, <3>1 DEF ContextSound, Resumed, WaitSound
    <3>3. ASSUME NEW t \in Threads, NEW s \in Sems PROVE InWait(t, s)' <=> InWait(t, s)
      <4>1. InWait(t, s) <=> ctx[t].set /\ ctx[t].flow.at = "waited" /\ ctx[t].flow.arg = s
        BY <2>1 DEF InWait
      <4>2. CASE t = current
        BY <3>1, <3>2, <4>1, <4>2 DEF InWait
      <4>3. CASE t # current
        BY <2>1, <3>2, <4>1, <4>3 DEF InWait
      <4> QED BY <4>2, <4>3
    <3> QED BY <1>0, <1>a, <2>1, <3>2, <3>3, KeepSem DEF IndInv, WaitSound
  <2> QED BY <2>2, <2>3
<1>4. CASE Calm /\ schedule_signal
  <2>1. /\ exec.who = current /\ exec.at \notin {"loop", "picked"} /\ ~masked
        /\ ctx' = [ctx EXCEPT ![current] = Saved(exec, TRUE)] /\ exec'.at = "loop"
    BY <1>0, <1>4, <1>a DEF schedule_signal, Calm, Goto, Flow, FlowSound
  <2>2. ctx'[current].set /\ ctx'[current].flow = exec
    BY <1>0, <2>1 DEF Saved
  <2>3. \A t \in Threads : t # current => ctx'[t] = ctx[t]
    BY <1>0, <2>1
  <2>4. ~(exec.at = "sched" /\ exec.then = "waited")
    BY <1>a, <2>1 DEF WaitSound
  <2>5. ASSUME NEW t \in Threads, NEW s \in Sems PROVE InWait(t, s)' <=> InWait(t, s)
    <3>1. InWait(t, s)' <=> ctx'[t].set /\ ctx'[t].flow.at = "waited" /\ ctx'[t].flow.arg = s
      BY <2>1 DEF InWait
    <3>2. CASE t = current
      BY <2>1, <2>2, <2>4, <3>1, <3>2 DEF InWait
    <3>3. CASE t # current
      BY <2>1, <2>3, <3>1, <3>3 DEF InWait
    <3> QED BY <3>2, <3>3
  <2>6. \A t \in Threads : ctx'[t].flow.at = "sched" => ctx'[t].flow.then # "waited"
    BY <1>a, <2>2, <2>3, <2>4 DEF WaitSound
  <2> QED BY <1>0, <2>1, <2>5, <2>6, KeepSem DEF IndInv
<1> QED BY <1>1, <1>2, <1>3, <1>4 DEF Switch

(* A step outside schedule moves the thread that executes only. *)
LEMMA StayWait ==
  ASSUME exec.at \notin {"loop", "picked"}, exec'.at \notin {"loop", "picked"},
         exec'.who = exec.who, ctx' = ctx
  PROVE  /\ \A t \in Threads, s \in Sems : t # exec.who => (InWait(t, s)' <=> InWait(t, s))
         /\ ~Waits(exec) => \A s \in Sems : ~InWait(exec.who, s)
         /\ ~Waits(exec') => \A s \in Sems : ~InWait(exec.who, s)'
         /\ Waits(exec') => \A s \in Sems : InWait(exec.who, s)' <=> exec'.arg = s
         /\ Waits(exec) => \A s \in Sems : InWait(exec.who, s) <=> exec.arg = s
BY DEF InWait, Waits

(* It is outside sem_wait before and after, and no semaphore is changed. *)
LEMMA IdleSem ==
  ASSUME SemInv, ctx' = ctx, exec'.who = exec.who,
         exec.at \notin {"loop", "picked"}, exec'.at \notin {"loop", "picked"},
         ~Waits(exec), ~Waits(exec'),
         \A t \in Threads : t # exec.who => state'[t] = state[t],
         \A t \in Threads : t < count => t < count',
         UNCHANGED <<sems, nsem, inside>>
  PROVE  SemInv'
<1>1. \A t \in Threads, s \in Sems : InWait(t, s)' <=> InWait(t, s)
  BY StayWait
<1>2. \A t \in Threads, s \in Sems : InWait(t, s) => t # exec.who
  BY StayWait
<1>3. /\ exec'.at = "sched" /\ exec'.then = "waited" => masked'
      /\ \A t \in Threads : ctx'[t].flow.at = "sched" => ctx'[t].flow.then # "waited"
  BY DEF Waits, SemInv, WaitSound
<1> QED BY <1>1, <1>2, <1>3, KeepSem

LEMMA CreateSem == IndInv /\ pthread_create => SemInv'
<1> SUFFICES ASSUME IndInv, pthread_create PROVE SemInv'
  OBVIOUS
<1>1. /\ count \in Threads /\ exec \in Flow /\ exec.at = "user" /\ exec.who = current
      /\ current # count /\ WaitSound
  BY ThreadsNat DEF IndInv, SchedInv, FlowInv, FlowSound, SemInv, pthread_create, TypeOK, Threads, Running
<1>2. exec'.at = "create" /\ exec'.who = exec.who
  BY <1>1, ExecRecords DEF pthread_create, Places
<1>3. /\ UNCHANGED <<sems, nsem, inside, count>>
      /\ ctx'[count].flow = User(count)
      /\ \A t \in Threads : t # count => ctx'[t] = ctx[t] /\ state'[t] = state[t]
  BY <1>1 DEF pthread_create, Saved, IndInv, SchedInv, FlowInv, TypeOK
<1>4. \A s \in Sems : ~InWait(count, s) /\ ~InWait(count, s)'
  <2>1. ~(count < count)
    BY <1>1, ThreadsNat
  <2>2. \A s \in Sems : ~InWait(count, s)
    BY <1>1, <2>1 DEF WaitSound
  <2>3. \A s \in Sems : ~InWait(count, s)'
    BY <1>1, <1>2, <1>3 DEF InWait, User
  <2> QED BY <2>2, <2>3
<1>5. \A t \in Threads, s \in Sems : InWait(t, s)' <=> InWait(t, s)
  BY <1>1, <1>2, <1>3, <1>4 DEF InWait
<1>6. \A t \in Threads, s \in Sems : InWait(t, s) => state'[t] = state[t]
  BY <1>3, <1>4
<1>7. \A t \in Threads : ctx'[t].flow.at = "sched" => ctx'[t].flow.then # "waited"
  BY <1>1, <1>3 DEF WaitSound, User
<1> QED BY <1>2, <1>3, <1>5, <1>6, <1>7, KeepSem DEF IndInv

(* Creation's end, exit, main's return and join. *)
LEMMA IdleSteps ==
  IndInv /\ (create_return \/ pthread_exit \/ main_return \/ join_test \/ \E u \in Threads : pthread_join(u))
    => SemInv'
<1> SUFFICES ASSUME IndInv,
                    create_return \/ pthread_exit \/ main_return \/ join_test \/ \E u \in Threads : pthread_join(u)
             PROVE SemInv'
  OBVIOUS
<1>0. /\ exec \in Flow /\ exec.arg \in Nat /\ state \in [Threads -> States] /\ SemInv
      /\ exec.at \notin {"loop", "picked"} => exec.who = current
      /\ count \in Nat
  BY DEF IndInv, SchedInv, FlowInv, FlowSound, TypeOK, Flow
<1>1. CASE create_return
  <2>1. exec.at = "create" /\ exec'.at = "sched" /\ exec'.then = "user" /\ exec'.who = exec.who
    BY <1>0, <1>1, ExecRecords DEF create_return, Running, Places
  <2>2. \A t \in Threads : t < count => t < count'
    BY <1>0, <1>1, ThreadsNat DEF create_return
  <2> QED BY <1>0, <1>1, <2>1, <2>2, IdleSem DEF create_return, Waits
<1>2. CASE pthread_exit
  <2>1. exec.at = "user" /\ exec'.at = "sched" /\ exec'.then = "dead" /\ exec'.who = exec.who
    BY <1>0, <1>2, ExecRecords DEF pthread_exit, Running, Places
  <2>2. \A t \in Threads : t # exec.who => state'[t] = state[t]
    BY <1>0, <1>2, <2>1 DEF pthread_exit
  <2> QED BY <1>0, <1>2, <2>1, <2>2, IdleSem DEF pthread_exit, Waits
<1>3. CASE main_return
  <2>1. exec.at = "user" /\ exec'.at = "end" /\ exec'.who = exec.who
    BY <1>0, <1>3, ExecRecords DEF main_return, Running, Places
  <2> QED BY <1>0, <1>3, <2>1, IdleSem DEF main_return, Waits
<1>4. CASE join_test
  <2>1. exec.at = "join" /\ (exec' = User(exec.who) \/ Yield("join", exec.arg))
    BY <1>4 DEF join_test, Running
  <2>2. exec'.at \notin {"loop", "picked"} /\ ~Waits(exec') /\ exec'.who = exec.who
    BY <1>0, <2>1, ExecRecords DEF Waits, Places
  <2>3. \A t \in Threads : t # exec.who => state'[t] = state[t]
    BY <1>0, <1>4, <2>1 DEF join_test
  <2> QED BY <1>0, <1>4, <2>1, <2>2, <2>3, IdleSem DEF join_test, Waits
<1>5. CASE \E u \in Threads : pthread_join(u)
  <2>1. PICK u \in Threads : pthread_join(u)
    BY <1>5
  <2>2. exec.at = "user" /\ exec'.at = "join" /\ exec'.who = exec.who
    BY <1>0, <2>1 DEF pthread_join, Running, Flow
  <2> QED BY <1>0, <2>1, <2>2, IdleSem DEF pthread_join, Waits
<1> QED BY <1>1, <1>2, <1>3, <1>4, <1>5

LEMMA SemInitSem == IndInv /\ (\E v \in 0 .. MaxValue : sem_init(v)) => SemInv'
<1> SUFFICES ASSUME IndInv, NEW v \in 0 .. MaxValue, sem_init(v) PROVE SemInv'
  OBVIOUS
<1>1. /\ nsem \in Sems /\ nsem' = nsem + 1 /\ UNCHANGED <<count, current, state, ctx, masked, exec, inside>>
      /\ nsem \in Nat /\ sems \in [Sems -> Sem] /\ inside \in [Threads -> SUBSET Sems]
  BY SizesAssumption DEF sem_init, IndInv, SchedInv, FlowInv, TypeOK, Sems
<1> DEFINE new == [live |-> TRUE, init |-> v, value |-> v, waiting |-> <<>>]
<1>n. PICK n \in Sems : n = nsem
  BY <1>1
<1>2. sems'[n] = new /\ \A s \in Sems : s # n => sems'[s] = sems[s]
  BY <1>1, <1>n DEF sem_init
<1>3. WaitSound /\ HoldSound /\ ListSound /\ SemaphoreConserved
  BY DEF IndInv, SemInv
<1>4. ~sems[n].live
  BY <1>1, <1>3, <1>n DEF ListSound
<1>5. \A t \in Threads : ~InWait(t, n) /\ n \notin inside[t]
  BY <1>3, <1>4 DEF WaitSound, HoldSound
<1>6. \A t \in Threads, s \in Sems : InWait(t, s)' <=> InWait(t, s)
  BY <1>1 DEF InWait
<1>7. \A s \in Sems : s # n => Listed(s)' = Listed(s) /\ Woken(s)' = Woken(s) /\ Holders(s)' = Holders(s)
  BY <1>1, <1>2, <1>6 DEF Listed, Woken, Holders
<1>8. Listed(n)' = {} /\ Holders(n)' = {} /\ Woken(n)' = {}
  BY <1>1, <1>2, <1>5, <1>6 DEF Listed, Holders, Woken
<1>9. WaitSound'
  BY <1>1, <1>2, <1>3, <1>5, <1>6 DEF WaitSound
<1>10. HoldSound'
  BY <1>1, <1>2, <1>3, <1>5 DEF HoldSound
<1>11. ListSound'
  <2> SUFFICES ASSUME NEW s \in Sems
               PROVE  /\ sems'[s].live => s < nsem'
                      /\ ~sems'[s].live => sems'[s].waiting = <<>>
                      /\ \A i, j \in 1 .. Len(sems'[s].waiting) :
                           sems'[s].waiting[i] = sems'[s].waiting[j] => i = j
                      /\ \A t \in Threads : t \in Listed(s)' <=> InWait(t, s)' /\ state'[t] = "BLOCKED"
    BY DEF ListSound
  <2>1. CASE s = n
    <3>1. s < nsem' /\ sems'[s].live /\ Len(sems'[s].waiting) = 0
      BY <1>1, <1>2, <1>n, <2>1
    <3>2. \A t \in Threads : t \notin Listed(s)' /\ ~InWait(t, s)'
      BY <1>5, <1>6, <1>8, <2>1
    <3> QED BY <3>1, <3>2
  <2>2. CASE s # n
    <3>1. s < nsem => s < nsem'
      BY <1>1, SizesAssumption DEF Sems
    <3> QED BY <1>1, <1>2, <1>3, <1>6, <1>7, <2>2, <3>1 DEF ListSound
  <2> QED BY <2>1, <2>2
<1>12. SemaphoreConserved'
  <2>1. sems'[n].value + Cardinality(Holders(n)') + Cardinality(Woken(n)') = sems'[n].init
    BY <1>2, <1>8, FS_EmptySet
  <2> QED BY <1>2, <1>3, <1>7, <2>1 DEF SemaphoreConserved
<1> QED BY <1>9, <1>10, <1>11, <1>12 DEF SemInv

LEMMA SemDestroySem == IndInv /\ (\E s \in Sems : sem_destroy(s)) => SemInv'
<1> SUFFICES ASSUME IndInv, NEW n \in Sems, sem_destroy(n) PROVE SemInv'
  OBVIOUS
<1>1. /\ UNCHANGED <<count, current, state, ctx, masked, exec, nsem, inside>>
      /\ sems[n].waiting = <<>> /\ \A t \in Threads : n \notin inside[t] /\ ~InWait(t, n)
      /\ sems \in [Sems -> Sem] /\ inside \in [Threads -> SUBSET Sems]
  BY DEF sem_destroy, IndInv, SchedInv, FlowInv, TypeOK
<1>2. sems'[n] = NoSem /\ \A s \in Sems : s # n => sems'[s] = sems[s]
  BY <1>1 DEF sem_destroy
<1>3. WaitSound /\ HoldSound /\ ListSound /\ SemaphoreConserved
  BY DEF IndInv, SemInv
<1>4. \A t \in Threads, s \in Sems : InWait(t, s)' <=> InWait(t, s)
  BY <1>1 DEF InWait
<1>5. \A s \in Sems : s # n => Listed(s)' = Listed(s) /\ Woken(s)' = Woken(s) /\ Holders(s)' = Holders(s)
  BY <1>1, <1>2, <1>4 DEF Listed, Woken, Holders
<1>6. ~sems'[n].live /\ sems'[n].waiting = <<>> /\ Listed(n)' = {}
  BY <1>2 DEF NoSem, Listed
<1>7. WaitSound' /\ HoldSound'
  BY <1>1, <1>2, <1>3, <1>4 DEF WaitSound, HoldSound
<1>8. ListSound'
  <2> SUFFICES ASSUME NEW s \in Sems
               PROVE  /\ sems'[s].live => s < nsem'
                      /\ ~sems'[s].live => sems'[s].waiting = <<>>
                      /\ \A i, j \in 1 .. Len(sems'[s].waiting) :
                           sems'[s].waiting[i] = sems'[s].waiting[j] => i = j
                      /\ \A t \in Threads : t \in Listed(s)' <=> InWait(t, s)' /\ state'[t] = "BLOCKED"
    BY DEF ListSound
  <2>1. CASE s = n
    BY <1>1, <1>4, <1>6, <2>1
  <2>2. CASE s # n
    BY <1>1, <1>2, <1>3, <1>4, <1>5, <2>2 DEF ListSound
  <2> QED BY <2>1, <2>2
<1>9. SemaphoreConserved'
  BY <1>2, <1>3, <1>5, <1>6 DEF SemaphoreConserved
<1> QED BY <1>7, <1>8, <1>9 DEF SemInv

(* ListSound and SemaphoreConserved of one semaphore. *)
ListOf(s) ==
  /\ sems[s].live => s < nsem
  /\ ~sems[s].live => sems[s].waiting = <<>>
  /\ \A i, j \in 1 .. Len(sems[s].waiting) : sems[s].waiting[i] = sems[s].waiting[j] => i = j
  /\ \A t \in Threads : t \in Listed(s) <=> InWait(t, s) /\ state[t] = "BLOCKED"
UnitsOf(s) ==
  sems[s].live => sems[s].value + Cardinality(Holders(s)) + Cardinality(Woken(s)) = sems[s].init

(* A step on semaphore n leaves the others alone. *)
LEMMA OtherSems ==
  ASSUME SemInv, NEW n \in Sems,
         \A s \in Sems : s # n => sems'[s] = sems[s],
         \A t \in Threads, s \in Sems : s # n => (InWait(t, s)' <=> InWait(t, s)),
         \A t \in Threads, s \in Sems : s # n => (s \in inside'[t] <=> s \in inside[t]),
         \A t \in Threads, s \in Sems : s # n /\ InWait(t, s) => (state'[t] = "BLOCKED" <=> state[t] = "BLOCKED"),
         UNCHANGED <<count, nsem>>,
         WaitSound', HoldSound', ListOf(n)', UnitsOf(n)'
  PROVE  SemInv'
<1>1. ASSUME NEW s \in Sems, s # n PROVE ListOf(s)' /\ UnitsOf(s)'
  <2>1. Listed(s)' = Listed(s) /\ Holders(s)' = Holders(s)
    BY <1>1 DEF Listed, Holders
  <2>2. Woken(s)' = Woken(s)
    BY <1>1, <2>1 DEF Woken
  <2>3. ListOf(s)'
    BY <1>1, <2>1 DEF SemInv, ListSound, ListOf
  <2>4. UnitsOf(s)'
    BY <1>1, <2>1, <2>2 DEF SemInv, SemaphoreConserved, UnitsOf
  <2> QED BY <2>3, <2>4
<1>2. \A s \in Sems : ListOf(s)' /\ UnitsOf(s)'
  BY <1>1
<1>3. ListSound'
  BY <1>2 DEF ListSound, ListOf
<1>4. SemaphoreConserved'
  BY <1>2 DEF SemaphoreConserved, UnitsOf
<1> QED BY <1>3, <1>4 DEF SemInv

LEMMA PartsOf ==
  ASSUME IndInv, NEW n \in Sems
  PROVE  /\ ListOf(n) /\ UnitsOf(n) /\ WaitSound /\ HoldSound
         /\ Holders(n) \in SUBSET Threads /\ Woken(n) \in SUBSET Threads
         /\ Cardinality(Holders(n)) \in Nat /\ Cardinality(Woken(n)) \in Nat
         /\ sems[n].value \in Nat /\ sems[n].init \in Nat
<1>1. ListOf(n)
  BY DEF IndInv, SemInv, ListSound, ListOf
<1>2. UnitsOf(n) /\ WaitSound /\ HoldSound
  BY DEF IndInv, SemInv, SemaphoreConserved, UnitsOf
<1>3. Holders(n) \in SUBSET Threads /\ Woken(n) \in SUBSET Threads
  BY DEF Holders, Woken
<1>4. sems[n].value \in Nat /\ sems[n].init \in Nat
  BY SemType, SizesAssumption DEF IndInv, SchedInv, FlowInv
<1> QED BY <1>1, <1>2, <1>3, <1>4, FiniteThreads

LEMMA SemRecords ==
  ASSUME NEW r \in Sem, NEW v, NEW q
  PROVE  /\ [r EXCEPT !.value = v].live = r.live /\ [r EXCEPT !.value = v].init = r.init
         /\ [r EXCEPT !.value = v].waiting = r.waiting /\ [r EXCEPT !.value = v].value = v
         /\ [r EXCEPT !.waiting = q].live = r.live /\ [r EXCEPT !.waiting = q].init = r.init
         /\ [r EXCEPT !.waiting = q].waiting = q /\ [r EXCEPT !.waiting = q].value = r.value
BY DEF Sem

LEMMA PassSem ==
  ASSUME IndInv, NEW n \in Sems, sem_wait(n), Pass(n)
  PROVE  SemInv'
<1> DEFINE w == exec.who
<1>1. /\ exec.at = "user" /\ w \in Threads /\ sems[n].live /\ n \notin inside[w]
      /\ UNCHANGED <<count, current, ctx, nsem, state, exec>>
      /\ sems \in [Sems -> Sem] /\ inside \in [Threads -> SUBSET Sems]
  BY DEF sem_wait, Pass, Running, IndInv, SchedInv, FlowInv, TypeOK, Flow
<1>2. /\ sems'[n] = [sems[n] EXCEPT !.value = sems[n].value - 1]
      /\ \A s \in Sems : s # n => sems'[s] = sems[s]
      /\ inside'[w] = inside[w] \cup {n} /\ \A t \in Threads : t # w => inside'[t] = inside[t]
  BY <1>1 DEF Pass
<1>3. /\ sems'[n].live = sems[n].live /\ sems'[n].waiting = sems[n].waiting
      /\ sems'[n].init = sems[n].init /\ sems'[n].value = sems[n].value - 1
  <2>1. sems[n] \in Sem
    BY <1>1
  <2>2. PICK v : v = sems[n].value - 1
    OBVIOUS
  <2>3. sems'[n] = [sems[n] EXCEPT !.value = v]
    BY <1>2, <2>2
  <2> QED BY <2>1, <2>2, <2>3, SemRecords
<1>4. \A t \in Threads, s \in Sems : InWait(t, s)' <=> InWait(t, s)
  BY <1>1 DEF InWait
<1>5. \A s \in Sems : ~InWait(w, s)
  BY <1>1, StayWait DEF Waits
<1>6. WaitSound'
  <2>0. \A s \in Sems : sems'[s].live = sems[s].live
    BY <1>2, <1>3
  <2>1. exec'.at = "user"
    BY <1>1
  <2>2. ASSUME NEW t \in Threads, NEW s \in Sems, InWait(t, s)'
        PROVE  t # 0 /\ t < count' /\ sems'[s].live /\ s \notin inside'[t]
    <3>1. InWait(t, s) /\ t # w
      BY <1>4, <1>5, <2>2
    <3> QED BY <1>1, <1>2, <2>0, <3>1, PartsOf DEF WaitSound
  <2> QED BY <1>1, <2>1, <2>2, PartsOf DEF WaitSound
<1>7. HoldSound'
  <2>1. ASSUME NEW t \in Threads, NEW s \in inside'[t] PROVE sems'[s].live
    <3>1. s \in inside[t] \/ s = n
      BY <1>2
    <3>2. s \in inside[t] => s \in Sems /\ sems[s].live
      BY <1>1, PartsOf DEF HoldSound
    <3> QED BY <1>1, <1>2, <1>3, <3>1, <3>2
  <2> QED BY <2>1 DEF HoldSound
<1>8. Listed(n)' = Listed(n)
  BY <1>3 DEF Listed
<1>9. ListOf(n)'
  BY <1>1, <1>3, <1>4, <1>8, PartsOf DEF ListOf
<1>10. Woken(n)' = Woken(n)
  BY <1>1, <1>4, <1>8 DEF Woken
<1>11. Holders(n)' = Holders(n) \cup {w} /\ w \notin Holders(n)
  BY <1>1, <1>2 DEF Holders
<1>12. UnitsOf(n)'
  <2>1. Cardinality(Holders(n) \cup {w}) = Cardinality(Holders(n)) + 1
    BY <1>11, PartsOf, FiniteThreads, FS_AddElement
  <2> QED BY <1>1, <1>3, <1>10, <1>11, <2>1, PartsOf DEF UnitsOf
<1>13. \A t \in Threads, s \in Sems : s # n => (s \in inside'[t] <=> s \in inside[t])
  BY <1>1, <1>2
<1> QED BY <1>1, <1>2, <1>4, <1>6, <1>7, <1>9, <1>12, <1>13, OtherSems DEF IndInv

LEMMA BlockSem ==
  ASSUME IndInv, 0 \notin Waiters, NEW n \in Sems, sem_wait(n), Block(n)
  PROVE  SemInv'
<1>1. /\ exec.at = "user" /\ exec.who = current /\ current \in Threads /\ current < count /\ current # 0
      /\ sems[n].live /\ n \notin inside[current] /\ n \in Nat
      /\ UNCHANGED <<count, current, ctx, nsem, inside>> /\ masked' = TRUE
      /\ sems \in [Sems -> Sem] /\ exec \in Flow /\ state \in [Threads -> States]
      /\ inside \in [Threads -> SUBSET Sems]
  BY SizesAssumption DEF sem_wait, Block, Running, IndInv, SchedInv, FlowInv, FlowSound, TypeOK, Flow, Sems
<1>w. PICK w \in Threads : w = current
  BY <1>1
<1> DEFINE old == sems[n].waiting
<1>2. /\ sems'[n] = [sems[n] EXCEPT !.waiting = Append(old, w)]
      /\ \A s \in Sems : s # n => sems'[s] = sems[s]
      /\ state'[w] = "BLOCKED" /\ \A t \in Threads : t # w => state'[t] = state[t]
  BY <1>1, <1>w DEF Block
<1>3. /\ sems'[n].live = sems[n].live /\ sems'[n].waiting = Append(old, w)
      /\ sems'[n].init = sems[n].init /\ sems'[n].value = sems[n].value
  BY <1>1, <1>2 DEF Sem
<1>4. exec'.at = "sched" /\ exec'.then = "waited" /\ exec'.arg = n /\ exec'.who = exec.who
  BY <1>1, ExecRecords DEF Block, Places
<1>5. /\ \A t \in Threads, s \in Sems : t # w => (InWait(t, s)' <=> InWait(t, s))
      /\ \A s \in Sems : ~InWait(w, s)
      /\ \A s \in Sems : InWait(w, s)' <=> s = n
  BY <1>1, <1>w, <1>4, StayWait DEF Waits
<1>6. WaitSound'
  <2>1. ASSUME NEW t \in Threads, NEW s \in Sems, InWait(t, s)'
        PROVE  t # 0 /\ t < count' /\ sems'[s].live /\ s \notin inside'[t]
    <3>1. CASE t = w
      BY <1>1, <1>w, <1>3, <1>5, <2>1, <3>1
    <3>2. CASE t # w
      BY <1>1, <1>2, <1>3, <1>5, <2>1, <3>2, PartsOf DEF WaitSound
    <3> QED BY <3>1, <3>2
  <2> QED BY <1>1, <2>1, PartsOf DEF WaitSound
<1>7. HoldSound'
  <2>1. ASSUME NEW t \in Threads, NEW s \in inside'[t] PROVE sems'[s].live
    <3>1. s \in Sems /\ sems[s].live
      BY <1>1, PartsOf DEF HoldSound
    <3> QED BY <1>2, <1>3, <3>1
  <2> QED BY <2>1 DEF HoldSound
<1>8. old \in Seq(Threads) /\ Len(old) \in Nat /\ w \notin Listed(n)
  BY <1>5, SemType, PartsOf DEF IndInv, SchedInv, FlowInv, ListOf
<1>9. /\ Len(Append(old, w)) = Len(old) + 1 /\ Append(old, w)[Len(old) + 1] = w
      /\ \A i \in 1 .. Len(old) : Append(old, w)[i] = old[i]
  BY <1>8, AppendProperties
<1>10. Listed(n)' = Listed(n) \cup {w}
  <2>1. Listed(n)' = {Append(old, w)[i] : i \in 1 .. Len(old) + 1}
    BY <1>3, <1>9 DEF Listed
  <2>2. \A i \in 1 .. Len(old) + 1 : i \in 1 .. Len(old) \/ i = Len(old) + 1
    BY <1>8
  <2>3. 1 .. Len(old) \subseteq 1 .. Len(old) + 1 /\ Len(old) + 1 \in 1 .. Len(old) + 1
    BY <1>8
  <2> QED BY <1>9, <2>1, <2>2, <2>3 DEF Listed
<1>11. ListOf(n)'
  <2>1. \A i, j \in 1 .. Len(sems'[n].waiting) : sems'[n].waiting[i] = sems'[n].waiting[j] => i = j
    <3>1. \A i \in 1 .. Len(old) : old[i] # w
      BY <1>8 DEF Listed
    <3>2. \A i \in 1 .. Len(old) + 1 : i \in 1 .. Len(old) \/ i = Len(old) + 1
      BY <1>8
    <3>3. \A i, j \in 1 .. Len(old) : old[i] = old[j] => i = j
      BY PartsOf DEF ListOf
    <3>4. ASSUME NEW i \in 1 .. Len(old) + 1, NEW j \in 1 .. Len(old) + 1, Append(old, w)[i] = Append(old, w)[j]
          PROVE  i = j
      BY <1>9, <3>1, <3>2, <3>3, <3>4
    <3> QED BY <1>3, <1>9, <3>4
  <2>2. \A t \in Threads : t \in Listed(n)' <=> InWait(t, n)' /\ state'[t] = "BLOCKED"
    BY <1>2, <1>5, <1>10, PartsOf DEF ListOf
  <2> QED BY <1>1, <1>3, <2>1, <2>2, PartsOf DEF ListOf
<1>12. Woken(n)' = Woken(n) /\ Holders(n)' = Holders(n)
  BY <1>1, <1>5, <1>8, <1>10 DEF Woken, Holders
<1>13. UnitsOf(n)'
  BY <1>3, <1>12, PartsOf DEF UnitsOf
<1>14. \A t \in Threads, s \in Sems : s # n => (InWait(t, s)' <=> InWait(t, s))
  BY <1>5
<1>15. \A t \in Threads, s \in Sems : InWait(t, s) => state'[t] = state[t]
  BY <1>2, <1>5
<1> QED BY <1>1, <1>2, <1>6, <1>7, <1>11, <1>13, <1>14, <1>15, OtherSems DEF IndInv

(* sem_wait returns to a thread that sem_post has woken. *)
LEMMA WaitReturnSem == IndInv /\ wait_return => SemInv'
<1> SUFFICES ASSUME IndInv, wait_return PROVE SemInv'
  OBVIOUS
<1>0. /\ exec.at = "waited" /\ exec.arg \in Sems /\ exec.who = current /\ exec.who \in Threads
      /\ UNCHANGED <<count, current, state, ctx, sems, nsem>>
      /\ inside \in [Threads -> SUBSET Sems]
      /\ exec.who # 0 => state[exec.who] = "READY"
  BY DEF wait_return, Running, IndInv, SchedInv, FlowInv, FlowSound, ReadySound, TypeOK, Flow, ArgSound, Waits
<1>n. PICK n \in Sems : n = exec.arg
  BY <1>0
<1>w. PICK w \in Threads : w = exec.who
  BY <1>0
<1>1. inside'[w] = inside[w] \cup {n} /\ \A t \in Threads : t # w => inside'[t] = inside[t]
  BY <1>0, <1>n, <1>w DEF wait_return
<1>2. exec'.at = "user" /\ exec'.who = exec.who /\ ~Waits(exec') /\ Waits(exec)
  BY <1>0 DEF wait_return, User, Waits
<1>3. /\ \A t \in Threads, s \in Sems : t # w => (InWait(t, s)' <=> InWait(t, s))
      /\ \A s \in Sems : ~InWait(w, s)'
      /\ \A s \in Sems : InWait(w, s) <=> s = n
  BY <1>0, <1>n, <1>w, <1>2, StayWait
<1>4. w # 0 /\ sems[n].live /\ n \notin inside[w] /\ w < count
  BY <1>3, PartsOf DEF WaitSound
<1>5. w \notin Listed(n)
  BY <1>0, <1>w, <1>4, PartsOf DEF ListOf
<1>6. WaitSound'
  <2>1. ASSUME NEW t \in Threads, NEW s \in Sems, InWait(t, s)'
        PROVE  t # 0 /\ t < count' /\ sems'[s].live /\ s \notin inside'[t]
    <3>1. InWait(t, s) /\ t # w
      BY <1>3, <2>1
    <3> QED BY <1>0, <1>1, <3>1, PartsOf DEF WaitSound
  <2> QED BY <1>0, <1>2, <2>1, PartsOf DEF WaitSound
<1>7. HoldSound'
  <2>1. ASSUME NEW t \in Threads, NEW s \in inside'[t] PROVE sems'[s].live
    <3>1. s \in inside[t] \/ s = n
      BY <1>1
    <3> QED BY <1>0, <1>4, <3>1, PartsOf DEF HoldSound
  <2> QED BY <2>1 DEF HoldSound
<1>8. Listed(n)' = Listed(n)
  BY <1>0 DEF Listed
<1>9. ListOf(n)'
  <2>1. \A t \in Threads : t \in Listed(n)' <=> InWait(t, n)' /\ state'[t] = "BLOCKED"
    BY <1>0, <1>3, <1>5, <1>8, PartsOf DEF ListOf
  <2> QED BY <1>0, <2>1, PartsOf DEF ListOf
<1>10. Woken(n)' = Woken(n) \ {w} /\ w \in Woken(n)
  BY <1>0, <1>3, <1>4, <1>5, <1>8 DEF Woken
<1>11. Holders(n)' = Holders(n) \cup {w} /\ w \notin Holders(n)
  BY <1>1, <1>4 DEF Holders
<1>12. UnitsOf(n)'
  <2>1. Cardinality(Holders(n) \cup {w}) = Cardinality(Holders(n)) + 1
    BY <1>11, PartsOf, FiniteThreads, FS_AddElement
  <2>2. Cardinality(Woken(n) \ {w}) = Cardinality(Woken(n)) - 1
    BY <1>10, PartsOf, FiniteThreads, FS_RemoveElement
  <2> QED BY <1>0, <1>10, <1>11, <2>1, <2>2, PartsOf DEF UnitsOf
<1>13. \A t \in Threads, s \in Sems : s # n => (InWait(t, s)' <=> InWait(t, s))
  BY <1>3
<1>14. \A t \in Threads, s \in Sems : s # n => (s \in inside'[t] <=> s \in inside[t])
  BY <1>1
<1> QED BY <1>0, <1>6, <1>7, <1>9, <1>12, <1>13, <1>14, OtherSems DEF IndInv

(* What both branches of sem_post do with the caller's unit. *)
LEMMA PostGives ==
  ASSUME IndInv, NEW n \in Sems, sem_post(n), NEW w \in Threads, w = exec.who
  PROVE  /\ exec.at = "user" /\ sems[n].live /\ n \in inside[w]
         /\ UNCHANGED <<count, current, ctx, nsem, exec>> /\ (Wake(n) \/ Raise(n))
         /\ sems \in [Sems -> Sem] /\ inside \in [Threads -> SUBSET Sems]
         /\ state \in [Threads -> States]
         /\ inside'[w] = inside[w] \ {n} /\ \A t \in Threads : t # w => inside'[t] = inside[t]
         /\ \A t \in Threads, s \in Sems : InWait(t, s)' <=> InWait(t, s)
         /\ Holders(n)' = Holders(n) \ {w}
         /\ Cardinality(Holders(n) \ {w}) = Cardinality(Holders(n)) - 1
         /\ Cardinality(Holders(n)) > 0
<1>1. /\ exec.at = "user" /\ sems[n].live /\ n \in inside[w]
      /\ UNCHANGED <<count, current, ctx, nsem, exec>> /\ (Wake(n) \/ Raise(n))
      /\ sems \in [Sems -> Sem] /\ inside \in [Threads -> SUBSET Sems]
      /\ state \in [Threads -> States]
  BY DEF sem_post, Running, Wake, Raise, IndInv, SchedInv, FlowInv, TypeOK
<1>2. inside'[w] = inside[w] \ {n} /\ \A t \in Threads : t # w => inside'[t] = inside[t]
  BY <1>1 DEF sem_post
<1>3. \A t \in Threads, s \in Sems : InWait(t, s)' <=> InWait(t, s)
  BY <1>1 DEF InWait
<1>4. Holders(n)' = Holders(n) \ {w} /\ w \in Holders(n)
  BY <1>1, <1>2 DEF Holders
<1>5. Cardinality(Holders(n) \ {w}) = Cardinality(Holders(n)) - 1
  BY <1>4, PartsOf, FiniteThreads, FS_RemoveElement
<1>6. Cardinality(Holders(n)) > 0
  <2>1. Cardinality(Holders(n) \ {w}) \in Nat
    BY FiniteThreads DEF Holders
  <2> QED BY <1>5, <2>1, PartsOf
<1> QED BY <1>1, <1>2, <1>3, <1>4, <1>5, <1>6

(* It leaves what is known of waiting and holding threads alone. *)
LEMMA PostKeeps ==
  ASSUME IndInv, NEW n \in Sems, sem_post(n), NEW w \in Threads, w = exec.who,
         \A s \in Sems : sems'[s].live = sems[s].live
  PROVE  WaitSound' /\ HoldSound'
<1>1. WaitSound'
  <2>1. ASSUME NEW t \in Threads, NEW s \in Sems, InWait(t, s)'
        PROVE  t # 0 /\ t < count' /\ sems'[s].live /\ s \notin inside'[t]
    <3>1. inside'[t] \subseteq inside[t] /\ count' = count /\ InWait(t, s)
      BY <2>1, PostGives
    <3> QED BY <3>1, PartsOf DEF WaitSound
  <2> QED BY <2>1, PostGives, PartsOf DEF WaitSound
<1>2. HoldSound'
  <2>1. ASSUME NEW t \in Threads, NEW s \in inside'[t] PROVE sems'[s].live
    <3>1. s \in inside[t] /\ s \in Sems
      BY PostGives
    <3> QED BY <3>1, PartsOf DEF HoldSound
  <2> QED BY <2>1 DEF HoldSound
<1> QED BY <1>1, <1>2

(* Nobody waits: the unit goes back to the value. *)
LEMMA RaiseSem ==
  ASSUME IndInv, NEW n \in Sems, sem_post(n), Raise(n)
  PROVE  SemInv'
<1>w. PICK w \in Threads : w = exec.who
  BY DEF IndInv, SchedInv, FlowInv, TypeOK, Flow
<1>1. PICK v : v = sems[n].value + 1
  OBVIOUS
<1>2. /\ sems'[n] = [sems[n] EXCEPT !.value = v] /\ sems[n] \in Sem /\ state' = state
      /\ \A s \in Sems : s # n => sems'[s] = sems[s]
  BY <1>w, <1>1, PostGives DEF Raise
<1>3. /\ sems'[n].live = sems[n].live /\ sems'[n].waiting = sems[n].waiting
      /\ sems'[n].init = sems[n].init /\ sems'[n].value = v
  BY <1>2, SemRecords
<1>4. WaitSound' /\ HoldSound'
  <2>1. \A s \in Sems : sems'[s].live = sems[s].live
    BY <1>2, <1>3
  <2> QED BY <1>w, <2>1, PostKeeps
<1>5. Listed(n)' = Listed(n)
  BY <1>3 DEF Listed
<1>6. ListOf(n)'
  <2>1. nsem' = nsem /\ \A t \in Threads : InWait(t, n)' <=> InWait(t, n)
    BY <1>w, PostGives
  <2> QED BY <1>2, <1>3, <1>5, <2>1, PartsOf DEF ListOf
<1>7. Woken(n)' = Woken(n)
  <2>1. count' = count /\ \A t \in Threads : InWait(t, n)' <=> InWait(t, n)
    BY <1>w, PostGives
  <2> QED BY <1>5, <2>1 DEF Woken
<1>8. UnitsOf(n)'
  <2>1. /\ sems[n].live /\ Holders(n)' = Holders(n) \ {w}
        /\ Cardinality(Holders(n) \ {w}) = Cardinality(Holders(n)) - 1
    BY <1>w, PostGives
  <2> QED BY <1>1, <1>3, <1>7, <2>1, PartsOf DEF UnitsOf
<1>9. \A t \in Threads, s \in Sems : s # n => (s \in inside'[t] <=> s \in inside[t])
  <2>1. inside'[w] = inside[w] \ {n} /\ \A t \in Threads : t # w => inside'[t] = inside[t]
    BY <1>w, PostGives
  <2> QED BY <2>1
<1>10. UNCHANGED <<count, nsem>> /\ \A t \in Threads, s \in Sems : InWait(t, s)' <=> InWait(t, s)
  BY <1>w, PostGives
<1> QED BY <1>2, <1>4, <1>6, <1>8, <1>9, <1>10, OtherSems DEF IndInv

(* The thread last in the list leaves it and takes the unit. *)
LEMMA WakeSem ==
  ASSUME IndInv, NEW n \in Sems, sem_post(n), Wake(n)
  PROVE  SemInv'
<1>w. PICK w \in Threads : w = exec.who
  BY DEF IndInv, SchedInv, FlowInv, TypeOK, Flow
<1>q. PICK q \in Seq(Threads) : q = sems[n].waiting
  BY SemType DEF IndInv, SchedInv, FlowInv
<1>k. PICK k \in Nat : k + 1 = Len(q)
  <2>1. Len(q) \in Nat /\ Len(q) > 0
    BY <1>q DEF Wake
  <2>2. Len(q) - 1 \in Nat /\ (Len(q) - 1) + 1 = Len(q)
    BY <2>1
  <2> QED BY <2>2
<1>x. PICK x \in Threads : x = q[k + 1]
  BY <1>q, <1>k
<1>r. PICK r : r = SubSeq(q, 1, k)
  OBVIOUS
<1>1. Len(r) = k /\ \A i \in 1 .. k : r[i] = q[i]
  BY <1>q, <1>k, <1>r, SubSeqProperties
<1>2. /\ sems'[n] = [sems[n] EXCEPT !.waiting = r] /\ sems[n] \in Sem
      /\ \A s \in Sems : s # n => sems'[s] = sems[s]
      /\ state'[x] = "READY" /\ \A t \in Threads : t # x => state'[t] = state[t]
  <2>1. Len(q) - 1 = k
    BY <1>k
  <2>2. sems' = [sems EXCEPT ![n].waiting = r] /\ state' = [state EXCEPT ![x] = "READY"]
    BY <1>q, <1>k, <1>x, <1>r, <2>1 DEF Wake
  <2> QED BY <1>w, <2>2, PostGives
<1>3. /\ sems'[n].live = sems[n].live /\ sems'[n].waiting = r
      /\ sems'[n].init = sems[n].init /\ sems'[n].value = sems[n].value
  BY <1>2, SemRecords
<1>4. WaitSound' /\ HoldSound'
  <2>1. \A s \in Sems : sems'[s].live = sems[s].live
    BY <1>2, <1>3
  <2> QED BY <1>w, <2>1, PostKeeps
<1>5. \A i, j \in 1 .. k + 1 : q[i] = q[j] => i = j
  BY <1>q, <1>k, PartsOf DEF ListOf
<1>6. Listed(n)' = Listed(n) \ {x} /\ x \in Listed(n)
  <2>1. Listed(n)' = {r[i] : i \in 1 .. k} /\ Listed(n) = {q[i] : i \in 1 .. k + 1}
    BY <1>q, <1>k, <1>1, <1>3 DEF Listed
  <2>2. \A i \in 1 .. k + 1 : i \in 1 .. k \/ i = k + 1
    OBVIOUS
  <2>3. k + 1 \in 1 .. k + 1 /\ \A i \in 1 .. k : i \in 1 .. k + 1 /\ i # k + 1
    OBVIOUS
  <2>4. \A i \in 1 .. k : r[i] = q[i] /\ q[i] # x
    BY <1>1, <1>5, <1>x, <2>3
  <2> QED BY <1>x, <2>1, <2>2, <2>3, <2>4
<1>7. \A t \in Threads, s \in Sems : InWait(t, s)' <=> InWait(t, s)
  BY <1>w, PostGives
<1>8. InWait(x, n) /\ x < count
  BY <1>6, PartsOf DEF ListOf, WaitSound
<1>9. UNCHANGED <<count, nsem>>
  BY <1>w, PostGives
<1>10. ListOf(n)'
  <2>1. \A i, j \in 1 .. Len(sems'[n].waiting) : sems'[n].waiting[i] = sems'[n].waiting[j] => i = j
    BY <1>1, <1>3, <1>5
  <2>2. \A t \in Threads : t \in Listed(n)' <=> InWait(t, n)' /\ state'[t] = "BLOCKED"
    BY <1>2, <1>6, <1>7, PartsOf DEF ListOf
  <2>3. sems[n].live
    BY <1>w, PostGives
  <2> QED BY <1>3, <1>9, <2>1, <2>2, <2>3, PartsOf DEF ListOf
<1>11. Woken(n)' = Woken(n) \cup {x} /\ x \notin Woken(n)
  BY <1>6, <1>7, <1>8, <1>9 DEF Woken
<1>12. UnitsOf(n)'
  <2>1. /\ sems[n].live /\ Holders(n)' = Holders(n) \ {w}
        /\ Cardinality(Holders(n) \ {w}) = Cardinality(Holders(n)) - 1
    BY <1>w, PostGives
  <2>2. Cardinality(Woken(n) \cup {x}) = Cardinality(Woken(n)) + 1
    BY <1>11, PartsOf, FiniteThreads, FS_AddElement
  <2> QED BY <1>3, <1>11, <2>1, <2>2, PartsOf DEF UnitsOf
<1>13. \A t \in Threads, s \in Sems : s # n => (s \in inside'[t] <=> s \in inside[t])
  <2>1. inside'[w] = inside[w] \ {n} /\ \A t \in Threads : t # w => inside'[t] = inside[t]
    BY <1>w, PostGives
  <2> QED BY <2>1
<1>14. \A t \in Threads, s \in Sems : s # n /\ InWait(t, s) => state'[t] = state[t]
  <2>1. \A s \in Sems : InWait(x, s) => s = n
    BY <1>8 DEF InWait
  <2> QED BY <1>2, <2>1
<1> QED BY <1>2, <1>4, <1>7, <1>9, <1>10, <1>12, <1>13, <1>14, OtherSems DEF IndInv
-----------------------------------------------------------------------------
LEMMA SemStep ==
  ASSUME 0 \notin Waiters
  PROVE  IndInv /\ [Next]_vars => IndInv'
<1> SUFFICES ASSUME IndInv, [Next]_vars PROVE IndInv'
  OBVIOUS
<1>0. SchedInv'
  BY SchedStep DEF IndInv
<1>1. SemInv'
  <2>1. CASE Switch
    BY <2>1, SwitchSem
  <2>2. CASE pthread_create
    BY <2>2, CreateSem
  <2>3. CASE Others
    <3>1. CASE \E s \in Sems : sem_wait(s)
      <4>1. PICK n \in Sems : sem_wait(n)
        BY <3>1
      <4>2. Pass(n) \/ Block(n)
        BY <4>1 DEF sem_wait, Pass, Block
      <4> QED BY <4>1, <4>2, PassSem, BlockSem
    <3>2. CASE \E s \in Sems : sem_post(s)
      <4>1. PICK n \in Sems : sem_post(n)
        BY <3>2
      <4>2. Raise(n) \/ Wake(n)
        BY <4>1 DEF sem_post, Raise, Wake
      <4> QED BY <4>1, <4>2, RaiseSem, WakeSem
    <3> QED BY <2>3, <3>1, <3>2, IdleSteps, SemInitSem, SemDestroySem, WaitReturnSem DEF Others
  <2>4. CASE UNCHANGED vars
    <3>1. UNCHANGED <<count, current, state, ctx, masked, exec, sems, nsem, inside>>
      BY <2>4 DEF vars
    <3>2. \A t \in Threads, s \in Sems : InWait(t, s)' <=> InWait(t, s)
      BY <3>1 DEF InWait
    <3> QED BY <3>1, <3>2, KeepSem DEF IndInv, SemInv, WaitSound
  <2> QED BY <2>1, <2>2, <2>3, <2>4, NextCases
<1> QED BY <1>0, <1>1 DEF IndInv

(* The semaphores of a program whose main thread does not call sem_wait are
   sound: the inductive invariant behind the three theorems that follow. *)
THEOREM SemaphoresSound ==
  ASSUME 0 \notin Waiters
  PROVE  Spec => []IndInv
<1>1. Init => IndInv
  BY InitFlow, InitArg, InitSem DEF IndInv, SchedInv
<1>2. IndInv /\ [Next]_vars => IndInv'
  BY SemStep
<1> QED BY <1>1, <1>2, PTL DEF Spec

(* sem_wait and sem_post neither create nor lose a unit: the value, the threads
   that have passed and those woken on the way add up to the initial value. *)
THEOREM UnitsConserved ==
  ASSUME 0 \notin Waiters
  PROVE  Spec => []SemaphoreConserved
<1>1. IndInv => SemaphoreConserved
  BY DEF IndInv, SemInv
<1> QED BY <1>1, SemaphoresSound, PTL

(* The semaphores exclude: never more threads past sem_wait than the value
   sem_init was given. *)
THEOREM SemaphoresExclude ==
  ASSUME 0 \notin Waiters
  PROVE  Spec => []MutualExclusion
<1>1. IndInv => MutualExclusion
  <2> SUFFICES ASSUME IndInv, NEW s \in Sems, sems[s].live
               PROVE Cardinality(Holders(s)) <= sems[s].init
    BY DEF MutualExclusion
  <2> QED BY PartsOf DEF UnitsOf
<1> QED BY <1>1, SemaphoresSound, PTL

(* No wake-up is lost and none is spurious: a semaphore's list holds, once
   each, exactly the threads blocked in sem_wait on it. *)
THEOREM ListsExact ==
  ASSUME 0 \notin Waiters
  PROVE  Spec => []WaitersListed
<1>1. IndInv => WaitersListed
  <2> SUFFICES ASSUME IndInv, NEW s \in Sems
               PROVE  /\ Cardinality(Listed(s)) = Len(sems[s].waiting)
                      /\ \A t \in Threads : t < count =>
                           (t \in Listed(s) <=> InWait(t, s) /\ state[t] = "BLOCKED")
    BY DEF WaitersListed
  <2>q. PICK q \in Seq(Threads) : q = sems[s].waiting
    BY SemType DEF IndInv, SchedInv, FlowInv
  <2> DEFINE f == [i \in 1 .. Len(q) |-> q[i]]
  <2>1. Len(q) \in Nat /\ IsFiniteSet(1 .. Len(q)) /\ Cardinality(1 .. Len(q)) = Len(q)
    <3>1. Len(q) \in Nat
      OBVIOUS
    <3> QED BY <3>1, FS_Interval
  <2>2. \A i, j \in 1 .. Len(q) : q[i] = q[j] => i = j
    BY <2>q, PartsOf DEF ListOf
  <2>3. f \in Bijection(1 .. Len(q), Listed(s))
    <3>1. f \in [1 .. Len(q) -> Listed(s)]
      BY <2>q DEF Listed
    <3>2. \A y \in Listed(s) : \E i \in 1 .. Len(q) : f[i] = y
      BY <2>q DEF Listed
    <3>3. \A i, j \in 1 .. Len(q) : f[i] = f[j] => i = j
      BY <2>2
    <3> QED BY <3>1, <3>2, <3>3 DEF Bijection, Injection, Surjection, IsInjective
  <2>4. ExistsBijection(1 .. Len(q), Listed(s))
    BY <2>3 DEF ExistsBijection
  <2>5. Cardinality(Listed(s)) = Len(q)
    BY <2>1, <2>4, FS_Bijection
  <2> QED BY <2>q, <2>5, PartsOf DEF ListOf
<1> QED BY <1>1, SemaphoresSound, PTL
=============================================================================
