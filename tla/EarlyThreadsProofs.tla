------------------------- MODULE EarlyThreadsProofs -------------------------
(***************************************************************************)
(* Proofs about the threads of EC440_HW2.  The scheduler's invariant is    *)
(* that of EC440_HW3 (FlowInv); what pthread_exit promises needs one more  *)
(* fact, that the main thread does not return once it has exited.          *)
(***************************************************************************)
EXTENDS EarlyThreads, ThreadsProofs

(* The main thread is in its own code or will return to it: it executes, or
   its saved context says where it goes on. *)
Lives(f)  == f.at \in {"user", "create"} \/ (f.at = "sched" /\ f.then = "user")
OnStage   == exec.who = 0 /\ exec.at \notin {"loop", "picked"}
MainLives ==
  /\ OnStage /\ Lives(exec) => state[0] # "EXITED"
  /\ ~OnStage /\ Lives(ctx[0].flow) => state[0] # "EXITED"

EarlyInv == FlowInv /\ MainLives /\ NoEarlyEnd
-----------------------------------------------------------------------------
LEMMA InitEarly == Init => EarlyInv
<1> SUFFICES ASSUME Init PROVE EarlyInv
  OBVIOUS
<1>1. MainLives
  BY ThreadsNat DEF Init, MainLives
<1>2. NoEarlyEnd
  BY DEF Init, NoEarlyEnd, Running, User
<1> QED BY <1>1, <1>2, InitFlow DEF EarlyInv

(* pthread_exit, in two steps *)
LEMMA MarkFlow == FlowInv /\ exit_mark => FlowInv'
<1> SUFFICES ASSUME FlowInv, exit_mark PROVE FlowInv'
  OBVIOUS
<1>1. exec' \in Flow /\ exec'.at = "exiting" /\ exec'.who = exec.who
  BY ExecRecords DEF FlowInv, TypeOK, exit_mark, Places
<1>2. state' \in [Threads -> States]
  BY DEF FlowInv, TypeOK, exit_mark, States
<1>3. TypeOK' /\ UNCHANGED <<count, current, ctx>> /\ exec.at = "user"
  BY <1>1, <1>2 DEF FlowInv, TypeOK, exit_mark, Running
<1>4. ReadySound'
  BY <1>1 DEF ReadySound
<1> QED BY <1>1, <1>3, <1>4, StayFlow

LEMMA TestFlow == FlowInv /\ exit_test => FlowInv'
<1> SUFFICES ASSUME FlowInv, exit_test PROVE FlowInv'
  OBVIOUS
<1>1. Goto("end") \/ Yield("dead", 0)
  BY DEF exit_test
<1>2. /\ exec' \in Flow /\ exec'.who = exec.who
      /\ exec'.at = "end" \/ (exec'.at = "sched" /\ exec'.then = "dead")
  BY <1>1, ExecRecords DEF FlowInv, TypeOK, Places
<1>3. TypeOK' /\ UNCHANGED <<count, current, ctx>> /\ exec.at = "exiting"
  BY <1>2 DEF FlowInv, TypeOK, exit_test, Running
<1>4. ReadySound'
  BY <1>2 DEF ReadySound
<1> QED BY <1>2, <1>3, <1>4, StayFlow DEF Back
-----------------------------------------------------------------------------
(* schedule takes the main thread away from where it is and back there. *)
LEMMA SwitchMain == FlowInv /\ MainLives /\ Switch => MainLives'
<1> SUFFICES ASSUME FlowInv, MainLives, Switch PROVE MainLives'
  OBVIOUS
<1>0. /\ current \in Threads /\ ctx \in [Threads -> Context] /\ exec \in Flow /\ 0 \in Threads
      /\ state' = state
  BY ThreadsNat DEF FlowInv, TypeOK, Switch, schedule_save, schedule_next, schedule_jump, schedule_signal
<1>1. CASE schedule_save
  <2>1. /\ ctx' = [ctx EXCEPT ![current] = Saved([exec EXCEPT !.at = exec.then], FALSE)]
        /\ exec.at = "sched" /\ exec.who = current /\ exec.then \in Back
    BY <1>1 DEF schedule_save, Running, FlowInv, FlowSound
  <2>2. exec'.at = "loop"
    BY <1>0, <1>1 DEF schedule_save, Goto, Flow
  <2>3. ctx'[current].flow.at = exec.then /\ (current # 0 => ctx'[0] = ctx[0])
    BY <1>0, <2>1 DEF Saved, Flow
  <2>4. ~OnStage'
    BY <2>2 DEF OnStage
  <2>5. CASE current = 0
    BY <1>0, <2>1, <2>3, <2>4, <2>5 DEF MainLives, OnStage, Lives, Back
  <2>6. CASE current # 0
    BY <1>0, <2>1, <2>3, <2>4, <2>6 DEF MainLives, OnStage
  <2> QED BY <2>5, <2>6
<1>2. CASE schedule_next
  <2>1. exec.at = "loop" /\ exec'.at = "picked" /\ ctx' = ctx
    BY <1>0, <1>2 DEF schedule_next, Running, Goto, Flow
  <2> QED BY <1>0, <2>1 DEF MainLives, OnStage
<1>3. CASE schedule_jump
  <2>1. exec.at = "picked" /\ ctx' = ctx
    BY <1>3 DEF schedule_jump, Running
  <2>2. CASE state[current] # "READY" /\ current # 0
    <3>1. exec'.at = "loop"
      BY <1>0, <1>3, <2>2 DEF schedule_jump, Goto, Flow
    <3> QED BY <1>0, <2>1, <3>1 DEF MainLives, OnStage
  <2>3. CASE ~(state[current] # "READY" /\ current # 0)
    <3>1. ctx[current].set /\ exec' = ctx[current].flow
      BY <1>3, <2>3 DEF schedule_jump
    <3>2. exec'.who = current
      BY <1>0, <3>1 DEF FlowInv, ContextSound
    <3>3. ~OnStage /\ (current = 0 => exec' = ctx[0].flow)
      BY <2>1, <3>1 DEF OnStage
    <3> QED BY <1>0, <2>1, <3>2, <3>3 DEF MainLives, OnStage
  <2> QED BY <2>2, <2>3
<1>4. CASE Calm /\ schedule_signal
  <2>1. /\ exec.who = current /\ exec.at \notin {"loop", "picked"}
        /\ ctx' = [ctx EXCEPT ![current] = Saved(exec, TRUE)] /\ exec'.at = "loop"
    BY <1>0, <1>4 DEF schedule_signal, Calm, Goto, Flow, FlowInv, FlowSound
  <2>2. (current = 0 => ctx'[0].flow = exec) /\ (current # 0 => ctx'[0] = ctx[0])
    BY <1>0, <2>1 DEF Saved
  <2> QED BY <1>0, <2>1, <2>2 DEF MainLives, OnStage
<1> QED BY <1>1, <1>2, <1>3, <1>4 DEF Switch

LEMMA OthersMain ==
  FlowInv /\ MainLives /\ (early_create \/ exit_mark \/ exit_test \/ main_return) => MainLives'
<1> SUFFICES ASSUME FlowInv, MainLives, early_create \/ exit_mark \/ exit_test \/ main_return
             PROVE  MainLives'
  OBVIOUS
<1>0. /\ count \in Nat \ {0} /\ exec \in Flow /\ current \in Threads /\ 0 \in Threads
      /\ state \in [Threads -> States] /\ ctx \in [Threads -> Context]
      /\ exec.at \notin {"loop", "picked"} => exec.who = current
  BY ThreadsNat DEF FlowInv, FlowSound, TypeOK
<1>1. CASE pthread_create
  <2>1. exec.at = "user" /\ exec'.at = "create" /\ exec'.who = exec.who
    BY <1>0, <1>1, ExecRecords DEF pthread_create, Running, Places
  <2>2. state'[0] = state[0] /\ ctx'[0] = ctx[0]
    BY <1>0, <1>1 DEF pthread_create
  <2> QED BY <2>1, <2>2 DEF MainLives, OnStage, Lives
<1>2. CASE create_return
  <2>1. exec.at = "create" /\ exec'.at = "sched" /\ exec'.then = "user" /\ exec'.who = exec.who
    BY <1>0, <1>2, ExecRecords DEF create_return, Running, Places
  <2>2. UNCHANGED <<state, ctx>>
    BY <1>2 DEF create_return
  <2> QED BY <2>1, <2>2 DEF MainLives, OnStage, Lives
<1>3. CASE exit_mark
  <2>1. exec.at = "user" /\ exec'.at = "exiting" /\ exec'.who = exec.who /\ exec.who = current
    BY <1>0, <1>3, ExecRecords DEF exit_mark, Running, Places
  <2>2. ctx' = ctx /\ (current # 0 => state'[0] = state[0])
    BY <1>0, <1>3 DEF exit_mark
  <2> QED BY <2>1, <2>2 DEF MainLives, OnStage, Lives
<1>4. CASE exit_test
  <2>1. Goto("end") \/ Yield("dead", 0)
    BY <1>4 DEF exit_test
  <2>2. /\ exec.at = "exiting" /\ exec'.who = exec.who
        /\ exec'.at = "end" \/ (exec'.at = "sched" /\ exec'.then = "dead")
    BY <1>0, <1>4, <2>1, ExecRecords DEF exit_test, Running, Places
  <2>3. UNCHANGED <<state, ctx>>
    BY <1>4 DEF exit_test
  <2> QED BY <2>2, <2>3 DEF MainLives, OnStage, Lives
<1>5. CASE main_return
  <2>1. exec.at = "user" /\ exec'.at = "end" /\ exec'.who = exec.who
    BY <1>0, <1>5, ExecRecords DEF main_return, Running, Places
  <2>2. UNCHANGED <<state, ctx>>
    BY <1>5 DEF main_return
  <2> QED BY <2>1, <2>2 DEF MainLives, OnStage, Lives
<1> QED BY <1>1, <1>2, <1>3, <1>4, <1>5 DEF early_create

(* Only pthread_exit's test and main's return end the process. *)
LEMMA EndsRight == EarlyInv /\ EarlyNext => NoEarlyEnd'
<1> SUFFICES ASSUME EarlyInv, EarlyNext, exec'.at = "end"
             PROVE  Alive' = {} \/ (exec'.who = 0 /\ state'[0] # "EXITED")
  BY DEF NoEarlyEnd, Running
<1>0. exec \in Flow /\ current \in Threads /\ ctx \in [Threads -> Context] /\ FlowInv
  BY DEF EarlyInv, FlowInv, TypeOK
<1>1. CASE exit_test
  <2>1. UNCHANGED <<count, state>> /\ (Alive = {} \/ Yield("dead", 0))
    BY <1>1 DEF exit_test
  <2>2. Yield("dead", 0) => exec'.at = "sched"
    BY <1>0, ExecRecords DEF Places
  <2> QED BY <2>1, <2>2 DEF Alive
<1>2. CASE main_return
  <2>1. exec.at = "user" /\ exec.who = 0 /\ exec'.who = exec.who /\ state' = state
    BY <1>0, <1>2, ExecRecords DEF main_return, Running, Places
  <2> QED BY <2>1 DEF EarlyInv, MainLives, OnStage, Lives
<1>3. CASE Switch
  <2>1. schedule_jump => exec'.at = "loop" \/ exec'.at \in Resumed
    BY <1>0 DEF schedule_jump, Goto, Flow, FlowInv, ContextSound
  <2>2. schedule_save \/ schedule_next \/ (Calm /\ schedule_signal) => exec'.at \in {"loop", "picked"}
    BY <1>0 DEF schedule_save, schedule_next, schedule_signal, Goto, Flow
  <2> QED BY <1>3, <2>1, <2>2 DEF Switch, Resumed
<1>4. CASE early_create \/ exit_mark
  <2>1. Goto("create") \/ Yield("user", 0) \/ Goto("exiting")
    BY <1>4 DEF early_create, pthread_create, create_return, exit_mark
  <2> QED BY <1>0, <2>1, ExecRecords DEF Places
<1> QED BY <1>1, <1>2, <1>3, <1>4 DEF EarlyNext, schedule, Switch

LEMMA EarlyStep == EarlyInv /\ [EarlyNext]_vars => EarlyInv'
<1> SUFFICES ASSUME EarlyInv, [EarlyNext]_vars PROVE EarlyInv'
  OBVIOUS
<1>1. CASE EarlyNext
  <2>1. Switch \/ early_create \/ exit_mark \/ exit_test \/ main_return
    BY <1>1 DEF EarlyNext, schedule, Switch
  <2>2. FlowInv'
    BY <2>1, SwitchFlow, CreateFlow, CreateReturnFlow, MarkFlow, TestFlow, EndFlow DEF EarlyInv, early_create
  <2>3. MainLives'
    BY <2>1, SwitchMain, OthersMain DEF EarlyInv
  <2> QED BY <1>1, <2>2, <2>3, EndsRight DEF EarlyInv
<1>2. CASE UNCHANGED vars
  BY <1>2 DEF vars, EarlyInv, FlowInv, TypeOK, FlowSound, ContextSound, ReadySound, MainLives, OnStage,
              NoEarlyEnd, Running, Alive
<1> QED BY <1>1, <1>2

(* The invariant of EC440_HW2 that the next two theorems rest on. *)
THEOREM EarlySound == EarlySpec => []EarlyInv
BY InitEarly, EarlyStep, PTL DEF EarlySpec

(* With its shorter pthread_exit, too, the library resumes every thread with
   its own context and on its own stack. *)
THEOREM EarlyContexts == EarlySpec => []ContextsOwn
<1>1. EarlyInv => ContextsOwn
  BY DEF EarlyInv, FlowInv, ContextSound, ContextsOwn
<1> QED BY <1>1, EarlySound, PTL

(* pthread_exit calls exit(0) only when no thread is left alive: while one is,
   the process ends only by main's return, and not after main has exited. *)
THEOREM ExitsLast == EarlySpec => []NoEarlyEnd
<1>1. EarlyInv => NoEarlyEnd
  BY DEF EarlyInv
<1> QED BY <1>1, EarlySound, PTL
=============================================================================
