------------------------------- MODULE Threads -------------------------------
(***************************************************************************)
(* The user-mode threads and semaphores of EC440_HW3, threads.c.           *)
(*                                                                         *)
(* One flow of control executes at a time (exec).  It changes hands in     *)
(* schedule, which is called by the library and, as the handler of         *)
(* SIGALRM, by the timer: schedule saves a context in tcb[current_thread], *)
(* moves current_thread on to a thread that may run, and jumps to its      *)
(* saved context.  setjmp does not save the signal mask: a thread resumed  *)
(* from a call of schedule keeps the mask of whoever jumped to it, one     *)
(* resumed inside the handler returns from it and so unblocks the signal.  *)
(*                                                                         *)
(* Between lock and unlock the signal is blocked, so that such a part of a *)
(* function is one step.  Exit values and the stacks' contents are left    *)
(* out; calls that return an error change nothing and are not steps.       *)
(***************************************************************************)
EXTENDS Integers, Sequences, FiniteSets

CONSTANTS
  MaxThreads,   \* MAX_THREADS
  MaxSems,      \* MAX_SEMAPHORES
  MaxValue,     \* bound on the initial value of a semaphore
  Waiters,      \* the threads of the program that call sem_wait
  Joiners,      \* the threads of the program that call pthread_join
  Enders        \* the threads of the program that call pthread_exit or return

Threads == 0 .. MaxThreads - 1
Sems    == 0 .. MaxSems - 1

ASSUME SizesAssumption ==
  /\ MaxThreads \in Nat \ {0} /\ MaxSems \in Nat /\ MaxValue \in Nat
  /\ Waiters \subseteq Threads /\ Joiners \subseteq Threads /\ Enders \subseteq Threads

VARIABLES
  count,    \* thread_count
  current,  \* current_thread
  state,    \* tcb[].state
  ctx,      \* tcb[].context
  masked,   \* SIGALRM is blocked
  exec,     \* the flow of control that executes
  sems,     \* semaphore_array
  nsem,     \* next_semaphore_id
  inside    \* auxiliary: the semaphores a thread has passed and not posted

vars == <<count, current, state, ctx, masked, exec, sems, nsem, inside>>

(***************************************************************************)
(* A flow of control: the thread on whose stack it runs, where it is, the  *)
(* argument of the call it is in (a thread or a semaphore), and where      *)
(* schedule will return to.  The places:                                   *)
(*   user    outside the library                                           *)
(*   create  in pthread_create, before thread_count++                      *)
(*   sched   in schedule(0), before setjmp                                 *)
(*   loop    in schedule, before current_thread moves on                   *)
(*   picked  in schedule, before the loop's condition                      *)
(*   join    in pthread_join, before lock and the test of the target       *)
(*   waited  in sem_wait, back from schedule                               *)
(*   exiting in pthread_exit of EC440_HW2, before the test for others      *)
(*   dead    in the endless loop of pthread_exit                           *)
(*   end     main has returned and the process is gone                     *)
(***************************************************************************)
Places  == {"user", "create", "sched", "loop", "picked", "join", "waited", "exiting", "dead", "end"}
States  == {"READY", "RUNNING", "EXITED", "BLOCKED"}
Flow    == [who : Threads, at : Places, arg : Nat, then : Places]
User(t) == [who |-> t, at |-> "user", arg |-> 0, then |-> "user"]

(* A saved context, and whether it was saved by the signal handler. *)
Saved(flow, handler) == [set |-> TRUE, flow |-> flow, handler |-> handler]
NoContext            == [set |-> FALSE, flow |-> User(0), handler |-> FALSE]
Context              == [set : BOOLEAN, flow : Flow, handler : BOOLEAN]

NoSem == [live |-> FALSE, init |-> 0, value |-> 0, waiting |-> <<>>]
Sem   == [live : BOOLEAN, init : 0 .. MaxValue, value : Nat, waiting : Seq(Threads)]

Running(place) == exec.at = place
Goto(place)    == exec' = [exec EXCEPT !.at = place]
Yield(back, a) == exec' = [exec EXCEPT !.at = "sched", !.then = back, !.arg = a]

Init ==
  /\ count = 1 /\ current = 0
  /\ state = [t \in Threads |-> IF t = 0 THEN "RUNNING" ELSE "READY"]
  /\ ctx = [t \in Threads |-> NoContext]
  /\ masked = FALSE
  /\ exec = User(0)
  /\ sems = [s \in Sems |-> NoSem] /\ nsem = 0
  /\ inside = [t \in Threads |-> {}]
-----------------------------------------------------------------------------
(* schedule *)

(* setjmp in schedule(0): the flow will go on behind the call. *)
schedule_save ==
  /\ Running("sched")
  /\ ctx' = [ctx EXCEPT ![current] = Saved([exec EXCEPT !.at = exec.then], FALSE)]
  /\ Goto("loop")
  /\ UNCHANGED <<count, current, state, masked, sems, nsem, inside>>

(* The signal: the kernel blocks it and runs schedule on the flow's stack. *)
schedule_signal ==
  /\ ~masked /\ ~Running("end")
  /\ ctx' = [ctx EXCEPT ![current] = Saved(exec, TRUE)]
  /\ masked' = TRUE
  /\ Goto("loop")
  /\ UNCHANGED <<count, current, state, sems, nsem, inside>>

(* Faulty variant: the search starts from the main thread each time. *)
schedule_next_restarts ==
  /\ Running("loop")
  /\ current' = IF current = 0 THEN 1 % count ELSE 0
  /\ Goto("picked")
  /\ UNCHANGED <<count, state, ctx, masked, sems, nsem, inside>>

schedule_next ==
  /\ Running("loop")
  /\ current' = (current + 1) % count
  /\ Goto("picked")
  /\ UNCHANGED <<count, state, ctx, masked, sems, nsem, inside>>

(* Faulty variant: blocked threads are not passed over. *)
schedule_jump_blocked ==
  /\ Running("picked")
  /\ IF state[current] = "EXITED" /\ current # 0
     THEN Goto("loop") /\ UNCHANGED masked
     ELSE /\ ctx[current].set
          /\ exec' = ctx[current].flow
          /\ masked' = (masked /\ ~ctx[current].handler)
  /\ UNCHANGED <<count, current, state, ctx, sems, nsem, inside>>

(* The main thread is taken whatever its state.  A jump to an entry without a
   context has no defined outcome: ContextsOwn rules it out. *)
schedule_jump ==
  /\ Running("picked")
  /\ IF state[current] # "READY" /\ current # 0
     THEN Goto("loop") /\ UNCHANGED masked
     ELSE /\ ctx[current].set
          /\ exec' = ctx[current].flow
          /\ masked' = (masked /\ ~ctx[current].handler)
  /\ UNCHANGED <<count, current, state, ctx, sems, nsem, inside>>
-----------------------------------------------------------------------------
(* pthread_create, pthread_exit, pthread_join *)

(* Faulty variants: the table's size is not tested, or the context is stored
   behind the new thread's entry. *)
pthread_create_unlimited ==
  /\ Running("user")
  /\ state' = [state EXCEPT ![count] = "READY"]
  /\ ctx' = [ctx EXCEPT ![count] = Saved(User(count), FALSE)]
  /\ Goto("create")
  /\ UNCHANGED <<count, current, masked, sems, nsem, inside>>
pthread_create_misplaced ==
  /\ Running("user") /\ count < MaxThreads
  /\ state' = [state EXCEPT ![count] = "READY"]
  /\ ctx' = [ctx EXCEPT ![(count + 1) % MaxThreads] = Saved(User(count), FALSE)]
  /\ Goto("create")
  /\ UNCHANGED <<count, current, masked, sems, nsem, inside>>

pthread_create ==
  /\ Running("user") /\ count < MaxThreads
  /\ state' = [state EXCEPT ![count] = "READY"]
  /\ ctx' = [ctx EXCEPT ![count] = Saved(User(count), FALSE)]
  /\ Goto("create")
  /\ UNCHANGED <<count, current, masked, sems, nsem, inside>>

(* thread_count++, and the new thread is given its chance at once. *)
create_return ==
  /\ Running("create")
  /\ count' = count + 1
  /\ Yield("user", 0)
  /\ UNCHANGED <<current, state, ctx, masked, sems, nsem, inside>>

(* The test that should find the joiners compares a thread's own number.
   A program does not end a thread that has yet to post a semaphore. *)
pthread_exit ==
  LET marked == [state EXCEPT ![current] = "EXITED"] IN
  /\ Running("user") /\ exec.who \in Enders
  /\ inside[exec.who] = {}
  /\ state' = [t \in Threads |->
                 IF t < count /\ marked[t] = "BLOCKED" /\ t = current THEN "READY" ELSE marked[t]]
  /\ masked' = FALSE
  /\ Yield("dead", 0)
  /\ UNCHANGED <<count, current, ctx, sems, nsem, inside>>

(* main returns: exit ends the process. *)
main_return ==
  /\ Running("user") /\ exec.who = 0
  /\ Goto("end")
  /\ UNCHANGED <<count, current, state, ctx, masked, sems, nsem, inside>>

pthread_join(u) ==
  /\ Running("user") /\ exec.who \in Joiners
  /\ u < count /\ u # exec.who
  /\ exec' = [exec EXCEPT !.at = "join", !.arg = u]
  /\ UNCHANGED <<count, current, state, ctx, masked, sems, nsem, inside>>

(* Faulty variant: the caller's own state is tested. *)
join_test_self ==
  /\ Running("join")
  /\ masked' = FALSE
  /\ IF state[current] = "EXITED"
     THEN exec' = User(exec.who) /\ UNCHANGED state
     ELSE /\ state' = [state EXCEPT ![current] = "BLOCKED"]
          /\ Yield("join", exec.arg)
  /\ UNCHANGED <<count, current, ctx, sems, nsem, inside>>

(* One round of pthread_join: lock, test, and unlock to return or to yield. *)
join_test ==
  /\ Running("join")
  /\ masked' = FALSE
  /\ IF state[exec.arg] = "EXITED"
     THEN exec' = User(exec.who) /\ UNCHANGED state
     ELSE /\ state' = [state EXCEPT ![current] = "BLOCKED"]
          /\ Yield("join", exec.arg)
  /\ UNCHANGED <<count, current, ctx, sems, nsem, inside>>
-----------------------------------------------------------------------------
(* Semaphores *)

(* The functions that use no lock are one step here: see the README. *)
sem_init(v) ==
  /\ Running("user") /\ nsem < MaxSems
  /\ sems' = [sems EXCEPT ![nsem] = [live |-> TRUE, init |-> v, value |-> v, waiting |-> <<>>]]
  /\ nsem' = nsem + 1
  /\ UNCHANGED <<count, current, state, ctx, masked, exec, inside>>

(* A thread is in sem_wait on s, blocked or already woken; the waiting list. *)
InWait(t, s) == IF exec.who = t /\ exec.at \notin {"loop", "picked"}
                THEN exec.arg = s /\ (exec.at = "waited" \/ (exec.at = "sched" /\ exec.then = "waited"))
                ELSE ctx[t].set /\ ctx[t].flow.at = "waited" /\ ctx[t].flow.arg = s
Listed(s)    == {sems[s].waiting[i] : i \in 1 .. Len(sems[s].waiting)}

(* A program destroys a semaphore nobody uses. *)
sem_destroy(s) ==
  /\ Running("user") /\ sems[s].live
  /\ sems[s].waiting = <<>>
  /\ \A t \in Threads : s \notin inside[t] /\ ~InWait(t, s)
  /\ sems' = [sems EXCEPT ![s] = NoSem]
  /\ UNCHANGED <<count, current, state, ctx, masked, exec, nsem, inside>>

(* Faulty variant: the thread is blocked and not entered in the list. *)
sem_wait_unlisted(s) ==
  /\ Running("user") /\ exec.who \in Waiters /\ sems[s].live /\ s \notin inside[exec.who]
  /\ \/ /\ sems[s].value > 0
        /\ sems' = [sems EXCEPT ![s].value = sems[s].value - 1]
        /\ inside' = [inside EXCEPT ![exec.who] = inside[exec.who] \cup {s}]
        /\ masked' = FALSE
        /\ UNCHANGED <<state, exec>>
     \/ /\ sems[s].value = 0
        /\ state' = [state EXCEPT ![current] = "BLOCKED"]
        /\ masked' = TRUE
        /\ Yield("waited", s)
        /\ UNCHANGED <<sems, inside>>
  /\ UNCHANGED <<count, current, ctx, nsem>>

sem_wait(s) ==
  /\ Running("user") /\ exec.who \in Waiters /\ sems[s].live /\ s \notin inside[exec.who]
  /\ \/ /\ sems[s].value > 0
        /\ sems' = [sems EXCEPT ![s].value = sems[s].value - 1]
        /\ inside' = [inside EXCEPT ![exec.who] = inside[exec.who] \cup {s}]
        /\ masked' = FALSE
        /\ UNCHANGED <<state, exec>>
     \/ /\ sems[s].value = 0
        /\ sems' = [sems EXCEPT ![s].waiting = Append(sems[s].waiting, current)]
        /\ state' = [state EXCEPT ![current] = "BLOCKED"]
        /\ masked' = TRUE
        /\ Yield("waited", s)
        /\ UNCHANGED inside
  /\ UNCHANGED <<count, current, ctx, nsem>>

(* Back from schedule: unlock and return, without another look at the value. *)
wait_return ==
  /\ Running("waited")
  /\ inside' = [inside EXCEPT ![exec.who] = inside[exec.who] \cup {exec.arg}]
  /\ masked' = FALSE
  /\ exec' = User(exec.who)
  /\ UNCHANGED <<count, current, state, ctx, sems, nsem>>

(* Faulty variants: the thread taken from the list is not made ready, or the
   value grows when a thread is woken as well. *)
sem_post_asleep(s) ==
  LET waiting == sems[s].waiting
      last    == Len(waiting)
  IN
  /\ Running("user") /\ sems[s].live /\ s \in inside[exec.who]
  /\ \/ /\ last > 0
        /\ sems' = [sems EXCEPT ![s].waiting = SubSeq(waiting, 1, last - 1)]
     \/ /\ last = 0
        /\ sems' = [sems EXCEPT ![s].value = sems[s].value + 1]
  /\ inside' = [inside EXCEPT ![exec.who] = inside[exec.who] \ {s}]
  /\ masked' = FALSE
  /\ UNCHANGED <<count, current, state, ctx, exec, nsem>>
sem_post_twice(s) ==
  LET waiting == sems[s].waiting
      last    == Len(waiting)
  IN
  /\ Running("user") /\ sems[s].live /\ s \in inside[exec.who]
  /\ sems' = [sems EXCEPT ![s].value = sems[s].value + 1,
                          ![s].waiting = SubSeq(waiting, 1, last - 1)]
  /\ state' = IF last > 0 THEN [state EXCEPT ![waiting[last]] = "READY"] ELSE state
  /\ inside' = [inside EXCEPT ![exec.who] = inside[exec.who] \ {s}]
  /\ masked' = FALSE
  /\ UNCHANGED <<count, current, ctx, exec, nsem>>

(* The last thread of the list is woken.  A program posts what it has passed. *)
sem_post(s) ==
  LET waiting == sems[s].waiting
      last    == Len(waiting)
  IN
  /\ Running("user") /\ sems[s].live /\ s \in inside[exec.who]
  /\ \/ /\ last > 0
        /\ sems' = [sems EXCEPT ![s].waiting = SubSeq(waiting, 1, last - 1)]
        /\ state' = [state EXCEPT ![waiting[last]] = "READY"]
     \/ /\ last = 0
        /\ sems' = [sems EXCEPT ![s].value = sems[s].value + 1]
        /\ UNCHANGED state
  /\ inside' = [inside EXCEPT ![exec.who] = inside[exec.who] \ {s}]
  /\ masked' = FALSE
  /\ UNCHANGED <<count, current, ctx, exec, nsem>>
-----------------------------------------------------------------------------
(* What the program may do while it runs. *)
Program ==
  \/ pthread_create \/ pthread_exit \/ main_return
  \/ \E u \in Threads : pthread_join(u)
  \/ \E v \in 0 .. MaxValue : sem_init(v)
  \/ \E s \in Sems : sem_destroy(s) \/ sem_wait(s) \/ sem_post(s)

(* The steps of the call the program is in. *)
Library == schedule_save \/ schedule_next \/ schedule_jump \/ create_return \/ join_test \/ wait_return

(* The signal does not arrive while pthread_create fills an entry or while
   schedule, called by the library, looks for a thread. *)
Calm == exec.at \notin {"create", "loop", "picked"}

Next     == Program \/ Library \/ (Calm /\ schedule_signal)

(* The flow that executes goes on; the timer goes off again and again; and a
   time slice is long enough for a thread to get on with a call. *)
Advance(t) == exec.who = t /\ (schedule_save \/ create_return \/ join_test \/ wait_return)
Fairness   == /\ WF_vars(Library) /\ WF_vars(Calm /\ schedule_signal)
              /\ \A t \in Threads : SF_vars(Advance(t))
Spec       == Init /\ [][Next]_vars /\ Fairness

(* A program whose threads do not compute forever: each goes on to post a
   semaphore it has passed or to end. *)
Leaves(t)  == exec.who = t /\ (pthread_exit \/ main_return \/ \E s \in Sems : sem_post(s))
EndingSpec == Spec /\ \A t \in Threads : SF_vars(Leaves(t))

(* The signal may arrive at any moment it is not blocked. *)
AnyTimeSpec == Init /\ [][Program \/ Library \/ schedule_signal]_vars
-----------------------------------------------------------------------------
(* Properties *)

TypeOK ==
  /\ count \in 1 .. MaxThreads /\ current \in Threads
  /\ state \in [Threads -> States]
  /\ ctx \in [Threads -> Context]
  /\ masked \in BOOLEAN
  /\ exec \in Flow
  /\ sems \in [Sems -> Sem] /\ nsem \in 0 .. MaxSems
  /\ inside \in [Threads -> SUBSET Sems]

(* Every thread but the one that runs resumes where it left off: the context
   saved for it is one of its own. *)
ContextsOwn ==
  \A t \in Threads : t < count /\ ~(t = 0 /\ ~ctx[0].set) => ctx[t].set /\ ctx[t].flow.who = t

(* Outside schedule the flow that executes is current_thread's, and unless it
   is the main thread's it is neither blocked nor exited. *)
RunnersReady ==
  /\ exec.at \notin {"loop", "picked"} => exec.who = current
  /\ exec.at \in {"user", "waited"} /\ exec.who # 0 => state[exec.who] = "READY"

Holders(s)   == {t \in Threads : s \in inside[t]}
Woken(s)     == {t \in Threads : t < count /\ InWait(t, s)} \ Listed(s)

(* A thread in a waiting list is in there once, blocked, in sem_wait on that
   semaphore: no wake-up is lost and none goes to a thread that does not wait. *)
WaitersListed ==
  \A s \in Sems : sems[s].live =>
    /\ Cardinality(Listed(s)) = Len(sems[s].waiting)
    /\ \A t \in Threads : t < count =>
         (t \in Listed(s) <=> InWait(t, s) /\ state[t] = "BLOCKED")

(* A unit of a semaphore is in its value, with a thread that has passed it,
   or with a thread that has been woken and has yet to run. *)
SemaphoreConserved ==
  \A s \in Sems : sems[s].live =>
    sems[s].value + Cardinality(Holders(s)) + Cardinality(Woken(s)) = sems[s].init

(* Not more threads have passed a semaphore than its initial value allows. *)
MutualExclusion ==
  \A s \in Sems : sems[s].live => Cardinality(Holders(s)) <= sems[s].init

Joins(t, u) == IF exec.who = t /\ exec.at \notin {"loop", "picked"}
               THEN exec.at = "join" /\ exec.arg = u
               ELSE ctx[t].set /\ ctx[t].flow.at = "join" /\ ctx[t].flow.arg = u

(* The main thread's pthread_join on a thread that has exited returns. *)
JoinReturns ==
  \A u \in Threads :
    Joins(0, u) /\ state[u] = "EXITED" ~> exec.who = 0 /\ Running("user")

(* A thread woken by sem_post returns from sem_wait, unless main ends: having
   exited, main keeps the processor whenever the scheduler comes to it. *)
WokenPass ==
  \A s \in Sems, t \in Threads :
    t \in Woken(s) ~> s \in inside[t] \/ Running("end") \/ state[0] = "EXITED"

(* Round robin is fair as long as the signal gets through: a thread that is
   ready becomes current_thread if SIGALRM is unblocked again and again.  The
   condition is needed: a thread resumed with the signal blocked keeps the
   processor for as long as it does not call the library. *)
ReadyRuns ==
  []<>(~masked) =>
    \A t \in Threads : t < count /\ state[t] = "READY" ~> current = t \/ Running("end")
=============================================================================
