---------------------------- MODULE EarlyThreads ----------------------------
(***************************************************************************)
(* The threads of EC440_HW2, threads.c: the scheduler and pthread_create   *)
(* of Threads, without semaphores, joining and locks.  pthread_exit here   *)
(* ends the process when no thread is left, and the signal can arrive      *)
(* between the mark it sets and the test it makes.                         *)
(***************************************************************************)
EXTENDS Threads

(* schedule is the same function in both assignments. *)
schedule == schedule_save \/ schedule_next \/ schedule_jump

(* Faulty variant: the saved context is the creator's own. *)
early_create_shared ==
  \/ /\ Running("user") /\ count < MaxThreads
     /\ state' = [state EXCEPT ![count] = "READY"]
     /\ ctx' = [ctx EXCEPT ![count] = Saved(exec, FALSE)]
     /\ Goto("create")
     /\ UNCHANGED <<count, current, masked, sems, nsem, inside>>
  \/ create_return

(* The entry is filled, then thread_count grows and the caller yields. *)
early_create == pthread_create \/ create_return

exit_mark ==
  /\ Running("user") /\ exec.who \in Enders
  /\ state' = [state EXCEPT ![current] = "EXITED"]
  /\ Goto("exiting")
  /\ UNCHANGED <<count, current, ctx, masked, sems, nsem, inside>>

Alive == {t \in Threads : t < count /\ state[t] # "EXITED"}

(* Faulty variants: the loop over the table leaves out the main thread, or
   counts the caller as alive. *)
exit_test_skips_main ==
  /\ Running("exiting")
  /\ IF Alive \subseteq {0} THEN Goto("end") ELSE Yield("dead", 0)
  /\ UNCHANGED <<count, current, state, ctx, masked, sems, nsem, inside>>
exit_test_counts_self ==
  /\ Running("exiting")
  /\ IF Alive \cup {current} = {} THEN Goto("end") ELSE Yield("dead", 0)
  /\ UNCHANGED <<count, current, state, ctx, masked, sems, nsem, inside>>

(* exit(0) when no thread is alive, and schedule(0) otherwise. *)
exit_test ==
  /\ Running("exiting")
  /\ IF Alive = {} THEN Goto("end") ELSE Yield("dead", 0)
  /\ UNCHANGED <<count, current, state, ctx, masked, sems, nsem, inside>>

EarlyLibrary == schedule \/ (Running("create") /\ early_create) \/ exit_test
EarlyNext    == schedule \/ early_create \/ exit_mark \/ exit_test \/ main_return
                \/ (Calm /\ schedule_signal)

(* The flow that executes goes on and the timer keeps going off. *)
EarlySpec == Init /\ [][EarlyNext]_vars /\ WF_vars(EarlyLibrary) /\ WF_vars(Calm /\ schedule_signal)
-----------------------------------------------------------------------------
(* pthread_exit ends the process for the last thread only: the process goes
   while a thread is alive only when main returns. *)
NoEarlyEnd == Running("end") => Alive = {} \/ (exec.who = 0 /\ state[0] # "EXITED")

(* The signal has taken a thread off the processor inside pthread_exit.  Only
   main is resumed from there; the test of another thread is never made. *)
Interrupted == \E t \in Threads : ctx[t].handler /\ ctx[t].flow.at = "exiting"

(* When all threads have exited the process ends, unless the signal arrived
   between the mark and the test of one of them. *)
LastExitEnds == Alive = {} ~> Running("end") \/ Interrupted
=============================================================================
