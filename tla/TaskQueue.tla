----------------------------- MODULE TaskQueue -----------------------------
(***************************************************************************)
(* What threadpool.h promises a caller, without threads, locks or a ring:  *)
(* a bounded first-in first-out queue of tasks, each of which is handed to *)
(* a worker at most once and finishes at most once.  ThreadPool refines it *)
(* while the pool is used by the rules of its header.                      *)
(***************************************************************************)
EXTENDS Naturals, Sequences

CONSTANTS Task,     \* the calls of threadpool_add
          Capacity  \* queue_max_size

VARIABLES pending,  \* tasks accepted and not yet taken, oldest first
          running,  \* tasks a worker has taken and not finished
          done      \* tasks whose function has returned

tqVars == <<pending, running, done>>

Known == {pending[i] : i \in 1..Len(pending)} \cup running \cup done

TQInit == pending = <<>> /\ running = {} /\ done = {}

Accept(t) ==
  /\ t \notin Known
  /\ Len(pending) < Capacity
  /\ pending' = Append(pending, t)
  /\ UNCHANGED <<running, done>>

Take ==
  /\ pending # <<>>
  /\ pending' = Tail(pending)
  /\ running' = running \cup {Head(pending)}
  /\ done' = done

Finish(t) ==
  /\ t \in running
  /\ running' = running \ {t}
  /\ done' = done \cup {t}
  /\ pending' = pending

TQNext == Take \/ \E t \in Task : Accept(t) \/ Finish(t)

TQSpec == TQInit /\ [][TQNext]_tqVars
=============================================================================
