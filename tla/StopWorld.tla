----------------------------- MODULE StopWorld -----------------------------
(***************************************************************************)
(* Stopping and restarting the world with signals                          *)
(* (libs/gc/pthread_stop_world.c, Linux threads, no PARALLEL_MARK), over   *)
(* the table of threads.                                                   *)
(*                                                                         *)
(* Signals do not queue: a thread has at most one pending SIG_SUSPEND and  *)
(* one pending SIG_THR_RESTART.  Both are blocked while the suspend        *)
(* handler runs; only its sigsuspend admits SIG_THR_RESTART.  A signal     *)
(* that is pending when the handler returns is delivered at once.          *)
(***************************************************************************)
EXTENDS ThreadTable

CONSTANTS
  RetrySignals,  \* the values GC_retry_signals may have, from the environment
  MaxStops,      \* bound: MaxStops[b]: collections when GC_retry_signals = b
  MaxLost        \* bound: suspend signals that get lost, if GC_retry_signals

ASSUME StopAssumption ==
  /\ RetrySignals \subseteq BOOLEAN
  /\ MaxStops \in [BOOLEAN -> Nat]
  /\ MaxLost \in Nat

VARIABLES
  retry,        \* GC_retry_signals
  stop_count,   \* GC_stop_count
  stopped,      \* GC_world_is_stopped
  sem,          \* GC_suspend_ack_sem
  last,         \* last[r]: stop_info.last_stop_count of record r
  suspend,      \* the threads with a pending SIG_SUSPEND
  restart,      \* the threads with a pending SIG_THR_RESTART
  hpc,          \* hpc[i]: where thread i is in GC_suspend_handler_inner
  my,           \* my[i]: its my_stop_count
  gc,           \* where the collecting thread is
  todo,         \* the records its loop over GC_threads has left
  sent,         \* n_live_threads of GC_suspend_all
  n_live,       \* n_live_threads of GC_stop_world
  lost          \* suspend signals lost so far

signals == <<retry, stop_count, stopped, sem, last, suspend, restart, hpc, my,
             gc, todo, sent, n_live, lost>>
vars == <<table, signals>>

HPC == {"out", "load", "post", "set", "sigsuspend", "load_stopped", "load_count"}
GPC == {"idle", "count", "suspend", "poll", "resend", "wait", "stopped", "restart"}

-----------------------------------------------------------------------------
Init ==
  /\ TableInit
  /\ retry \in RetrySignals
  /\ stop_count = 0 /\ stopped = FALSE /\ sem = 0
  /\ last = [r \in Record |-> 0]
  /\ suspend = {} /\ restart = {}
  /\ hpc = [i \in Id |-> "out"]
  /\ my = [i \in Id |-> 0]
  /\ gc = "idle" /\ todo = {} /\ sent = 0 /\ n_live = 0 /\ lost = 0

(***************************************************************************)
(* The suspend handler, in the thread i.                                   *)
(***************************************************************************)

handler == <<hpc, my, suspend, restart, sem, last, sp>>
HandlerFrame ==
  UNCHANGED <<os, released, mine, call, chain, rid, flags, blocked, sect, dont_gc, lock,
              retry, stop_count, stopped, gc, todo, sent, n_live, lost>>

Deliver(i) ==
  /\ hpc[i] = "out" /\ i \in suspend /\ Alive(i)
  /\ hpc' = [hpc EXCEPT ![i] = "load"]
  /\ suspend' = suspend \ {i}
  /\ UNCHANGED <<my, restart, sem, last, sp>>
  /\ HandlerFrame

\* Return from the handler, into the next one if SIG_SUSPEND is pending.
HandlerReturns(i) ==
  /\ my' = [my EXCEPT ![i] = 0]
  /\ hpc' = [hpc EXCEPT ![i] = IF i \in suspend THEN "load" ELSE "out"]
  /\ suspend' = suspend \ {i}
  /\ sp' = [sp EXCEPT ![GC_lookup_thread(i)] = IF @ = "handler" THEN "stale" ELSE @]

\* Mutant: a duplicate signal is not recognised.
LoadCount_NoDuplicate(i) ==
  /\ hpc[i] = "load"
  /\ my' = [my EXCEPT ![i] = stop_count]
  /\ hpc' = [hpc EXCEPT ![i] = "post"]
  /\ sp' = [sp EXCEPT ![GC_lookup_thread(i)] = "handler"]
  /\ UNCHANGED <<suspend, restart, sem, last>>
  /\ HandlerFrame

\* my_stop_count = GC_stop_count; a duplicate signal returns.
LoadCount(i) ==
  /\ hpc[i] = "load"
  /\ IF last[GC_lookup_thread(i)] = stop_count
     THEN HandlerReturns(i)
     ELSE /\ my' = [my EXCEPT ![i] = stop_count]
          /\ hpc' = [hpc EXCEPT ![i] = "post"]
          /\ sp' = [sp EXCEPT ![GC_lookup_thread(i)] = "handler"]
          /\ UNCHANGED suspend
  /\ UNCHANGED <<restart, sem, last>>
  /\ HandlerFrame

PostAck(i) ==
  /\ hpc[i] = "post"
  /\ sem' = sem + 1
  /\ hpc' = [hpc EXCEPT ![i] = "set"]
  /\ UNCHANGED <<my, suspend, restart, last, sp>>
  /\ HandlerFrame

SetCount(i) ==
  /\ hpc[i] = "set"
  /\ last' = [last EXCEPT ![GC_lookup_thread(i)] = my[i]]
  /\ hpc' = [hpc EXCEPT ![i] = "sigsuspend"]
  /\ UNCHANGED <<my, suspend, restart, sem, sp>>
  /\ HandlerFrame

\* sigsuspend returns for SIG_THR_RESTART.
Restarted(i) ==
  /\ hpc[i] = "sigsuspend" /\ i \in restart
  /\ restart' = restart \ {i}
  /\ hpc' = [hpc EXCEPT ![i] = "load_stopped"]
  /\ UNCHANGED <<my, suspend, sem, last, sp>>
  /\ HandlerFrame

\* sigsuspend returns for one of the signals of GC_remove_allowed_signals.
Interrupted(i) ==
  /\ hpc[i] = "sigsuspend"
  /\ hpc' = [hpc EXCEPT ![i] = "load_stopped"]
  /\ UNCHANGED <<my, suspend, restart, sem, last, sp>>
  /\ HandlerFrame

\* while (GC_world_is_stopped && GC_stop_count == my_stop_count): two loads.
LoadStopped(i) ==
  /\ hpc[i] = "load_stopped"
  /\ IF stopped
     THEN /\ hpc' = [hpc EXCEPT ![i] = "load_count"]
          /\ UNCHANGED <<my, suspend, sp>>
     ELSE HandlerReturns(i)
  /\ UNCHANGED <<restart, sem, last>>
  /\ HandlerFrame

LoadAgain(i) ==
  /\ hpc[i] = "load_count"
  /\ IF stop_count = my[i]
     THEN /\ hpc' = [hpc EXCEPT ![i] = "sigsuspend"]
          /\ UNCHANGED <<my, suspend, sp>>
     ELSE HandlerReturns(i)
  /\ UNCHANGED <<restart, sem, last>>
  /\ HandlerFrame

\* GC_restart_handler does nothing; outside the suspend handler the signal is
\* used up.
RestartIgnored(i) ==
  /\ hpc[i] = "out" /\ i \in restart
  /\ restart' = restart \ {i}
  /\ UNCHANGED <<hpc, my, suspend, sem, last, sp>>
  /\ HandlerFrame

Handler(i) ==
  \/ Deliver(i) \/ LoadCount(i) \/ PostAck(i) \/ SetCount(i)
  \/ Restarted(i) \/ LoadStopped(i) \/ LoadAgain(i) \/ RestartIgnored(i)

LoseSignal(i) ==
  /\ retry /\ lost < MaxLost
  /\ hpc[i] = "out" /\ i \in suspend
  /\ suspend' = suspend \ {i}
  /\ lost' = lost + 1
  /\ UNCHANGED <<table, retry, stop_count, stopped, sem, last, restart, hpc, my,
                 gc, todo, sent, n_live>>

(***************************************************************************)
(* The collecting thread, which holds the lock from Collect to the end of  *)
(* GC_start_world.  The order of the table is left open: todo is a set.    *)
(***************************************************************************)

CollectorFrame ==
  UNCHANGED <<os, released, mine, call, chain, rid, flags, blocked, sp, sect, dont_gc,
              retry, last, hpc, my, lost>>

\* GC_try_to_collect_inner from an allocation of thread c, also from the one
\* in GC_new_thread for a thread that is not registered yet.
Collect(c) ==
  /\ "collect" \in Ops[c]
  /\ hpc[c] = "out" /\ lock = NoThread
  /\ os[c] = "created" \/ Idle(c)
  /\ dont_gc = 0
  /\ stop_count < MaxStops[retry]
  /\ lock' = c
  /\ stop_count' = stop_count + 1
  /\ gc' = "count"
  /\ UNCHANGED <<stopped, sem, suspend, restart, todo, sent, n_live>>
  /\ CollectorFrame

SetStopped ==
  /\ gc = "count"
  /\ stopped' = TRUE
  /\ gc' = "suspend" /\ todo' = Known /\ sent' = 0
  /\ UNCHANGED <<lock, stop_count, sem, suspend, restart, n_live>>
  /\ CollectorFrame

\* The records GC_suspend_all passes over.
Skip(r) ==
  rid[r] = lock \/ Finished(r) \/ blocked[r] \/ last[r] = stop_count

\* One round of the loop of GC_suspend_all.  ESRCH undoes the count.
SuspendOne ==
  /\ gc \in {"suspend", "resend"}
  /\ \E r \in todo :
       /\ todo' = todo \ {r}
       /\ IF Skip(r) \/ ~Alive(rid[r])
          THEN UNCHANGED <<suspend, sent>>
          ELSE /\ suspend' = suspend \cup {rid[r]}
               /\ sent' = sent + 1
  /\ UNCHANGED <<lock, stop_count, stopped, gc, sem, restart, n_live>>
  /\ CollectorFrame

AllSent ==
  /\ gc = "suspend" /\ todo = {}
  /\ n_live' = sent /\ sent' = 0
  /\ gc' = IF retry THEN "poll" ELSE "wait"
  /\ UNCHANGED <<lock, stop_count, stopped, sem, suspend, restart, todo>>
  /\ CollectorFrame

AllAcked ==
  /\ gc = "poll" /\ sem = n_live
  /\ gc' = "wait"
  /\ UNCHANGED <<lock, stop_count, stopped, sem, suspend, restart, todo, sent, n_live>>
  /\ CollectorFrame

\* Mutant: the loop polls on without signalling again.
Timeout_Polls == gc = "poll" /\ sem # n_live /\ UNCHANGED vars

\* RETRY_INTERVAL is over: GC_suspend_all once more.
Timeout ==
  /\ gc = "poll" /\ sem # n_live
  /\ gc' = "resend" /\ todo' = Known /\ sent' = 0
  /\ UNCHANGED <<lock, stop_count, stopped, sem, suspend, restart, n_live>>
  /\ CollectorFrame

\* "Lost some threads" if fewer were signalled than acknowledgements miss.
Resent ==
  /\ gc = "resend" /\ todo = {}
  /\ n_live' = IF sent < n_live - sem THEN sem + sent ELSE n_live
  /\ gc' = "poll" /\ sent' = 0
  /\ UNCHANGED <<lock, stop_count, stopped, sem, suspend, restart, todo>>
  /\ CollectorFrame

\* The sem_wait loop; n_live counts down.
SemWait ==
  /\ gc = "wait" /\ n_live > 0 /\ sem > 0
  /\ sem' = sem - 1
  /\ n_live' = n_live - 1
  /\ UNCHANGED <<lock, stop_count, stopped, gc, suspend, restart, todo, sent>>
  /\ CollectorFrame

\* Mutant: the last acknowledgement is not waited for.
WorldStopped_Early ==
  /\ gc = "wait" /\ n_live <= 1
  /\ gc' = "stopped"
  /\ UNCHANGED <<lock, stop_count, stopped, sem, suspend, restart, todo, sent, n_live>>
  /\ CollectorFrame

WorldStopped ==
  /\ gc = "wait" /\ n_live = 0
  /\ gc' = "stopped"
  /\ UNCHANGED <<lock, stop_count, stopped, sem, suspend, restart, todo, sent, n_live>>
  /\ CollectorFrame

\* Mutant: GC_world_is_stopped stays set.
GC_start_world_Set ==
  /\ gc = "stopped"
  /\ gc' = "restart" /\ todo' = Known
  /\ UNCHANGED <<stopped, lock, stop_count, sem, suspend, restart, sent, n_live>>
  /\ CollectorFrame

GC_start_world ==
  /\ gc = "stopped"
  /\ stopped' = FALSE
  /\ gc' = "restart" /\ todo' = Known
  /\ UNCHANGED <<lock, stop_count, sem, suspend, restart, sent, n_live>>
  /\ CollectorFrame

RestartOne ==
  /\ gc = "restart"
  /\ \E r \in todo :
       /\ todo' = todo \ {r}
       /\ restart' = IF rid[r] = lock \/ Finished(r) \/ blocked[r] \/ ~Alive(rid[r])
                     THEN restart ELSE restart \cup {rid[r]}
  /\ UNCHANGED <<lock, stop_count, stopped, gc, sem, suspend, sent, n_live>>
  /\ CollectorFrame

\* The end of the collection.  A thread that collected in GC_new_thread goes
\* on to register itself under the same lock.
CollectionEnds ==
  /\ gc = "restart" /\ todo = {}
  /\ gc' = "idle"
  /\ lock' = IF os[lock] = "created" THEN lock ELSE NoThread
  /\ UNCHANGED <<stop_count, stopped, sem, suspend, restart, todo, sent, n_live>>
  /\ CollectorFrame

CollectorStep ==
  \/ SetStopped \/ SuspendOne \/ AllSent \/ AllAcked \/ Timeout \/ Resent
  \/ SemWait \/ WorldStopped \/ GC_start_world \/ RestartOne \/ CollectionEnds

(***************************************************************************)
(* The program, in the threads that are not in the handler.  A record that *)
(* is freed comes back from GC_INTERNAL_MALLOC with its fields zero.       *)
(***************************************************************************)

Mutator(i) ==
  /\ hpc[i] = "out" /\ (lock = i => gc = "idle")
  /\ Program(i)
  /\ last' = [r \in Record |-> IF r \in Known' THEN last[r] ELSE 0]
  /\ UNCHANGED <<retry, stop_count, stopped, sem, suspend, restart, hpc, my,
                 gc, todo, sent, n_live, lost>>

\* The pending signals of a thread go with it.
Exit(i) ==
  /\ hpc[i] = "out"
  /\ OsExit(i)
  /\ suspend' = suspend \ {i} /\ restart' = restart \ {i}
  /\ UNCHANGED <<retry, stop_count, stopped, sem, last, hpc, my, gc, todo, sent, n_live, lost>>

Next ==
  \/ \E i \in Id : \/ Mutator(i) \/ Exit(i) \/ Collect(i)
                     \/ Handler(i) \/ Interrupted(i) \/ LoseSignal(i)
  \/ CollectorStep

Spec == Init /\ [][Next]_vars

\* The operating system runs every thread that can run and delivers its
\* signals; the program, loss and interruption have no fairness.
Fairness ==
  /\ \A i \in Id : WF_vars(Handler(i))
  /\ WF_vars(CollectorStep)

FairSpec == Spec /\ Fairness

-----------------------------------------------------------------------------
(***************************************************************************)
(* Properties.                                                             *)
(***************************************************************************)

TypeOK ==
  /\ TableTypeOK
  /\ retry \in BOOLEAN /\ stop_count \in Nat /\ stopped \in BOOLEAN
  /\ sem \in Nat /\ last \in [Record -> Nat] /\ my \in [Id -> Nat]
  /\ suspend \subseteq Id /\ restart \subseteq Id
  /\ hpc \in [Id -> HPC] /\ gc \in GPC /\ todo \subseteq Known
  /\ {sent, n_live} \subseteq Nat /\ lost \in Nat

\* The threads that may touch the heap.
Running ==
  {i \in Id : hpc[i] = "out" /\ (lock = i \/ (Registered(i) /\ ~blocked[GC_lookup_thread(i)]))}

W == INSTANCE World WITH
       running <- Running,
       collector <- IF gc = "stopped" THEN lock ELSE NoThread

\* While one thread collects no other runs, and none starts to run: the
\* signals, the counts and the table together implement World.
StopsTheWorld == W!Spec

\* When the stacks are pushed (GC_push_all_stacks), every stack_ptr covers
\* what its thread has on the stack at that moment.
StacksCovered ==
  gc = "stopped" =>
    \A r \in Known : rid[r] # lock /\ ~Finished(r) =>
      sp[r] = "blocking" \/ (sp[r] = "handler" /\ ~blocked[r])

\* No acknowledgement is left over for the next collection to count.
NoStaleAck == gc = "idle" => sem = 0

\* Every collection gets to stop the world.
Stops == gc = "count" ~> gc = "stopped"

\* Every thread that was suspended runs again.
Resumes == \A i \in Id : hpc[i] # "out" ~> hpc[i] = "out"

-----------------------------------------------------------------------------
(***************************************************************************)
(* The inductive invariant of the proofs, for GC_retry_signals = FALSE,    *)
(* the default: with it an acknowledgement may be counted twice, and TLC   *)
(* finds StacksCovered violated.                                           *)
(***************************************************************************)

\* Thread i has acknowledged a signal and is not back yet.
Acked(i) == hpc[i] \in {"set", "sigsuspend", "load_stopped", "load_count"}

\* The threads whose acknowledgement is still to come.
Owing == {i \in Id : i \in suspend \/ hpc[i] \in {"load", "post"}}

\* The collector has the lock, and is not in the handler itself.
LockOK ==
  /\ gc # "idle" => lock # NoThread
  /\ lock # NoThread => hpc[lock] = "out" /\ lock \notin suspend
  /\ ~retry /\ gc \notin {"poll", "resend"}
  /\ stopped <=> gc \in {"suspend", "wait", "stopped"}

\* A thread is in the handler with a record of its own and outside blocking
\* regions.  A second signal finds it only after a collection that is over.
HandlerOK ==
  \A i \in Id :
    /\ i \in suspend \/ hpc[i] # "out" => Registered(i) /\ ~blocked[GC_lookup_thread(i)]
    /\ hpc[i] = "post" \/ Acked(i) => sp[GC_lookup_thread(i)] = "handler"
    /\ hpc[i] = "post" => my[i] = stop_count
    /\ i \in suspend => hpc[i] = "out" \/ Acked(i)
    /\ Acked(i) => my[i] <= stop_count
    /\ Acked(i) /\ (i \in suspend \/ gc = "count") => my[i] < stop_count

\* Signals, acknowledgements and counters agree.
CountOK ==
  /\ IsFiniteSet(Owing)
  /\ gc = "suspend" => sent = sem + Cardinality(Owing)
  /\ gc = "wait" => n_live = sem + Cardinality(Owing)
  /\ gc \notin {"suspend", "wait"} => Owing = {} /\ sem = 0

\* last_stop_count tells a signal of this collection from one of another.
LastOK ==
  /\ \A r \in Record : last[r] <= stop_count
  /\ gc = "count" => \A r \in Record : last[r] < stop_count
  /\ \A i \in Owing : last[GC_lookup_thread(i)] < stop_count
  /\ gc = "suspend" => \A r \in todo : last[r] < stop_count

\* The threads of the records left to do have not been signalled yet, and the
\* other threads that were running have been.
TodoOK ==
  /\ gc = "idle" => todo = {}
  /\ gc = "suspend" => \A i \in Id : Registered(i) /\ GC_lookup_thread(i) \in todo =>
       i \notin Owing /\ (Acked(i) => my[i] < stop_count)
  /\ gc \in {"suspend", "wait", "stopped"} =>
       \A i \in Id \ {lock} : Registered(i) /\ ~blocked[GC_lookup_thread(i)] =>
         \/ gc = "suspend" /\ GC_lookup_thread(i) \in todo
         \/ i \in Owing
         \/ Acked(i) /\ my[i] = stop_count

\* In a blocking region the pointer saved at its entry is valid.
BlockedOK ==
  /\ \A r \in Record : blocked[r] => r \in Known /\ ~Finished(r) /\ sp[r] = "blocking"
  /\ \A i \in Id : sect[i] \in {"base", "blocking"}

IInv ==
  /\ TableInv /\ TypeOK
  /\ LockOK /\ HandlerOK /\ CountOK /\ LastOK /\ TodoOK /\ BlockedOK
=============================================================================
