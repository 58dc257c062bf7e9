----------------------------- MODULE ThreadTable -----------------------------
(***************************************************************************)
(* The collector's table of threads (libs/gc/pthread_support.c and         *)
(* pthread_start.c): creation, exit, join, detach, cancellation, explicit  *)
(* registration and blocking regions.  Everything here runs under the      *)
(* allocation lock except the calls of the thread library itself.          *)
(*                                                                         *)
(* A pthread id is used again once its thread is over and was joined or    *)
(* detached, while the record of the old thread may still be in the table. *)
(* Records have numbers that stand for their addresses; the fields of a    *)
(* free record mean nothing and are kept at their initial values.          *)
(***************************************************************************)
EXTENDS Integers, Sequences, FiniteSets

CONSTANTS
  Id,          \* pthread ids
  Main,        \* the thread that initialises the collector, never exits
  NoThread,    \* no thread holds the lock
  MaxRecord,   \* bound: records in the table at one time
  MaxDisabled, \* bound: GC_dont_gc
  Ops          \* bound: Ops[i]: what the program does in, or with, thread i

ASSUME ThreadAssumption ==
  /\ Main \in Id
  /\ NoThread \notin Id
  /\ MaxRecord \in Nat \ {0}
  /\ MaxDisabled \in Nat

\* What a thread may do, or, for "reap" and "cancel", what may be done to it.
Operation == {"collect", "create", "detached", "exit", "pthread_exit", "again", "reap", "cancel", "block", "active"}

ASSUME OpsAssumption == Ops \in [Id -> SUBSET Operation]

Record == 1 .. MaxRecord
Flag   == {"FINISHED", "DETACHED", "DISABLED_GC"}

VARIABLES
  os,        \* os[i]: what the thread library and the thread itself are at
  released,  \* the ids whose threads are detached for the thread library
  mine,      \* mine[i]: the record GC_inner_start_routine keeps (0: none)
  call,      \* call[i]: the intercepted call in progress in thread i
  chain,     \* GC_threads: records in the order of the chain, newest first
  rid,       \* rid[r]: the field id of record r
  flags,     \* flags[r]
  blocked,   \* blocked[r]: thread_blocked
  sp,        \* sp[r]: what stop_info.stack_ptr covers
  sect,      \* sect[i]: saved_stack_ptr of the section of GC_call_with_gc_active
  dont_gc,   \* GC_dont_gc
  lock       \* the holder of the allocation lock

table == <<os, released, mine, call, chain, rid, flags, blocked, sp, sect, dont_gc, lock>>

\* "created": started, not registered yet; "again": registered once more by a
\* thread key destructor; "ended": unregistered, still running destructors;
\* "zombie": over, neither joined nor detached.
OsState == {"none", "created", "active", "again", "ended", "zombie"}

\* "base": the end of the stack; "handler", "blocking": saved there and the
\* thread has not run since; "stale": the thread has run since.
Saved == {"base", "handler", "blocking", "stale"}

\* The call in progress: who it is about, the record looked up, and whether
\* the thread library's part is done.
NoCall == [op |-> "none", who |-> NoThread, rec |-> 0, done |-> FALSE]
Call == [op : {"none", "create", "join", "detach"}, who : Id \cup {NoThread},
         rec : 0 .. MaxRecord, done : BOOLEAN]

Known       == {chain[k] : k \in 1 .. Len(chain)}
Alive(i)    == os[i] \notin {"none", "zombie"}
Finished(r) == "FINISHED" \in flags[r]
Registered(i) == os[i] \in {"active", "again"}

\* GC_lookup_thread: the first record of the chain with the id, 0 if none.
GC_lookup_thread(i) ==
  IF \E k \in 1 .. Len(chain) : rid[chain[k]] = i
  THEN chain[CHOOSE k \in 1 .. Len(chain) :
               rid[chain[k]] = i /\ \A j \in 1 .. k - 1 : rid[chain[j]] # i]
  ELSE 0

\* Thread i may call the collector, or is between two calls in a region that
\* GC_do_blocking protects.
Idle(i) == Registered(i) /\ call[i].op = "none" /\ ~blocked[GC_lookup_thread(i)]
Blocking(i) == Registered(i) /\ blocked[GC_lookup_thread(i)]

\* The chain without its record r.
Unlinked(r) ==
  LET k == CHOOSE k \in 1 .. Len(chain) : chain[k] = r
  IN [j \in 1 .. Len(chain) - 1 |-> IF j < k THEN chain[j] ELSE chain[j + 1]]

\* GC_delete_gc_thread: unlink the record r and free it.
GC_delete_gc_thread(r) ==
  /\ chain' = Unlinked(r)
  /\ rid' = [rid EXCEPT ![r] = Main]
  /\ flags' = [flags EXCEPT ![r] = {}]
  /\ sp' = [sp EXCEPT ![r] = "base"]

-----------------------------------------------------------------------------
TableInit ==
  /\ os = [i \in Id |-> IF i = Main THEN "active" ELSE "none"]
  /\ released = {}
  /\ mine = [i \in Id |-> IF i = Main THEN 1 ELSE 0]
  /\ call = [i \in Id |-> NoCall]
  /\ chain = <<1>>
  /\ rid = [r \in Record |-> Main]
  /\ flags = [r \in Record |-> IF r = 1 THEN {"DETACHED"} ELSE {}]
  /\ blocked = [r \in Record |-> FALSE]
  /\ sp = [r \in Record |-> "base"]
  /\ sect = [i \in Id |-> "base"]
  /\ dont_gc = 0
  /\ lock = NoThread

(***************************************************************************)
(* Creation.  pthread_create waits for start_info.registered; the new      *)
(* thread registers itself first.                                          *)
(***************************************************************************)

pthread_create(c, i, det) ==
  /\ Idle(c) /\ lock = NoThread
  /\ os[i] = "none"
  /\ os' = [os EXCEPT ![i] = "created"]
  /\ released' = IF det THEN released \cup {i} ELSE released \ {i}
  /\ call' = [call EXCEPT ![c] = [op |-> "create", who |-> i, rec |-> 0, done |-> FALSE]]
  /\ UNCHANGED <<mine, chain, rid, flags, blocked, sp, sect, dont_gc, lock>>

\* The record that GC_INTERNAL_MALLOC returns.
Fresh == CHOOSE r \in Record : r \notin Known /\ \A q \in 1 .. r - 1 : q \in Known

\* Mutant: a new record is put at the end of its chain.
GC_register_my_thread_inner_Tail(i, fl) ==
  /\ Record # Known
  /\ chain' = Append(chain, Fresh)
  /\ rid' = [rid EXCEPT ![Fresh] = i]
  /\ flags' = [flags EXCEPT ![Fresh] = fl]
  /\ UNCHANGED <<blocked, sp>>

\* GC_new_thread and GC_record_stack_base, the lock held.
GC_register_my_thread_inner(i, fl) ==
  /\ Record # Known
  /\ chain' = <<Fresh>> \o chain
  /\ rid' = [rid EXCEPT ![Fresh] = i]
  /\ flags' = [flags EXCEPT ![Fresh] = fl]
  /\ UNCHANGED <<blocked, sp>>

\* GC_start_rtn_prepare_thread: register, unlock, sem_post(registered).  The
\* lock may be held already, by a collection that the new record caused.
GC_start_rtn_prepare_thread(i) ==
  /\ os[i] = "created" /\ lock \in {NoThread, i}
  /\ GC_register_my_thread_inner(i, IF i \in released THEN {"DETACHED"} ELSE {})
  /\ mine' = [mine EXCEPT ![i] = Fresh]
  /\ os' = [os EXCEPT ![i] = "active"]
  /\ call' = [c \in Id |-> IF call[c].op = "create" /\ call[c].who = i
                             THEN [call[c] EXCEPT !.done = TRUE] ELSE call[c]]
  /\ lock' = NoThread
  /\ UNCHANGED <<released, sect, dont_gc>>

\* sem_wait(registered), then GC_INTERNAL_FREE(si) under the lock.
CreateReturns(c) ==
  /\ call[c].op = "create" /\ call[c].done /\ lock = NoThread
  /\ call' = [call EXCEPT ![c] = NoCall]
  /\ UNCHANGED <<os, released, mine, chain, rid, flags, blocked, sp, sect, dont_gc, lock>>

(***************************************************************************)
(* The end of a thread.                                                    *)
(***************************************************************************)

\* Mutant: the collections are enabled whether or not the thread disabled them.
GC_unregister_my_thread_inner_Enables(r) ==
  /\ dont_gc' = dont_gc - 1
  /\ IF "DETACHED" \in flags[r]
     THEN GC_delete_gc_thread(GC_lookup_thread(rid[r]))
     ELSE /\ flags' = [flags EXCEPT ![r] = @ \cup {"FINISHED"}]
          /\ UNCHANGED <<chain, rid, sp>>

\* GC_delete_thread(pthread_self()) takes the first record with the id.
GC_unregister_my_thread_inner(r) ==
  /\ dont_gc' = IF "DISABLED_GC" \in flags[r] THEN dont_gc - 1 ELSE dont_gc
  /\ IF "DETACHED" \in flags[r]
     THEN GC_delete_gc_thread(GC_lookup_thread(rid[r]))
     ELSE /\ flags' = [flags EXCEPT ![r] = @ \cup {"FINISHED"}]
          /\ UNCHANGED <<chain, rid, sp>>

\* GC_thread_exit_proc, the cleanup handler of GC_inner_start_routine.
GC_thread_exit_proc(i) ==
  /\ i # Main /\ os[i] = "active" /\ Idle(i) /\ sect[i] = "base" /\ lock = NoThread
  /\ GC_unregister_my_thread_inner(mine[i])
  /\ os' = [os EXCEPT ![i] = "ended"]
  /\ mine' = [mine EXCEPT ![i] = 0]
  /\ UNCHANGED <<released, call, blocked, sect, lock>>

\* GC_unregister_my_thread, for a thread that registered itself again.
GC_unregister_my_thread(i) ==
  /\ os[i] = "again" /\ Idle(i) /\ sect[i] = "base" /\ lock = NoThread
  /\ GC_unregister_my_thread_inner(GC_lookup_thread(i))
  /\ os' = [os EXCEPT ![i] = "ended"]
  /\ UNCHANGED <<released, mine, call, blocked, sect, lock>>

\* GC_register_my_thread from the destructor of a thread key.
GC_register_my_thread(i) ==
  /\ os[i] = "ended" /\ lock = NoThread
  /\ os' = [os EXCEPT ![i] = "again"]
  /\ LET r == GC_lookup_thread(i) IN
     \/ /\ r = 0
        /\ GC_register_my_thread_inner(i, {"DETACHED"})
     \/ /\ r # 0
        /\ Finished(r)
        /\ flags' = [flags EXCEPT ![r] = @ \ {"FINISHED"}]
        /\ sp' = [sp EXCEPT ![r] = "base"]
        /\ UNCHANGED <<chain, rid, blocked>>
  /\ UNCHANGED <<released, mine, call, sect, dont_gc, lock>>

\* The thread library: the thread is over.
OsExit(i) ==
  /\ os[i] = "ended"
  /\ os' = [os EXCEPT ![i] = IF i \in released THEN "none" ELSE "zombie"]
  /\ released' = released \ {i}
  /\ UNCHANGED <<mine, call, chain, rid, flags, blocked, sp, sect, dont_gc, lock>>

(***************************************************************************)
(* pthread_join and pthread_detach look the record up, call the thread     *)
(* library without the lock, and come back to a table where the id may     *)
(* belong to another thread.                                               *)
(***************************************************************************)

\* The program joins or detaches a thread once, after its creation.
Reapable(i) ==
  /\ i # Main /\ os[i] \notin {"none", "created"} /\ i \notin released
  /\ \A c \in Id : call[c].who # i

LookUp(c, i, op) ==
  /\ Idle(c) /\ lock = NoThread /\ Reapable(i) /\ (op = "join" => c # i)
  /\ call' = [call EXCEPT ![c] = [op |-> op, who |-> i, rec |-> GC_lookup_thread(i), done |-> FALSE]]
  /\ UNCHANGED <<os, released, mine, chain, rid, flags, blocked, sp, sect, dont_gc, lock>>

\* REAL_FUNC(pthread_join), REAL_FUNC(pthread_detach)
RealCall(c) ==
  /\ call[c].op \in {"join", "detach"} /\ ~call[c].done
  /\ LET i == call[c].who IN
     /\ call[c].op = "join" => os[i] = "zombie"
     /\ os' = [os EXCEPT ![i] = IF @ = "zombie" THEN "none" ELSE @]
     /\ released' = IF call[c].op = "detach" /\ os[i] # "zombie" THEN released \cup {i} ELSE released
  /\ call' = [call EXCEPT ![c].done = TRUE, ![c].who = NoThread]
  /\ UNCHANGED <<mine, chain, rid, flags, blocked, sp, sect, dont_gc, lock>>

\* Mutant: the record is looked up again, by an id that may be recycled.
JoinReturns_ById(c) ==
  /\ call[c].op = "join" /\ call[c].done /\ lock = NoThread
  /\ GC_delete_gc_thread(GC_lookup_thread(rid[call[c].rec]))
  /\ call' = [call EXCEPT ![c] = NoCall]
  /\ UNCHANGED <<os, released, mine, blocked, sect, dont_gc, lock>>

JoinReturns(c) ==
  /\ call[c].op = "join" /\ call[c].done /\ lock = NoThread
  /\ GC_delete_gc_thread(call[c].rec)
  /\ call' = [call EXCEPT ![c] = NoCall]
  /\ UNCHANGED <<os, released, mine, blocked, sect, dont_gc, lock>>

\* Mutant: only the flag is set.
DetachReturns_FlagOnly(c) ==
  /\ call[c].op = "detach" /\ call[c].done /\ lock = NoThread
  /\ flags' = [flags EXCEPT ![call[c].rec] = @ \cup {"DETACHED"}]
  /\ call' = [call EXCEPT ![c] = NoCall]
  /\ UNCHANGED <<chain, rid, sp, os, released, mine, blocked, sect, dont_gc, lock>>

DetachReturns(c) ==
  /\ call[c].op = "detach" /\ call[c].done /\ lock = NoThread
  /\ IF Finished(call[c].rec)
     THEN GC_delete_gc_thread(call[c].rec)
     ELSE /\ flags' = [flags EXCEPT ![call[c].rec] = @ \cup {"DETACHED"}]
          /\ UNCHANGED <<chain, rid, sp>>
  /\ call' = [call EXCEPT ![c] = NoCall]
  /\ UNCHANGED <<os, released, mine, blocked, sect, dont_gc, lock>>

(***************************************************************************)
(* Cancellation and pthread_exit disable the collections until the exit    *)
(* procedure of the thread.                                                *)
(***************************************************************************)

\* What pthread_cancel and pthread_exit do to the record r.
DisableGC(r) ==
  /\ r # 0 /\ "DISABLED_GC" \notin flags[r] /\ dont_gc < MaxDisabled
  /\ flags' = [flags EXCEPT ![r] = @ \cup {"DISABLED_GC"}]
  /\ dont_gc' = dont_gc + 1
  /\ UNCHANGED <<os, released, mine, call, chain, rid, blocked, sp, sect, lock>>

\* pthread_exit in a child; the exit procedure follows.
pthread_exit(i) ==
  /\ i # Main /\ os[i] = "active" /\ Idle(i) /\ sect[i] = "base" /\ lock = NoThread
  /\ DisableGC(GC_lookup_thread(i))

\* pthread_cancel of a thread that is neither joined nor detached.
pthread_cancel(c, i) ==
  /\ Idle(c) /\ lock = NoThread /\ Reapable(i)
  /\ DisableGC(GC_lookup_thread(i))

(***************************************************************************)
(* Regions in which the thread touches no pointer of the heap.             *)
(***************************************************************************)

GC_do_blocking(i) ==
  /\ Idle(i) /\ lock = NoThread /\ sect[i] = "base"
  /\ LET r == GC_lookup_thread(i) IN
     /\ sp' = [sp EXCEPT ![r] = "blocking"]
     /\ blocked' = [blocked EXCEPT ![r] = TRUE]
  /\ UNCHANGED <<os, released, mine, call, chain, rid, flags, sect, dont_gc, lock>>

\* Mutant: thread_blocked is cleared without the lock.
BlockingReturns_Unlocked(i) ==
  /\ Blocking(i)
  /\ blocked' = [blocked EXCEPT ![GC_lookup_thread(i)] = FALSE]
  /\ UNCHANGED <<os, released, mine, call, chain, rid, flags, sp, sect, dont_gc, lock>>

BlockingReturns(i) ==
  /\ Blocking(i) /\ lock = NoThread
  /\ LET r == GC_lookup_thread(i) IN
     /\ blocked' = [blocked EXCEPT ![r] = FALSE]
     /\ sp' = [sp EXCEPT ![r] = "stale"]
  /\ UNCHANGED <<os, released, mine, call, chain, rid, flags, sect, dont_gc, lock>>

\* GC_call_with_gc_active inside a blocking region, one level deep.
GC_call_with_gc_active(i) ==
  /\ Blocking(i) /\ lock = NoThread
  /\ LET r == GC_lookup_thread(i) IN
     /\ blocked' = [blocked EXCEPT ![r] = FALSE]
     /\ sect' = [sect EXCEPT ![i] = sp[r]]
     /\ sp' = [sp EXCEPT ![r] = "stale"]
  /\ UNCHANGED <<os, released, mine, call, chain, rid, flags, dont_gc, lock>>

ActiveReturns(i) ==
  /\ Idle(i) /\ lock = NoThread /\ sect[i] # "base"
  /\ LET r == GC_lookup_thread(i) IN
     /\ blocked' = [blocked EXCEPT ![r] = TRUE]
     /\ sp' = [sp EXCEPT ![r] = sect[i]]
  /\ sect' = [sect EXCEPT ![i] = "base"]
  /\ UNCHANGED <<os, released, mine, call, chain, rid, flags, dont_gc, lock>>

-----------------------------------------------------------------------------
Program(i) ==
  \/ /\ "create" \in Ops[i]
     /\ \E j \in Id, det \in BOOLEAN :
          (det => "detached" \in Ops[j]) /\ pthread_create(i, j, det)
  \/ GC_start_rtn_prepare_thread(i) \/ CreateReturns(i)
  \/ "pthread_exit" \in Ops[i] /\ pthread_exit(i)
  \/ "exit" \in Ops[i] /\ GC_thread_exit_proc(i)
  \/ "again" \in Ops[i] /\ (GC_unregister_my_thread(i) \/ GC_register_my_thread(i))
  \/ \E j \in Id : "reap" \in Ops[j] /\ \E op \in {"join", "detach"} : LookUp(i, j, op)
  \/ RealCall(i) \/ JoinReturns(i) \/ DetachReturns(i)
  \/ \E j \in Id : "cancel" \in Ops[j] /\ pthread_cancel(i, j)
  \/ "block" \in Ops[i] /\ (GC_do_blocking(i) \/ BlockingReturns(i))
  \/ "active" \in Ops[i] /\ (GC_call_with_gc_active(i) \/ ActiveReturns(i))

TableNext == \E i \in Id : Program(i) \/ OsExit(i)

TableSpec == TableInit /\ [][TableNext]_table

-----------------------------------------------------------------------------
(***************************************************************************)
(* Properties.                                                             *)
(***************************************************************************)

TableTypeOK ==
  /\ os \in [Id -> OsState] /\ released \subseteq Id
  /\ mine \in [Id -> 0 .. MaxRecord] /\ call \in [Id -> Call]
  /\ Known \subseteq Record
  /\ \A k, l \in 1 .. Len(chain) : k # l => chain[k] # chain[l]
  /\ rid \in [Record -> Id] /\ flags \in [Record -> SUBSET Flag]
  /\ blocked \in [Record -> BOOLEAN] /\ sp \in [Record -> Saved]
  /\ sect \in [Id -> Saved] /\ dont_gc \in Int /\ lock \in Id \cup {NoThread}

\* All records of an id but the first are of dead threads (the comment on the
\* field next), and a record that is not finished has a thread to signal:
\* pthread_kill never finds ESRCH.
FirstIsLive ==
  \A r \in Known : ~Finished(r) =>
    GC_lookup_thread(rid[r]) = r /\ Registered(rid[r])

\* Every registered thread finds its own record, with which it started, also
\* when its id was used before.
OwnRecord ==
  \A i \in Id : /\ os[i] = "active" => GC_lookup_thread(i) = mine[i]
                /\ Registered(i) => GC_lookup_thread(i) # 0 /\ ~Finished(GC_lookup_thread(i))

\* A record outlives its thread only until somebody has joined or detached it.
NoRecordLeak ==
  \A r \in Known : Finished(r) =>
    \/ GC_lookup_thread(rid[r]) = r /\ os[rid[r]] \in {"ended", "zombie"} /\ rid[r] \notin released
    \/ \E c \in Id : call[c].op \in {"join", "detach"} /\ call[c].rec = r

\* Collections stay disabled until every thread that was cancelled or called
\* pthread_exit has run its exit procedure (the comment on pthread_cancel).
DisabledUntilExit ==
  (\E r \in Known : "DISABLED_GC" \in flags[r] /\ ~Finished(r)) => dont_gc > 0

-----------------------------------------------------------------------------
(***************************************************************************)
(* The inductive invariant of the proofs.  It holds when no id belongs to  *)
(* threads that are joined or detached and to one that registers itself    *)
(* again: that one may revive the record of the other (NoRevival).         *)
(***************************************************************************)

NoRevival == \A i \in Id : "again" \in Ops[i] => "reap" \notin Ops[i]

\* Call c of join or detach owns a record.
Claims(c) == call[c].op \in {"join", "detach"}

ChainOK == chain \in Seq(Record)

\* The thread library has the thread i, registered at least once.
Present(i) == os[i] \in {"active", "again", "ended", "zombie"}

ReleasedOK ==
  /\ os[Main] = "active" /\ Main \notin released
  /\ \A i \in Id : os[i] \in {"none", "zombie"} => i \notin released

\* Before the call of the thread library, the record is that of a thread
\* that nobody else joins or detaches; after it the thread is over, or will
\* free the record when it exits.
ClaimsOK ==
  /\ \A c \in Id : Claims(c) =>
       /\ call[c].rec \in Known
       /\ ~call[c].done =>
            /\ call[c].who \in Id \ (released \cup {Main})
            /\ Present(call[c].who) /\ "reap" \in Ops[call[c].who]
            /\ call[c].rec = GC_lookup_thread(call[c].who)
       /\ call[c].done =>
            /\ rid[call[c].rec] # Main /\ "reap" \in Ops[rid[call[c].rec]]
            /\ \/ Finished(call[c].rec)
               \/ /\ call[c].op = "detach" /\ rid[call[c].rec] \in released
                  /\ "DETACHED" \notin flags[call[c].rec]
  /\ \A c, d \in Id : Claims(c) /\ Claims(d) /\ c # d => call[c].rec # call[d].rec

\* A thread that can still be joined or detached has a record that no call
\* is about to free.
UnclaimedOK ==
  \A i \in Id \ released : Present(i) =>
    /\ GC_lookup_thread(i) # 0
    /\ \A c \in Id : Claims(c) /\ call[c].done => call[c].rec # GC_lookup_thread(i)

\* The flag DETACHED follows the thread library, but for a detach on its way.
DetachedOK ==
  \A r \in Known :
    /\ "DETACHED" \in flags[r] => ~Finished(r) /\ (rid[r] = Main \/ rid[r] \in released)
    /\ "DETACHED" \notin flags[r] /\ ~Finished(r) /\ rid[r] \in released =>
         \E c \in Id : Claims(c) /\ call[c].done /\ call[c].rec = r

TableInv ==
  /\ TableTypeOK /\ ChainOK /\ ReleasedOK
  /\ FirstIsLive /\ OwnRecord /\ NoRecordLeak
  /\ ClaimsOK /\ UnclaimedOK /\ DetachedOK

\* GC_dont_gc counts at least the running threads that disabled collections,
\* provided that none of them registers itself again, which would count it
\* twice at its second exit (NoRecount).
NoRecount ==
  \A i \in Id : "again" \in Ops[i] => Ops[i] \cap {"cancel", "pthread_exit"} = {}

Disabling == {r \in Known : "DISABLED_GC" \in flags[r] /\ ~Finished(r)}

DisabledInv ==
  /\ dont_gc >= Cardinality(Disabling)
  /\ \A r \in Known : "DISABLED_GC" \in flags[r] =>
       Ops[rid[r]] \cap {"cancel", "pthread_exit"} # {}
=============================================================================
