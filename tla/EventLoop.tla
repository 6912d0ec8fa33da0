----------------------------- MODULE EventLoop -----------------------------
(***************************************************************************)
(* src/src/event/Loop.cxx with its HAVE_THREADED_EVENT_LOOP parts, as      *)
(* AsioThread runs it: the loop's thread handles timers, deferred events,  *)
(* injected events and sockets, and sleeps in between; other threads       *)
(* inject events, wait for them in BlockingCall(), and stop the loop.      *)
(*                                                                         *)
(* A thread has one InjectEvent of its own and is named by it.  Timers and *)
(* sockets other than the one of WakeFD stand for what may happen at any   *)
(* time.  Finish(), Break() from a callback and io_uring are left out: the *)
(* I/O thread uses none of them to end.                                    *)
(***************************************************************************)
EXTENDS InjectQueue

VARIABLES
  loop,      \* where the loop's thread is
  ready,     \* the poll result has the wake file descriptor in it
  again,     \* EventLoop::again
  busy,      \* EventLoop::busy
  wake,      \* the wake file descriptor is readable
  deferred,  \* where a DeferEvent is: in no list, in defer, in idle
  client,    \* where the other threads are
  done,      \* threads whose BlockingCall() was carried out
  main       \* where the thread is that stops the loop

loopVars == <<loop, ready, again, busy, wake, deferred>>
otherVars == <<client, done, main>>
vars == <<queueVars, loopVars, otherVars>>

(***************************************************************************)
(* "top": about to look at timers; "deferred": in RunDeferred(); "idle":   *)
(* in RunOneIdle(); "inject": in HandleInject(), as long as running says   *)
(* nothing else with the mutex; "wait": in ReadEvents(); "woken": back     *)
(* from it, not busy yet; "sockets": dispatching; "read": OnSocketReady()  *)
(* has emptied the wake file descriptor; "socket": its HandleInject().     *)
(***************************************************************************)
LoopPlaces == {"top", "deferred", "idle", "inject", "wait", "woken",
               "sockets", "read", "socket"}

(* "write": in AddInject(), about to write to the wake file descriptor;    *)
(* "call": the same, in a BlockingCall(); "waiting": in its Wait().        *)
ClientPlaces == {"idle", "write", "call", "waiting"}

(* "write": in InjectBreak(); "joining": in Join().                        *)
MainPlaces == {"run", "write", "joining", "joined"}

TypeOK ==
  /\ QueueTypeOK
  /\ loop \in LoopPlaces
  /\ ready \in BOOLEAN
  /\ again \in BOOLEAN
  /\ busy \in BOOLEAN
  /\ wake \in BOOLEAN
  /\ deferred \in {"no", "defer", "idle"}
  /\ client \in [Events -> ClientPlaces]
  /\ done \in SUBSET Events
  /\ main \in MainPlaces
  /\ running # Nobody => loop \in {"inject", "socket"}

Init ==
  /\ QueueInit
  /\ loop = "top"
  /\ ready = FALSE
  /\ again = FALSE
  /\ busy = TRUE
  /\ wake = FALSE
  /\ deferred = "no"
  /\ client = [c \in Events |-> "idle"]
  /\ done = {}
  /\ main = "run"

-----------------------------------------------------------------------------
(* The other threads. *)

(* Seeded fault: the queue is tested after the event was put into it. *)
MustWake_Late == ~busy /\ inject' = <<>>

(* Another InjectEvent in the queue has woken the loop already. *)
MustWake == ~busy /\ inject = <<>>

(* Seeded fault: the event is put into the queue though it is there.       *)
AddInject_Twice(c, writing, written) ==
  /\ inject' = Append(inject, c)
  /\ again' = TRUE
  /\ client' = [client EXCEPT ![c] = IF MustWake THEN writing ELSE written]
  /\ UNCHANGED <<running, breaking, ended, loop, ready, busy, wake, deferred, main>>

(* The locked part of AddInject(); what is left is to write or not. *)
AddInject(c, writing, written) ==
  /\ inject' = Scheduled(c)
  /\ IF IsPending(c)
     THEN client' = [client EXCEPT ![c] = written] /\ UNCHANGED again
     ELSE /\ again' = TRUE
          /\ client' = [client EXCEPT ![c] = IF MustWake THEN writing ELSE written]
  /\ UNCHANGED <<running, breaking, ended, loop, ready, busy, wake, deferred, main>>

(* The loop is stopped after everything that uses it is gone. *)
InUse == main = "run"

ScheduleInject(c) ==
  /\ InUse
  /\ client[c] = "idle"
  /\ AddInject(c, "write", "idle")
  /\ UNCHANGED done

BlockingCall(c) ==
  /\ InUse
  /\ client[c] = "idle"
  /\ ~IsPending(c)
  /\ running # c
  /\ AddInject(c, "call", "waiting")
  /\ done' = done \ {c}

WriteWake(c) ==
  /\ client[c] \in {"write", "call"}
  /\ wake' = TRUE
  /\ client' = [client EXCEPT ![c] = IF @ = "write" THEN "idle" ELSE "waiting"]
  /\ UNCHANGED <<queueVars, loop, ready, again, busy, deferred, done, main>>

CallReturns(c) ==
  /\ client[c] = "waiting"
  /\ c \in done
  /\ client' = [client EXCEPT ![c] = "idle"]
  /\ UNCHANGED <<queueVars, loopVars, done, main>>

(* RemoveInject(); by anybody, but never of the event of a BlockingCall(). *)
RemoveInject(c) ==
  /\ client[c] \in {"idle", "write"}
  /\ IsPending(c)
  /\ inject' = Cancelled(c)
  /\ UNCHANGED <<running, breaking, ended, loopVars, otherVars>>

(* AsioThread::Stop(): InjectBreak() and Join(). *)
InjectBreak ==
  /\ main = "run"
  /\ \A c \in Events : client[c] = "idle"
  /\ breaking' = TRUE
  /\ main' = "write"
  /\ UNCHANGED <<inject, running, ended, loopVars, client, done>>

WriteBreak ==
  /\ main = "write"
  /\ wake' = TRUE
  /\ main' = "joining"
  /\ UNCHANGED <<queueVars, loop, ready, again, busy, deferred, client, done>>

Join ==
  /\ main = "joining"
  /\ ended
  /\ main' = "joined"
  /\ UNCHANGED <<queueVars, loopVars, client, done>>

-----------------------------------------------------------------------------
(* The loop's thread. *)

Unlocked == <<ready, busy, wake>>

(* Seeded fault: AddDefer() does not ask for another round. *)
DeferAgain_Never == UNCHANGED again

DeferAgain == again' = TRUE

(* What a callback may do on its way: nothing, DeferEvent::Schedule() or   *)
(* ScheduleIdle(), or AddInject() from inside, which finds the loop busy.  *)
CallbackRuns(before) ==
  \/ deferred' = before /\ UNCHANGED <<inject, again>>
  \/ /\ InUse /\ before = "no"
     /\ deferred' \in {"defer", "idle"}
     /\ DeferAgain
     /\ UNCHANGED inject
  \/ /\ InUse
     /\ \E e \in Events :
          ~IsPending(e) /\ client[e] \in {"idle", "write"} /\ inject' = Append(inject, e)
     /\ again' = TRUE
     /\ deferred' = before

LoopAt(place) == ~ended /\ running = Nobody /\ loop = place

(* Timers that are due; one that schedules itself, or has an event         *)
(* deferred or injected, asks for another round.                           *)
HandleTimers ==
  /\ LoopAt("top")
  /\ loop' = "deferred"
  /\ \/ again' \in BOOLEAN /\ UNCHANGED <<inject, deferred>>
     \/ CallbackRuns(deferred) /\ again' = TRUE
  /\ UNCHANGED <<running, breaking, ended, Unlocked, otherVars>>

RunDeferred ==
  /\ LoopAt("deferred")
  /\ IF deferred = "defer"
     THEN CallbackRuns("no") /\ UNCHANGED loop
     ELSE loop' = "idle" /\ UNCHANGED <<inject, again, deferred>>
  /\ UNCHANGED <<running, breaking, ended, Unlocked, otherVars>>

RunOneIdle ==
  /\ LoopAt("idle")
  /\ IF deferred = "idle"
     THEN CallbackRuns("no") /\ loop' = "top"
     ELSE loop' = "inject" /\ UNCHANGED <<inject, again, deferred>>
  /\ UNCHANGED <<running, breaking, ended, Unlocked, otherVars>>

(* HandleInject() takes one event after the other and calls it without the *)
(* mutex.                                                                  *)
PopInject ==
  /\ ~ended
  /\ loop \in {"inject", "socket"}
  /\ TakeFirst
  /\ UNCHANGED <<breaking, ended, loopVars, otherVars>>

InjectReturns ==
  /\ running # Nobody
  /\ running' = Nobody
  /\ CallbackRuns(deferred)
  /\ done' = IF client[running] \in {"call", "waiting"} THEN done \cup {running} ELSE done
  /\ UNCHANGED <<breaking, ended, loop, Unlocked, client, main>>

(* With the mutex still held: another round, or to sleep. *)
GoToSleep ==
  /\ LoopAt("inject")
  /\ inject = <<>>
  /\ IF again
     THEN loop' = "top" /\ UNCHANGED busy
     ELSE loop' = "wait" /\ busy' = FALSE
  /\ UNCHANGED <<queueVars, ready, again, wake, deferred, otherVars>>

(* ReadEvents() returns for the wake file descriptor, or for another       *)
(* socket or a timeout, with or without it.                                *)
Wait ==
  /\ LoopAt("wait")
  /\ loop' = "woken"
  /\ ready' = wake
  /\ UNCHANGED <<queueVars, again, busy, wake, deferred, otherVars>>

BeBusy ==
  /\ LoopAt("woken")
  /\ loop' = "sockets"
  /\ busy' = TRUE
  /\ UNCHANGED <<queueVars, ready, again, wake, deferred, otherVars>>

Dispatch ==
  /\ LoopAt("sockets")
  /\ CallbackRuns(deferred)
  /\ loop' = IF ready THEN "read" ELSE "top"
  /\ wake' = (wake /\ ~ready)
  /\ ready' = FALSE
  /\ UNCHANGED <<running, breaking, ended, busy, otherVars>>

(* The rest of OnSocketReady(). *)
TestBreak ==
  /\ LoopAt("read")
  /\ IF breaking
     THEN ended' = TRUE /\ UNCHANGED loop
     ELSE loop' = "socket" /\ UNCHANGED ended
  /\ UNCHANGED <<inject, running, breaking, ready, again, busy, wake, deferred, otherVars>>

(* Seeded fault: the descriptor is emptied after the queue was handled. *)
SocketDone_Empties ==
  /\ LoopAt("socket")
  /\ inject = <<>>
  /\ loop' = "top"
  /\ wake' = FALSE
  /\ UNCHANGED <<queueVars, ready, again, busy, deferred, otherVars>>

SocketDone ==
  /\ LoopAt("socket")
  /\ inject = <<>>
  /\ loop' = "top"
  /\ UNCHANGED <<queueVars, ready, again, busy, wake, deferred, otherVars>>

LoopStep ==
  \/ HandleTimers \/ RunDeferred \/ RunOneIdle \/ PopInject \/ InjectReturns
  \/ GoToSleep \/ BeBusy \/ Dispatch \/ TestBreak \/ SocketDone

ClientStep(c) ==
  ScheduleInject(c) \/ BlockingCall(c) \/ WriteWake(c) \/ CallReturns(c) \/ RemoveInject(c)

MainStep == InjectBreak \/ WriteBreak \/ Join

Next == LoopStep \/ Wait \/ MainStep \/ \E c \in Events : ClientStep(c)

Spec == Init /\ [][Next]_vars

(***************************************************************************)
(* Fairness.  Threads run, and the poll returns when the descriptor is     *)
(* readable.  No timer is due in every round, and a callback that defers   *)
(* an event does not do so every time: an idle event that schedules itself *)
(* for ever would keep the loop from its queue, RunOneIdle() comes first.  *)
(***************************************************************************)
Quietly(step) == step /\ deferred' = "no"

FairSpec ==
  /\ Spec
  /\ WF_vars(LoopStep)
  /\ WF_vars(Wait /\ wake)
  /\ WF_vars(WriteBreak)
  /\ WF_vars(Join)
  /\ \A c \in Events : WF_vars(WriteWake(c)) /\ WF_vars(CallReturns(c))
  /\ SF_vars(Quietly(HandleTimers) /\ deferred = "no" /\ ~again')
  /\ SF_vars(Quietly(RunDeferred))
  /\ SF_vars(Quietly(RunOneIdle))

-----------------------------------------------------------------------------
(* No lost wakeup: the loop does not sleep while it has something to do    *)
(* unless the descriptor is readable or somebody is about to write to it.  *)
(* Deferred work is never left, injected events and the order to stop have *)
(* a write on its way, though only the first of several threads writes.    *)
Writing == \E c \in Events : client[c] \in {"write", "call"}

NoSleepOnWork ==
  loop \in {"wait", "woken"} =>
    /\ deferred = "no"
    /\ inject # <<>> => wake \/ Writing
    /\ breaking => wake \/ main = "write"

(* The loop does what InjectEvent promises: each scheduled event is called *)
(* once, in order, unless it is cancelled in time or the loop is stopped.  *)
ImplementsQueue == QueueSpec

(* BlockingCall() returns, whatever other threads inject and callbacks     *)
(* defer meanwhile.                                                        *)
CallsReturn == \A c \in Events : client[c] \in {"call", "waiting"} ~> client[c] = "idle"

(* Stopping the I/O thread does not hang, even if the loop was asleep or   *)
(* just about to be.                                                       *)
StopEnds == main = "joining" ~> main = "joined"
=============================================================================
