--------------------------- MODULE EventLoopProofs ---------------------------
(***************************************************************************)
(* EventLoop.tla for any set of threads: the loop does not sleep on work,  *)
(* its steps are those of InjectQueue.tla, and nobody who waits for it is  *)
(* left alone.                                                             *)
(***************************************************************************)
EXTENDS EventLoop, SequenceTheorems, TLAPS

(***************************************************************************)
(* The inductive invariant.  NoSleepOnWork says what holds while the loop  *)
(* sleeps; what makes it true is decided before.  Deferred work that is    *)
(* left when the loop gets to its queue has set again, and an order to     *)
(* stop is either still in the descriptor or about to be looked at.        *)
(***************************************************************************)
FlagsOK ==
  /\ client \in [Events -> ClientPlaces]
  /\ busy <=> loop \notin {"wait", "woken"}
  /\ running # Nobody => loop \in {"inject", "socket"}

DeferredOK ==
  /\ deferred \in {"no", "defer", "idle"}
  /\ loop = "idle" => deferred # "defer"
  /\ loop = "inject" => deferred = "no" \/ again
  /\ loop \in {"wait", "woken"} => deferred = "no"

BreakOK == breaking => wake \/ main = "write" \/ loop = "read"

InjectOK == loop \in {"wait", "woken"} => (inject # <<>> => wake \/ Writing)

-----------------------------------------------------------------------------
LEMMA InitOK == Init => FlagsOK /\ DeferredOK /\ BreakOK /\ InjectOK
BY DEF Init, QueueInit, FlagsOK, DeferredOK, BreakOK, InjectOK, ClientPlaces

LEMMA StepFlags == FlagsOK /\ [Next]_vars => FlagsOK'
<1> SUFFICES ASSUME FlagsOK, [Next]_vars PROVE FlagsOK'
    OBVIOUS
<1> USE DEF FlagsOK, Unlocked
<1>1. CASE HandleTimers
      BY <1>1 DEF HandleTimers, LoopAt, otherVars
<1>2. CASE RunDeferred
      BY <1>2 DEF RunDeferred, LoopAt, otherVars
<1>3. CASE RunOneIdle
      BY <1>3 DEF RunOneIdle, LoopAt, otherVars
<1>4. CASE PopInject
      BY <1>4 DEF PopInject, TakeFirst, loopVars, otherVars
<1>5. CASE InjectReturns
      BY <1>5 DEF InjectReturns
<1>6. CASE GoToSleep
      BY <1>6 DEF GoToSleep, LoopAt, queueVars, otherVars
<1>7. CASE BeBusy
      BY <1>7 DEF BeBusy, LoopAt, queueVars, otherVars
<1>8. CASE Dispatch
      BY <1>8 DEF Dispatch, LoopAt, otherVars
<1>9. CASE TestBreak
      BY <1>9 DEF TestBreak, LoopAt, otherVars
<1>10. CASE SocketDone
      BY <1>10 DEF SocketDone, LoopAt, queueVars, otherVars
<1>11. CASE Wait
      BY <1>11 DEF Wait, LoopAt, queueVars, otherVars
<1>12. CASE MainStep
      BY <1>12 DEF MainStep, InjectBreak, WriteBreak, Join, queueVars, loopVars
<1>13. ASSUME NEW c \in Events, ScheduleInject(c) PROVE FlagsOK'
  <2>1. CASE client' = [client EXCEPT ![c] = "write"]
        BY <1>13, <2>1 DEF ScheduleInject, AddInject, ClientPlaces
  <2>2. CASE client' = [client EXCEPT ![c] = "idle"]
        BY <1>13, <2>2 DEF ScheduleInject, AddInject, ClientPlaces
  <2>3. QED
        BY <1>13, <2>1, <2>2 DEF ScheduleInject, AddInject
<1>14. ASSUME NEW c \in Events, BlockingCall(c) PROVE FlagsOK'
  <2>1. CASE client' = [client EXCEPT ![c] = "call"]
        BY <1>14, <2>1 DEF BlockingCall, AddInject, ClientPlaces
  <2>2. CASE client' = [client EXCEPT ![c] = "waiting"]
        BY <1>14, <2>2 DEF BlockingCall, AddInject, ClientPlaces
  <2>3. QED
        BY <1>14, <2>1, <2>2 DEF BlockingCall, AddInject
<1>15. ASSUME NEW c \in Events, WriteWake(c) PROVE FlagsOK'
      BY <1>15 DEF WriteWake, ClientPlaces, queueVars
<1>16. ASSUME NEW c \in Events, CallReturns(c) PROVE FlagsOK'
      BY <1>16 DEF CallReturns, ClientPlaces, queueVars, loopVars
<1>17. ASSUME NEW c \in Events, RemoveInject(c) PROVE FlagsOK'
      BY <1>17 DEF RemoveInject, loopVars, otherVars
<1>18. CASE UNCHANGED vars
      BY <1>18 DEF vars, queueVars, loopVars, otherVars
<1>19. QED
      BY <1>1, <1>2, <1>3, <1>4, <1>5, <1>6, <1>7, <1>8, <1>9, <1>10, <1>11,
         <1>12, <1>13, <1>14, <1>15, <1>16, <1>17, <1>18
      DEF Next, LoopStep, ClientStep

LEMMA CallbackDefers ==
  ASSUME NEW before \in {"no", "defer", "idle"}, CallbackRuns(before)
  PROVE  deferred' \in {"no", "defer", "idle"}
BY DEF CallbackRuns

LEMMA StepDeferred == FlagsOK /\ DeferredOK /\ [Next]_vars => DeferredOK'
<1> SUFFICES ASSUME FlagsOK, DeferredOK, [Next]_vars PROVE DeferredOK'
    OBVIOUS
<1> USE DEF DeferredOK
<1>1. CASE HandleTimers
      BY <1>1, CallbackDefers DEF HandleTimers
<1>2. CASE RunDeferred
      BY <1>2, CallbackDefers DEF RunDeferred, LoopAt
<1>3. CASE RunOneIdle
      BY <1>3, CallbackDefers DEF RunOneIdle, LoopAt
<1>4. CASE PopInject
      BY <1>4 DEF PopInject, loopVars
<1>5. CASE InjectReturns
  <2>1. loop \in {"inject", "socket"} /\ loop' = loop
        BY <1>5 DEF InjectReturns, FlagsOK
  <2>2. (deferred' = deferred /\ again' = again) \/ again' = TRUE
        BY <1>5 DEF InjectReturns, CallbackRuns, DeferAgain
  <2>3. QED
        BY <1>5, <2>1, <2>2, CallbackDefers DEF InjectReturns
<1>6. CASE GoToSleep
      BY <1>6 DEF GoToSleep, LoopAt
<1>7. CASE BeBusy
      BY <1>7 DEF BeBusy
<1>8. CASE Dispatch
      BY <1>8, CallbackDefers DEF Dispatch
<1>9. CASE TestBreak
      BY <1>9 DEF TestBreak, LoopAt
<1>10. CASE SocketDone
      BY <1>10 DEF SocketDone
<1>11. CASE Wait
      BY <1>11 DEF Wait, LoopAt
<1>12. CASE MainStep
      BY <1>12 DEF MainStep, InjectBreak, WriteBreak, Join, loopVars
<1>13. ASSUME NEW c \in Events, ClientStep(c) PROVE DeferredOK'
      BY <1>13 DEF ClientStep, ScheduleInject, BlockingCall, WriteWake, CallReturns,
                   RemoveInject, AddInject, loopVars
<1>14. CASE UNCHANGED vars
      BY <1>14 DEF vars, loopVars
<1>15. QED
      BY <1>1, <1>2, <1>3, <1>4, <1>5, <1>6, <1>7, <1>8, <1>9, <1>10, <1>11,
         <1>12, <1>13, <1>14
      DEF Next, LoopStep

LEMMA StepBreak == BreakOK /\ [Next]_vars => BreakOK'
<1> SUFFICES ASSUME BreakOK, [Next]_vars PROVE BreakOK'
    OBVIOUS
<1> USE DEF BreakOK, LoopAt, Unlocked, otherVars, queueVars, loopVars
<1>1. CASE LoopStep
  <2>1. CASE Dispatch
        BY <2>1 DEF Dispatch
  <2>2. CASE TestBreak
        BY <2>2 DEF TestBreak
  <2>3. CASE HandleTimers \/ RunDeferred \/ RunOneIdle \/ PopInject \/ InjectReturns
        BY <2>3 DEF HandleTimers, RunDeferred, RunOneIdle, PopInject, InjectReturns
  <2>4. CASE GoToSleep \/ BeBusy \/ SocketDone
        BY <2>4 DEF GoToSleep, BeBusy, SocketDone
  <2>5. QED
        BY <1>1, <2>1, <2>2, <2>3, <2>4 DEF LoopStep
<1>2. CASE Wait
      BY <1>2 DEF Wait
<1>3. CASE MainStep
      BY <1>3 DEF MainStep, InjectBreak, WriteBreak, Join
<1>4. ASSUME NEW c \in Events, ClientStep(c) PROVE BreakOK'
      BY <1>4 DEF ClientStep, ScheduleInject, BlockingCall, WriteWake, CallReturns,
                  RemoveInject, AddInject
<1>5. CASE UNCHANGED vars
      BY <1>5 DEF vars
<1>6. QED
      BY <1>1, <1>2, <1>3, <1>4, <1>5 DEF Next

LEMMA StepInject == FlagsOK /\ InjectOK /\ [Next]_vars => InjectOK'
<1> SUFFICES ASSUME FlagsOK, InjectOK, [Next]_vars PROVE InjectOK'
    OBVIOUS
<1> USE DEF InjectOK
<1>1. CASE LoopStep
  <2>1. CASE HandleTimers \/ RunDeferred \/ RunOneIdle
        BY <2>1 DEF HandleTimers, RunDeferred, RunOneIdle, LoopAt
  <2>2. CASE PopInject
        BY <2>2 DEF PopInject, loopVars
  <2>3. CASE InjectReturns
        BY <2>3 DEF InjectReturns, FlagsOK
  <2>4. CASE GoToSleep
        BY <2>4 DEF GoToSleep, LoopAt, queueVars
  <2>5. CASE BeBusy \/ Dispatch \/ TestBreak \/ SocketDone
        BY <2>5 DEF BeBusy, Dispatch, TestBreak, SocketDone, LoopAt
  <2>6. QED
        BY <1>1, <2>1, <2>2, <2>3, <2>4, <2>5 DEF LoopStep
<1>2. CASE Wait
      BY <1>2 DEF Wait, LoopAt, Writing, queueVars, otherVars
<1>3. CASE MainStep
      BY <1>3 DEF MainStep, InjectBreak, WriteBreak, Join, Writing, queueVars, loopVars
<1>4. ASSUME NEW c \in Events, ScheduleInject(c) \/ BlockingCall(c) PROVE InjectOK'
  <2>1. PICK writing \in {"write", "call"}, written \in {"idle", "waiting"} :
          AddInject(c, writing, written) /\ client[c] = "idle"
        BY <1>4 DEF ScheduleInject, BlockingCall
  <2> SUFFICES ASSUME loop \in {"wait", "woken"}, ~wake PROVE Writing'
      BY <2>1 DEF AddInject
  <2>2. client \in [Events -> ClientPlaces] /\ ~busy
        BY DEF FlagsOK
  <2>3. CASE inject = <<>>
    <3>1. ~IsPending(c)
          BY <2>3 DEF IsPending
    <3>2. client' = [client EXCEPT ![c] = writing]
          BY <2>1, <2>2, <2>3, <3>1 DEF AddInject, MustWake
    <3>3. QED
          BY <2>2, <3>2 DEF Writing
  <2>4. CASE inject # <<>>
    <3>1. PICK d \in Events : client[d] \in {"write", "call"}
          BY <2>4 DEF Writing
    <3>2. client' = [client EXCEPT ![c] = written]
          BY <2>1, <2>4 DEF AddInject, MustWake
    <3>3. d # c /\ client'[d] = client[d]
          BY <2>1, <2>2, <3>1, <3>2
    <3>4. QED
          BY <3>1, <3>3 DEF Writing
  <2>5. QED
        BY <2>3, <2>4
<1>5. ASSUME NEW c \in Events, WriteWake(c) PROVE InjectOK'
      BY <1>5 DEF WriteWake
<1>6. ASSUME NEW c \in Events, CallReturns(c) PROVE InjectOK'
  <2>1. \A d \in Events : client[d] \in {"write", "call"} => client'[d] = client[d]
        BY <1>6 DEF CallReturns, FlagsOK
  <2>2. Writing => Writing'
        BY <2>1 DEF Writing
  <2>3. QED
        BY <1>6, <2>2 DEF CallReturns, queueVars, loopVars
<1>7. ASSUME NEW c \in Events, RemoveInject(c) PROVE InjectOK'
  <2>1. inject # <<>>
        BY <1>7 DEF RemoveInject, IsPending
  <2>2. QED
        BY <1>7, <2>1 DEF RemoveInject, Writing, loopVars, otherVars
<1>8. CASE UNCHANGED vars
      BY <1>8 DEF vars, Writing, queueVars, loopVars, otherVars
<1>9. QED
      BY <1>1, <1>2, <1>3, <1>4, <1>5, <1>6, <1>7, <1>8 DEF Next, ClientStep

-----------------------------------------------------------------------------
(* No lost wakeup: the loop never sleeps on deferred work, and on injected *)
(* events or the order to stop only while its descriptor is readable or a  *)
(* thread is on its way to write to it, whichever of them came first.      *)
THEOREM NoLostWakeup == Spec => []NoSleepOnWork
<1>1. DeferredOK /\ BreakOK /\ InjectOK => NoSleepOnWork
      BY DEF DeferredOK, BreakOK, InjectOK, NoSleepOnWork
<1>2. QED
      BY <1>1, InitOK, StepFlags, StepDeferred, StepBreak, StepInject, PTL DEF Spec

-----------------------------------------------------------------------------
(* A callback does to the queue what Return lets it do, or Schedule.       *)
LEMMA CallbackSchedules ==
  ASSUME NEW before, CallbackRuns(before)
  PROVE  inject' = inject \/ \E e \in Events : inject' = Scheduled(e)
BY DEF CallbackRuns, Scheduled

LEMMA QueueStep == [Next]_vars => [QueueNext]_queueVars
<1> SUFFICES ASSUME [Next]_vars PROVE [QueueNext]_queueVars
    OBVIOUS
<1> USE DEF QueueNext, queueVars, LoopAt
<1>1. CASE HandleTimers
  <2>1. inject' = inject \/ \E e \in Events : inject' = Scheduled(e)
        BY <1>1, CallbackSchedules DEF HandleTimers
  <2>2. QED
        BY <1>1, <2>1 DEF HandleTimers, Schedule
<1>2. CASE RunDeferred
  <2>1. inject' = inject \/ \E e \in Events : inject' = Scheduled(e)
        BY <1>2, CallbackSchedules DEF RunDeferred
  <2>2. QED
        BY <1>2, <2>1 DEF RunDeferred, Schedule
<1>3. CASE RunOneIdle
  <2>1. inject' = inject \/ \E e \in Events : inject' = Scheduled(e)
        BY <1>3, CallbackSchedules DEF RunOneIdle
  <2>2. QED
        BY <1>3, <2>1 DEF RunOneIdle, Schedule
<1>4. CASE Dispatch
  <2>1. inject' = inject \/ \E e \in Events : inject' = Scheduled(e)
        BY <1>4, CallbackSchedules DEF Dispatch
  <2>2. QED
        BY <1>4, <2>1 DEF Dispatch, Schedule
<1>5. CASE InjectReturns
  <2>1. inject' = inject \/ \E e \in Events : inject' = Scheduled(e)
        BY <1>5, CallbackSchedules DEF InjectReturns
  <2>2. QED
        BY <1>5, <2>1 DEF InjectReturns, Return
<1>6. CASE PopInject
      BY <1>6 DEF PopInject, Take
<1>7. CASE TestBreak
      BY <1>7 DEF TestBreak, End
<1>8. CASE GoToSleep \/ BeBusy \/ SocketDone \/ Wait
      BY <1>8 DEF GoToSleep, BeBusy, SocketDone, Wait
<1>9. CASE MainStep
      BY <1>9 DEF MainStep, InjectBreak, WriteBreak, Join, Break
<1>10. ASSUME NEW c \in Events, ScheduleInject(c) \/ BlockingCall(c)
       PROVE  [QueueNext]_queueVars
      BY <1>10 DEF ScheduleInject, BlockingCall, AddInject, Schedule
<1>11. ASSUME NEW c \in Events, WriteWake(c) \/ CallReturns(c) \/ RemoveInject(c)
       PROVE  [QueueNext]_queueVars
      BY <1>11 DEF WriteWake, CallReturns, RemoveInject, Cancel
<1>12. CASE UNCHANGED vars
      BY <1>12 DEF vars
<1>13. QED
      BY <1>1, <1>2, <1>3, <1>4, <1>5, <1>6, <1>7, <1>8, <1>9, <1>10, <1>11, <1>12
      DEF Next, LoopStep, ClientStep

(* Each step of the loop and of its users is one that InjectQueue allows,  *)
(* or leaves the queue alone: an event is called at most once per          *)
(* Schedule(), in order, never after Cancel() and never twice at a time.   *)
THEOREM LoopIsQueue == Spec => QueueSafe
<1>1. Init => QueueInit
      BY DEF Init
<1>2. QED
      BY <1>1, QueueStep, PTL DEF Spec, QueueSafe

-----------------------------------------------------------------------------
(***************************************************************************)
(* Nobody is left waiting.  A thread inside BlockingCall() has its event   *)
(* in the queue, or it is being called, or it was; and whoever joins the   *)
(* loop's thread has an order to stop there that will be read.             *)
(***************************************************************************)
Calling(c) == client[c] \in {"call", "waiting"}

Driven(c) == IsPending(c) \/ running = c \/ c \in done

CallsOK ==
  /\ inject \in Seq(Events)
  /\ \A c \in Events : Calling(c) => Driven(c)

StopOK ==
  /\ main = "run" <=> ~breaking
  /\ breaking => \A c \in Events : client[c] = "idle"
  /\ ended => breaking

(* What other events do to the queue leaves an event in it.                *)
LEMMA ScheduledKeeps ==
  ASSUME NEW s \in Seq(Events), NEW x \in Events
  PROVE  /\ Append(s, x) \in Seq(Events)
         /\ \A i \in DOMAIN s : i \in DOMAIN Append(s, x) /\ Append(s, x)[i] = s[i]
         /\ \E i \in DOMAIN Append(s, x) : Append(s, x)[i] = x
<1> DEFINE t == Append(s, x)
<1>1. /\ t \in Seq(Events) /\ DOMAIN t = 1..(Len(s) + 1) /\ DOMAIN s = 1..Len(s)
      /\ Len(s) \in Nat /\ t[Len(s) + 1] = x
      /\ \A i \in DOMAIN s : t[i] = s[i]
      OBVIOUS
<1> HIDE DEF t
<1>2. /\ \A i \in DOMAIN s : i \in DOMAIN t
      /\ Len(s) + 1 \in DOMAIN t
      BY <1>1
<1>3. QED
      BY <1>1, <1>2 DEF t

LEMMA TailKeeps ==
  ASSUME NEW s \in Seq(Events), s # <<>>, NEW i \in DOMAIN s
  PROVE  s[i] = Head(s) \/ \E j \in DOMAIN Tail(s) : Tail(s)[j] = s[i]
<1> DEFINE t == Tail(s)
<1>1. /\ DOMAIN t = 1..(Len(s) - 1) /\ i \in 1..Len(s) /\ Len(s) \in Nat
      /\ \A j \in DOMAIN t : t[j] = s[j + 1]
      /\ Head(s) = s[1]
      OBVIOUS
<1> HIDE DEF t
<1>2. CASE i = 1
      BY <1>1, <1>2
<1>3. CASE i # 1
  <2>1. i - 1 \in DOMAIN t /\ t[i - 1] = s[i]
        BY <1>1, <1>3
  <2>2. QED
        BY <2>1 DEF t
<1>4. QED
      BY <1>2, <1>3

LEMMA CancelledKeeps ==
  ASSUME NEW s \in Seq(Events), NEW e
  PROVE  /\ Without(s, e) \in Seq(Events)
         /\ \A i \in DOMAIN s :
              s[i] # e => \E j \in DOMAIN Without(s, e) : Without(s, e)[j] = s[i]
<1>1. CASE ~\E i \in DOMAIN s : s[i] = e
      BY <1>1 DEF Without
<1>2. CASE \E i \in DOMAIN s : s[i] = e
  <2> DEFINE n == CHOOSE i \in DOMAIN s : s[i] = e
             a == SubSeq(s, 1, n - 1)
             b == SubSeq(s, n + 1, Len(s))
             t == a \o b
  <2>1. n \in DOMAIN s /\ s[n] = e
        BY <1>2
  <2>2. Without(s, e) = t
        BY <1>2 DEF Without, RemoveAt
  <2> HIDE DEF n
  <2>3. n \in 1..Len(s) /\ DOMAIN s = 1..Len(s) /\ Len(s) \in Nat
        BY <2>1
  <2>4. a \in Seq(Events) /\ Len(a) = n - 1 /\ \A i \in 1..(n - 1) : a[i] = s[i]
        BY <2>3
  <2>5. b \in Seq(Events) /\ Len(b) = Len(s) - n /\ \A i \in 1..(Len(s) - n) : b[i] = s[n + i]
    <3>1. n + 1 \in Int /\ Len(s) \in Int /\ \A i \in (n + 1)..Len(s) : s[i] \in Events
          BY <2>3
    <3>2. /\ b \in Seq(Events)
          /\ Len(b) = IF n + 1 <= Len(s) THEN Len(s) - (n + 1) + 1 ELSE 0
          /\ \A i \in 1..(Len(s) - (n + 1) + 1) : b[i] = s[(n + 1) + i - 1]
          BY <3>1, SubSeqProperties
    <3> HIDE DEF b
    <3>3. Len(b) = Len(s) - n
      <4>1. CASE n + 1 <= Len(s)
            BY <2>3, <3>2, <4>1
      <4>2. CASE ~(n + 1 <= Len(s))
        <5>1. n \in Int /\ n <= Len(s) /\ Len(s) \in Int
              BY <2>3
        <5>2. n = Len(s)
              BY <4>2, <5>1
        <5>3. Len(b) = 0
              BY <3>2, <4>2
        <5>4. QED
              BY <5>1, <5>2, <5>3
      <4>3. QED
            BY <4>1, <4>2
    <3>4. ASSUME NEW i \in 1..(Len(s) - n) PROVE b[i] = s[n + i]
      <4>1. i \in 1..(Len(s) - (n + 1) + 1) /\ (n + 1) + i - 1 = n + i
            BY <2>3
      <4>2. QED
            BY <3>2, <4>1
    <3>5. QED
          BY <3>2, <3>3, <3>4
  <2> HIDE DEF a, b
  <2>6. /\ t \in Seq(Events) /\ Len(t) = Len(s) - 1
        /\ \A j \in 1..(Len(s) - 1) : t[j] = IF j <= n - 1 THEN a[j] ELSE b[j - (n - 1)]
    <3>1. /\ t \in Seq(Events) /\ Len(t) = Len(a) + Len(b)
          /\ \A j \in 1..(Len(a) + Len(b)) :
               t[j] = IF j <= Len(a) THEN a[j] ELSE b[j - Len(a)]
          BY <2>4, <2>5, ConcatProperties
    <3>2. Len(a) + Len(b) = Len(s) - 1
          BY <2>3, <2>4, <2>5
    <3>3. QED
          BY <2>4, <3>1, <3>2
  <2> HIDE DEF t
  <2>7. DOMAIN t = 1..(Len(s) - 1)
        BY <2>6
  <2>8. ASSUME NEW i \in DOMAIN s, s[i] # e PROVE \E j \in DOMAIN t : t[j] = s[i]
    <3>1. i \in 1..Len(s) /\ i # n
          BY <2>1, <2>3, <2>8
    <3>2. CASE i < n
      <4>1. i \in DOMAIN t /\ i \in 1..(n - 1)
            BY <2>3, <2>7, <3>1, <3>2
      <4>2. t[i] = a[i]
            BY <2>3, <2>6, <2>7, <4>1
      <4>3. QED
            BY <2>4, <4>1, <4>2
    <3>3. CASE i > n
      <4>1. /\ i - 1 \in DOMAIN t /\ ~(i - 1 <= n - 1)
            /\ i - n \in 1..(Len(s) - n) /\ n + (i - n) = i /\ (i - 1) - (n - 1) = i - n
            BY <2>3, <2>7, <3>1, <3>3
      <4>2. t[i - 1] = b[(i - 1) - (n - 1)]
            BY <2>6, <2>7, <4>1
      <4>3. b[i - n] = s[n + (i - n)]
            BY <2>5, <4>1
      <4>4. t[i - 1] = s[i]
            BY <4>1, <4>2, <4>3
      <4>5. QED
            BY <4>1, <4>4
    <3>4. QED
          BY <2>3, <3>1, <3>2, <3>3
  <2>9. QED
        BY <2>2, <2>6, <2>8
<1>3. QED
      BY <1>1, <1>2

-----------------------------------------------------------------------------
(* Where the queue is left alone or grows, and the threads stay in their   *)
(* calls, nothing is lost.                                                 *)
LEMMA CallsStay ==
  ASSUME CallsOK,
         inject' \in Seq(Events),
         \A c \in Events : IsPending(c) => IsPending(c)',
         UNCHANGED running, done \subseteq done',
         \A c \in Events : Calling(c)' => Calling(c)
  PROVE  CallsOK'
BY DEF CallsOK, Driven

LEMMA AppendStays ==
  ASSUME CallsOK, NEW e \in Events, inject' = inject \/ inject' = Append(inject, e)
  PROVE  inject' \in Seq(Events) /\ \A c \in Events : IsPending(c) => IsPending(c)'
<1>1. inject \in Seq(Events)
      BY DEF CallsOK
<1>2. CASE inject' = inject
      BY <1>1, <1>2 DEF IsPending
<1>3. CASE inject' = Append(inject, e)
      BY <1>1, <1>3, ScheduledKeeps DEF IsPending
<1>4. QED
      BY <1>2, <1>3

(* A callback only adds to the queue. *)
LEMMA CallbackStays ==
  ASSUME CallsOK, NEW before, CallbackRuns(before)
  PROVE  inject' \in Seq(Events) /\ \A c \in Events : IsPending(c) => IsPending(c)'
<1>1. CASE inject' = inject
      BY <1>1 DEF CallsOK, IsPending
<1>2. CASE inject' # inject
  <2>1. PICK e \in Events : inject' = Append(inject, e)
        BY <1>2 DEF CallbackRuns
  <2>2. QED
        BY <2>1, AppendStays
<1>3. QED
      BY <1>1, <1>2

LEMMA StepCalls == FlagsOK /\ CallsOK /\ [Next]_vars => CallsOK'
<1> SUFFICES ASSUME FlagsOK, CallsOK, [Next]_vars PROVE CallsOK'
    OBVIOUS
<1>0. client \in [Events -> ClientPlaces] /\ inject \in Seq(Events)
      BY DEF FlagsOK, CallsOK
<1>1. ASSUME UNCHANGED <<inject, running, done>>, \A c \in Events : Calling(c)' => Calling(c)
      PROVE  CallsOK'
      BY <1>0, <1>1 DEF CallsOK, Driven, IsPending
<1>2. CASE HandleTimers \/ RunDeferred \/ RunOneIdle \/ Dispatch
  <2>1. UNCHANGED <<running, done, client>>
        BY <1>2 DEF HandleTimers, RunDeferred, RunOneIdle, Dispatch, otherVars
  <2>2. inject' = inject \/ \E before : CallbackRuns(before)
        BY <1>2 DEF HandleTimers, RunDeferred, RunOneIdle, Dispatch
  <2>3. inject' \in Seq(Events) /\ \A c \in Events : IsPending(c) => IsPending(c)'
        BY <1>0, <2>2, CallbackStays DEF IsPending
  <2>4. QED
        BY <2>1, <2>3, CallsStay DEF Calling
<1>3. CASE PopInject
  <2>1. inject # <<>> /\ running = Nobody /\ running' = Head(inject) /\ inject' = Tail(inject)
        BY <1>3 DEF PopInject, TakeFirst
  <2>2. inject' \in Seq(Events) /\ UNCHANGED <<client, done>>
        BY <1>0, <1>3, <2>1 DEF PopInject, otherVars
  <2>3. ASSUME NEW c \in Events, IsPending(c) PROVE running' = c \/ IsPending(c)'
    <3>1. PICK i \in DOMAIN inject : inject[i] = c
          BY <2>3 DEF IsPending
    <3>2. inject[i] = Head(inject) \/ \E j \in DOMAIN Tail(inject) : Tail(inject)[j] = inject[i]
          BY <1>0, <2>1, TailKeeps
    <3>3. QED
          BY <2>1, <3>1, <3>2 DEF IsPending
  <2>4. \A c \in Events : running # c
        BY <2>1, QueueAssumption
  <2>5. QED
        BY <2>2, <2>3, <2>4 DEF CallsOK, Driven, Calling
<1>4. CASE InjectReturns
  <2>1. /\ UNCHANGED client
        /\ done' = IF client[running] \in {"call", "waiting"} THEN done \cup {running} ELSE done
        BY <1>4 DEF InjectReturns
  <2>2. inject' \in Seq(Events) /\ \A c \in Events : IsPending(c) => IsPending(c)'
        BY <1>4, CallbackStays DEF InjectReturns
  <2>3. \A c \in Events : Calling(c) /\ running = c => c \in done'
        BY <2>1 DEF Calling
  <2>4. QED
        BY <2>1, <2>2, <2>3 DEF CallsOK, Driven, Calling
<1>5. CASE GoToSleep \/ BeBusy \/ TestBreak \/ SocketDone \/ Wait \/ MainStep \/ UNCHANGED vars
  <2>1. UNCHANGED <<inject, running, done, client>>
        BY <1>5 DEF GoToSleep, BeBusy, TestBreak, SocketDone, Wait, MainStep, InjectBreak,
                    WriteBreak, Join, vars, queueVars, otherVars
  <2>2. QED
        BY <1>1, <2>1 DEF Calling
<1>6. ASSUME NEW c \in Events, ScheduleInject(c) \/ BlockingCall(c) PROVE CallsOK'
  <2>1. PICK writing \in {"write", "call"}, written \in {"idle", "waiting"} :
          /\ AddInject(c, writing, written)
          /\ client[c] = "idle"
          /\ \/ writing = "write" /\ written = "idle" /\ done' = done
             \/ ~IsPending(c) /\ done' = done \ {c}
    <3>1. CASE ScheduleInject(c)
      <4>1. AddInject(c, "write", "idle") /\ client[c] = "idle" /\ UNCHANGED done
            BY <3>1 DEF ScheduleInject
      <4>2. QED
            BY <4>1
    <3>2. CASE BlockingCall(c)
      <4>1. /\ AddInject(c, "call", "waiting") /\ client[c] = "idle"
            /\ ~IsPending(c) /\ done' = done \ {c}
            BY <3>2 DEF BlockingCall
      <4>2. QED
            BY <4>1
    <3>3. QED
          BY <1>6, <3>1, <3>2
  <2>2. UNCHANGED running /\ (inject' = inject \/ inject' = Append(inject, c))
        BY <2>1 DEF AddInject, Scheduled
  <2>3. inject' \in Seq(Events) /\ \A d \in Events : IsPending(d) => IsPending(d)'
        BY <2>2, AppendStays
  <2>4. client' = [client EXCEPT ![c] = writing] \/ client' = [client EXCEPT ![c] = written]
        BY <2>1 DEF AddInject
  <2>5. ASSUME NEW d \in Events, d # c, Calling(d)' PROVE Driven(d)'
    <3>1. Calling(d)
          BY <1>0, <2>4, <2>5 DEF Calling
    <3>2. Driven(d)
          BY <3>1 DEF CallsOK
    <3>3. d \in done => d \in done'
          BY <2>1, <2>5
    <3>4. QED
          BY <2>2, <2>3, <3>2, <3>3 DEF Driven
  <2>6. ASSUME Calling(c)' PROVE IsPending(c)'
    <3>1. client'[c] = writing \/ client'[c] = written
          BY <1>0, <2>4
    <3>2. ~IsPending(c)
          BY <2>1, <2>6, <3>1 DEF Calling
    <3>3. inject' = Append(inject, c)
          BY <2>1, <3>2 DEF AddInject, Scheduled
    <3>4. QED
          BY <1>0, <3>3, ScheduledKeeps DEF IsPending
  <2>7. QED
        BY <2>3, <2>5, <2>6 DEF CallsOK, Driven
<1>7. ASSUME NEW c \in Events, WriteWake(c) \/ CallReturns(c) PROVE CallsOK'
  <2>1. /\ UNCHANGED <<inject, running, done>>
        /\ \A d \in Events : d # c => client'[d] = client[d]
        /\ client'[c] \in {"call", "waiting"} => client[c] = "call"
        BY <1>0, <1>7 DEF WriteWake, CallReturns, queueVars
  <2>2. QED
        BY <1>1, <2>1 DEF Calling
<1>8. ASSUME NEW c \in Events, RemoveInject(c) PROVE CallsOK'
  <2>1. ~Calling(c) /\ inject' = Without(inject, c) /\ UNCHANGED <<running, done, client>>
        BY <1>8 DEF RemoveInject, Cancelled, Calling, otherVars
  <2>2. inject' \in Seq(Events)
        BY <1>0, <2>1, CancelledKeeps
  <2>3. ASSUME NEW d \in Events, d # c, IsPending(d) PROVE IsPending(d)'
    <3>1. PICK i \in DOMAIN inject : inject[i] = d
          BY <2>3 DEF IsPending
    <3>2. \E j \in DOMAIN Without(inject, c) : Without(inject, c)[j] = inject[i]
          BY <1>0, <2>3, <3>1, CancelledKeeps
    <3>3. QED
          BY <2>1, <3>1, <3>2 DEF IsPending
  <2>4. QED
        BY <2>1, <2>2, <2>3 DEF CallsOK, Driven, Calling
<1>9. QED
      BY <1>2, <1>3, <1>4, <1>5, <1>6, <1>7, <1>8 DEF Next, LoopStep, ClientStep

LEMMA StepStop == FlagsOK /\ StopOK /\ [Next]_vars => StopOK'
<1> SUFFICES ASSUME FlagsOK, StopOK, [Next]_vars PROVE StopOK'
    OBVIOUS
<1> USE DEF StopOK, queueVars, loopVars, otherVars, LoopAt
<1>1. CASE LoopStep \/ Wait
  <2>1. UNCHANGED <<main, breaking, client>>
        BY <1>1 DEF LoopStep, Wait, HandleTimers, RunDeferred, RunOneIdle, PopInject,
                    InjectReturns, GoToSleep, BeBusy, Dispatch, TestBreak, SocketDone
  <2>2. ended' => ended \/ breaking
        BY <1>1 DEF LoopStep, Wait, HandleTimers, RunDeferred, RunOneIdle, PopInject,
                    InjectReturns, GoToSleep, BeBusy, Dispatch, TestBreak, SocketDone
  <2>3. QED
        BY <2>1, <2>2
<1>2. CASE MainStep
      BY <1>2 DEF MainStep, InjectBreak, WriteBreak, Join
<1>3. ASSUME NEW c \in Events, ClientStep(c) PROVE StopOK'
  <2>1. CASE ScheduleInject(c) \/ BlockingCall(c)
        BY <2>1 DEF ScheduleInject, BlockingCall, InUse, AddInject
  <2>2. CASE WriteWake(c) \/ CallReturns(c)
        BY <2>2 DEF WriteWake, CallReturns
  <2>3. CASE RemoveInject(c)
        BY <2>3 DEF RemoveInject
  <2>4. QED
        BY <1>3, <2>1, <2>2, <2>3 DEF ClientStep
<1>4. CASE UNCHANGED vars
      BY <1>4 DEF vars
<1>5. QED
      BY <1>1, <1>2, <1>3, <1>4 DEF Next

(* A BlockingCall() is never left alone with a loop that has forgotten its *)
(* event or that has ended, whatever the other threads schedule and        *)
(* cancel; and the thread that joins the loop's has an order to stop there *)
(* that makes the descriptor readable or is about to be read.  With        *)
(* fairness this is why CallsReturn and StopEnds hold.                     *)
NobodyIsLeft ==
  /\ \A c \in Events : Calling(c) => Driven(c) /\ ~ended
  /\ main = "joining" => breaking /\ (wake \/ loop = "read")

THEOREM NobodyIsLeftWaiting == Spec => []NobodyIsLeft
<1>1. Init => CallsOK /\ StopOK
  <2> SUFFICES ASSUME Init PROVE CallsOK /\ StopOK
      OBVIOUS
  <2>1. inject = <<>> /\ ~breaking /\ ~ended /\ main = "run"
        BY DEF Init, QueueInit
  <2>2. \A c \in Events : client[c] = "idle"
        BY DEF Init
  <2>3. QED
        BY <2>1, <2>2 DEF CallsOK, StopOK, Calling
<1>2. BreakOK /\ CallsOK /\ StopOK => NobodyIsLeft
      BY DEF BreakOK, CallsOK, StopOK, NobodyIsLeft, Calling
<1>3. QED
      BY <1>1, <1>2, InitOK, StepFlags, StepBreak, StepCalls, StepStop, PTL DEF Spec
=============================================================================
