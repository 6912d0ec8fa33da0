------------------------ MODULE DownloadManagerProofs ------------------------
(***************************************************************************)
(* DownloadManager.tla for any set of files: the assertions of Start()     *)
(* hold, a task that is alive is driven by somebody, and nothing is        *)
(* downloaded after BeginShutdown().  Until a Cancel() has met a           *)
(* completion, the head of the queue is the file that is downloaded and    *)
(* the queue moves on.  Last: all of this asks of the I/O loop only what   *)
(* InjectQueue.tla allows.                                                 *)
(***************************************************************************)
EXTENDS DownloadManager, SequenceTheorems, TLAPS

-----------------------------------------------------------------------------
(* Sequences in which nothing occurs twice. *)

Has(s, e) == \E i \in DOMAIN s : s[i] = e

LEMMA AppendHas ==
  ASSUME NEW S, NEW s \in Seq(S), NEW x \in S, NEW e
  PROVE  /\ Append(s, x) \in Seq(S) /\ Append(s, x) # <<>>
         /\ Has(Append(s, x), e) <=> Has(s, e) \/ x = e
         /\ IsInjective(s) /\ ~Has(s, x) => IsInjective(Append(s, x))
         /\ s # <<>> => Head(Append(s, x)) = Head(s)
<1> DEFINE t == Append(s, x)
<1>1. /\ t \in Seq(S) /\ t # <<>> /\ DOMAIN t = 1..(Len(s) + 1) /\ DOMAIN s = 1..Len(s)
      /\ Len(s) \in Nat
      /\ \A i \in DOMAIN s : t[i] = s[i]
      /\ t[Len(s) + 1] = x
      OBVIOUS
<1> HIDE DEF t
<1>2. Has(t, e) <=> Has(s, e) \/ x = e
      BY <1>1 DEF Has
<1>3. ASSUME IsInjective(s), ~Has(s, x) PROVE IsInjective(t)
  <2> SUFFICES ASSUME NEW i \in DOMAIN t, NEW j \in DOMAIN t, t[i] = t[j] PROVE i = j
      BY DEF IsInjective
  <2>1. CASE i \in DOMAIN s /\ j \in DOMAIN s
        BY <1>1, <1>3, <2>1 DEF IsInjective
  <2>2. CASE i \notin DOMAIN s /\ j \notin DOMAIN s
        BY <1>1, <2>2
  <2>3. CASE i \in DOMAIN s /\ j \notin DOMAIN s
        BY <1>1, <1>3, <2>3 DEF Has
  <2>4. CASE i \notin DOMAIN s /\ j \in DOMAIN s
        BY <1>1, <1>3, <2>4 DEF Has
  <2>5. QED
        BY <2>1, <2>2, <2>3, <2>4
<1>4. ASSUME s # <<>> PROVE Head(t) = Head(s)
  <2>1. 1 \in DOMAIN s
        BY <1>1, <1>4
  <2>2. QED
        BY <1>1, <1>4, <2>1
<1>5. QED
      BY <1>1, <1>2, <1>3, <1>4 DEF t

LEMMA TailHas ==
  ASSUME NEW S, NEW s \in Seq(S), s # <<>>, IsInjective(s)
  PROVE  /\ Tail(s) \in Seq(S) /\ Head(s) \in S /\ IsInjective(Tail(s))
         /\ \A e : Has(s, e) <=> Has(Tail(s), e) \/ Head(s) = e
         /\ ~Has(Tail(s), Head(s))
<1> DEFINE t == Tail(s)
<1>1. /\ t \in Seq(S) /\ DOMAIN t = 1..(Len(s) - 1) /\ DOMAIN s = 1..Len(s)
      /\ Len(s) \in Nat /\ Len(s) > 0
      /\ \A i \in DOMAIN t : t[i] = s[i + 1]
      /\ Head(s) = s[1] /\ Head(s) \in S
      OBVIOUS
<1> HIDE DEF t
<1>2. IsInjective(t)
  <2> SUFFICES ASSUME NEW i \in DOMAIN t, NEW j \in DOMAIN t, t[i] = t[j] PROVE i = j
      BY DEF IsInjective
  <2>1. i + 1 = j + 1
        BY <1>1 DEF IsInjective
  <2>2. QED
        BY <1>1, <2>1
<1>3. ASSUME NEW e PROVE Has(s, e) <=> Has(t, e) \/ Head(s) = e
  <2>1. ASSUME NEW i \in DOMAIN s, s[i] = e PROVE Has(t, e) \/ Head(s) = e
    <3>1. CASE i = 1
          BY <1>1, <2>1, <3>1
    <3>2. CASE i # 1
      <4>1. i - 1 \in DOMAIN t /\ t[i - 1] = s[i]
            BY <1>1, <3>2
      <4>2. QED
            BY <2>1, <4>1 DEF Has
    <3>3. QED
          BY <3>1, <3>2
  <2>2. QED
        BY <1>1, <2>1 DEF Has
<1>4. ~Has(t, Head(s))
  <2> SUFFICES ASSUME NEW i \in DOMAIN t, t[i] = s[1] PROVE FALSE
      BY <1>1 DEF Has
  <2>1. i + 1 = 1
        BY <1>1 DEF IsInjective
  <2>2. QED
        BY <1>1, <2>1
<1>5. QED
      BY <1>1, <1>2, <1>3, <1>4 DEF t

(* RemoveAt() moves what comes after one place down. *)
LEMMA RemoveAtIs ==
  ASSUME NEW S, NEW s \in Seq(S), NEW n \in DOMAIN s
  PROVE  /\ RemoveAt(s, n) \in Seq(S)
         /\ DOMAIN RemoveAt(s, n) = 1..(Len(s) - 1)
         /\ \A i \in DOMAIN RemoveAt(s, n) :
              RemoveAt(s, n)[i] = IF i < n THEN s[i] ELSE s[i + 1]
<1>0. n \in 1..Len(s) /\ DOMAIN s = 1..Len(s) /\ Len(s) \in Nat
      OBVIOUS
<1> DEFINE t == RemoveAt(s, n)
           a == SubSeq(s, 1, n - 1)
           b == SubSeq(s, n + 1, Len(s))
<1>1. /\ a \in Seq(S) /\ Len(a) = n - 1
      /\ \A i \in 1..(n - 1) : a[i] = s[i]
      BY <1>0, SubSeqProperties
<1>2. /\ b \in Seq(S) /\ Len(b) = Len(s) - n
      /\ \A i \in 1..(Len(s) - n) : b[i] = s[i + n]
  <2>1. n + 1 \in Int /\ Len(s) \in Int /\ \A i \in (n + 1)..Len(s) : s[i] \in S
        BY <1>0
  <2>2. /\ b \in Seq(S)
        /\ Len(b) = IF n + 1 <= Len(s) THEN Len(s) - (n + 1) + 1 ELSE 0
        /\ \A i \in 1..(Len(s) - (n + 1) + 1) : b[i] = s[(n + 1) + i - 1]
        BY <2>1, SubSeqProperties
  <2> HIDE DEF b
  <2>3. Len(b) = Len(s) - n
    <3>1. n \in Int /\ n <= Len(s) /\ Len(s) \in Int
          BY <1>0
    <3>2. Len(b) = IF n + 1 <= Len(s) THEN Len(s) - (n + 1) + 1 ELSE 0
          BY <2>2
    <3>3. CASE n + 1 <= Len(s)
          BY <3>1, <3>2, <3>3
    <3>4. CASE ~(n + 1 <= Len(s))
      <4>1. n = Len(s)
            BY <3>1, <3>4
      <4>2. Len(b) = 0
            BY <3>2, <3>4
      <4>3. QED
            BY <3>1, <4>1, <4>2
    <3>5. QED
          BY <3>3, <3>4
  <2>4. ASSUME NEW i \in 1..(Len(s) - n) PROVE b[i] = s[i + n]
    <3>1. i \in 1..(Len(s) - (n + 1) + 1) /\ (n + 1) + i - 1 = i + n
          BY <1>0
    <3>2. b[i] = s[(n + 1) + i - 1]
          BY <2>2, <3>1
    <3>3. QED
          BY <3>1, <3>2
  <2>5. QED
        BY <2>2, <2>3, <2>4
<1>3. t = a \o b
      BY DEF RemoveAt
<1> HIDE DEF a, b, t
<1>4. /\ t \in Seq(S) /\ Len(t) = Len(s) - 1
      /\ \A i \in 1..(Len(s) - 1) : t[i] = IF i < n THEN a[i] ELSE b[i - (n - 1)]
  <2>1. /\ t \in Seq(S) /\ Len(t) = Len(a) + Len(b)
        /\ \A i \in 1..(Len(a) + Len(b)) :
             t[i] = IF i <= Len(a) THEN a[i] ELSE b[i - Len(a)]
        BY <1>1, <1>2, <1>3, ConcatProperties
  <2>2. /\ Len(a) + Len(b) = Len(s) - 1
        /\ \A i \in Int : i <= Len(a) <=> i < n
        BY <1>0, <1>1, <1>2
  <2>3. QED
        BY <1>1, <2>1, <2>2
<1>5. ASSUME NEW i \in 1..(Len(s) - 1)
      PROVE  t[i] = IF i < n THEN s[i] ELSE s[i + 1]
  <2>1. CASE i < n
        BY <1>0, <1>1, <1>4, <2>1
  <2>2. CASE ~(i < n)
    <3>1. i - (n - 1) \in 1..(Len(s) - n) /\ (i - (n - 1)) + n = i + 1
          BY <1>0, <2>2
    <3>2. t[i] = b[i - (n - 1)]
          BY <1>4, <2>2
    <3>3. b[i - (n - 1)] = s[(i - (n - 1)) + n]
          BY <1>2, <3>1
    <3>4. QED
          BY <2>2, <3>1, <3>2, <3>3
  <2>3. QED
        BY <2>1, <2>2
<1>6. QED
      BY <1>0, <1>4, <1>5 DEF t

LEMMA WithoutHas ==
  ASSUME NEW S, NEW s \in Seq(S), NEW e, IsInjective(s)
  PROVE  /\ Without(s, e) \in Seq(S) /\ IsInjective(Without(s, e))
         /\ \A x : Has(Without(s, e), x) <=> Has(s, x) /\ x # e
<1>1. CASE ~Has(s, e)
  <2>1. Without(s, e) = s
        BY <1>1 DEF Without, Has
  <2>2. QED
        BY <1>1, <2>1 DEF Has
<1>2. CASE Has(s, e)
  <2> DEFINE n == CHOOSE i \in DOMAIN s : s[i] = e
             t == RemoveAt(s, n)
  <2>1. n \in DOMAIN s /\ s[n] = e
        BY <1>2 DEF Has
  <2>2. Without(s, e) = t
        BY <1>2 DEF Without, Has
  <2> HIDE DEF n
  <2>3. /\ n \in 1..Len(s) /\ DOMAIN s = 1..Len(s) /\ Len(s) \in Nat
        BY <2>1
  <2>4. /\ t \in Seq(S) /\ DOMAIN t = 1..(Len(s) - 1)
        /\ \A i \in DOMAIN t : t[i] = IF i < n THEN s[i] ELSE s[i + 1]
        BY <2>1, <2>3, RemoveAtIs
  <2> HIDE DEF t
  <2>5. IsInjective(t)
    <3> SUFFICES ASSUME NEW i \in DOMAIN t, NEW j \in DOMAIN t, t[i] = t[j] PROVE i = j
        BY DEF IsInjective
    <3> DEFINE p == IF i < n THEN i ELSE i + 1
               q == IF j < n THEN j ELSE j + 1
    <3>1. p \in DOMAIN s /\ q \in DOMAIN s /\ s[p] = s[q]
          BY <2>3, <2>4
    <3>2. p = q
          BY <3>1 DEF IsInjective
    <3>3. QED
          BY <2>3, <2>4, <3>2
  <2>6. ASSUME NEW x PROVE Has(t, x) <=> Has(s, x) /\ x # e
    <3>1. ASSUME NEW i \in DOMAIN t, t[i] = x PROVE Has(s, x) /\ x # e
      <4> DEFINE p == IF i < n THEN i ELSE i + 1
      <4>1. p \in DOMAIN s /\ s[p] = x /\ p # n
            BY <2>3, <2>4, <3>1
      <4> HIDE DEF p
      <4>2. QED
            BY <2>1, <4>1 DEF Has, IsInjective
    <3>2. ASSUME NEW i \in DOMAIN s, s[i] = x, x # e PROVE Has(t, x)
      <4> DEFINE p == IF i < n THEN i ELSE i - 1
      <4>1. p \in DOMAIN t /\ t[p] = x
            BY <2>1, <2>3, <2>4, <3>2
      <4> HIDE DEF p
      <4>2. QED
            BY <4>1 DEF Has
    <3>3. QED
          BY <3>1, <3>2 DEF Has
  <2>7. QED
        BY <2>2, <2>4, <2>5, <2>6
<1>3. QED
      BY <1>1, <1>2

LEMMA WithoutHead ==
  ASSUME NEW S, NEW s \in Seq(S), NEW e, IsInjective(s), s # <<>>, Head(s) # e
  PROVE  Without(s, e) # <<>> /\ Head(Without(s, e)) = Head(s)
<1>1. CASE ~Has(s, e)
      BY <1>1 DEF Without, Has
<1>2. CASE Has(s, e)
  <2> DEFINE n == CHOOSE i \in DOMAIN s : s[i] = e
             t == RemoveAt(s, n)
  <2>1. n \in DOMAIN s /\ s[n] = e
        BY <1>2 DEF Has
  <2>2. Without(s, e) = t
        BY <1>2 DEF Without, Has
  <2> HIDE DEF n
  <2>3. /\ t \in Seq(S) /\ DOMAIN t = 1..(Len(s) - 1)
        /\ \A i \in DOMAIN t : t[i] = IF i < n THEN s[i] ELSE s[i + 1]
        BY <2>1, RemoveAtIs
  <2> HIDE DEF t
  <2>4. n \in 1..Len(s) /\ n # 1 /\ Len(s) \in Nat
        BY <2>1
  <2>5. 1 \in DOMAIN t /\ t[1] = s[1]
        BY <2>3, <2>4
  <2>6. QED
        BY <2>2, <2>3, <2>5
<1>3. QED
      BY <1>1, <1>2

-----------------------------------------------------------------------------
(***************************************************************************)
(* The inductive invariant.  It says of the task what each step of         *)
(* Cancel() may rely on: alive and the coroutine's handle agree but for    *)
(* the moment between Dispose() and the end of Cancel(), and a task that   *)
(* was restarted under Cancel()'s hands is driven like any other.          *)
(***************************************************************************)
SeqsOK ==
  /\ inject \in Seq(Events) /\ IsInjective(inject)
  /\ queue \in Seq(Items) /\ IsInjective(queue)

(* There is one BlockingCall() at most, while Cancel() waits for it. *)
CallOK ==
  /\ Has(inject, "call") => caller = "waiting" /\ running # "call"
  /\ running = "call" => caller = "waiting"

AliveOK ==
  /\ task # None => alive
  /\ alive => task # None \/ (caller = "finish" /\ ~restarted)
  /\ caller = "finish" /\ ~restarted => task = None

(* Cancel() has read generation, and will respect a restart. *)
Respects == caller \in {"out", "test"} \/ (restarted /\ caller \in {"post", "waiting", "finish"})

Driven == Has(inject, "task") \/ running = "task" \/ begun

DrivenOK == alive /\ Respects => Driven

MainOK ==
  /\ shutting_down <=> main \in {"stop", "clear", "down"}
  /\ caller # "out" => main \in {"cancel", "stop"}
  /\ main = "starting" => queue # <<>> /\ ~alive /\ ~started
  /\ main \in {"clear", "down"} => ~alive
  /\ main = "stop" /\ caller = "out" => ~alive
  /\ main = "stop" /\ caller \in {"post", "waiting", "finish"} => ~restarted
  /\ main = "down" => queue = <<>>

IInv == SeqsOK /\ CallOK /\ AliveOK /\ DrivenOK /\ MainOK

LEMMA InitOK == Init => IInv
<1> SUFFICES ASSUME Init PROVE IInv
    OBVIOUS
<1>1. inject = <<>> /\ queue = <<>> /\ running = Nobody
      BY DEF Init, TaskInit, QueueInit
<1>2. ~alive /\ task = None /\ caller = "out" /\ main = "idle" /\ ~shutting_down
      BY DEF Init, TaskInit
<1>3. SeqsOK
      BY <1>1 DEF SeqsOK, IsInjective
<1>4. ~Has(inject, "call")
      BY <1>1 DEF Has
<1>5. running # "call"
      BY <1>1, QueueAssumption, TaskAssumption
<1>6. QED
      BY <1>2, <1>3, <1>4, <1>5 DEF IInv, CallOK, AliveOK, DrivenOK, MainOK

-----------------------------------------------------------------------------
(* Schedule() of an event, in the words of the lemmas above.               *)
LEMMA ScheduledHas ==
  ASSUME SeqsOK, NEW x \in Events, inject' = Scheduled(x)
  PROVE  /\ inject' \in Seq(Events) /\ IsInjective(inject')
         /\ \A e : Has(inject', e) <=> Has(inject, e) \/ x = e
<1>1. CASE Has(inject, x)
  <2>1. inject' = inject
        BY <1>1 DEF Scheduled, IsPending, Has
  <2>2. QED
        BY <1>1, <2>1 DEF SeqsOK
<1>2. CASE ~Has(inject, x)
  <2>1. inject' = Append(inject, x)
        BY <1>2 DEF Scheduled, IsPending, Has
  <2>2. QED
        BY <1>2, <2>1, AppendHas DEF SeqsOK
<1>3. QED
      BY <1>1, <1>2

(* Start() of a file's download, when nothing is alive. *)
LEMMA Starts ==
  ASSUME IInv, NEW item \in Items, Start(item), UNCHANGED <<running, caller>>,
         queue' \in Seq(Items), IsInjective(queue')
  PROVE  SeqsOK' /\ CallOK' /\ AliveOK' /\ DrivenOK'
<1>1. /\ inject' \in Seq(Events) /\ IsInjective(inject')
      /\ \A e : Has(inject', e) <=> Has(inject, e) \/ "task" = e
      BY TaskAssumption, ScheduledHas DEF Start, IInv
<1>2. SeqsOK'
      BY <1>1 DEF SeqsOK
<1>3. CallOK'
      BY <1>1 DEF CallOK, IInv
<1>4. AliveOK'
      BY TaskAssumption DEF Start, AliveOK
<1>5. DrivenOK'
      BY <1>1 DEF DrivenOK, Driven
<1>6. QED
      BY <1>2, <1>3, <1>4, <1>5

(* Steps that leave the task alone, and Cancel() or CancelTask at most. *)
LEMMA TaskStays ==
  ASSUME IInv, UNCHANGED <<inject, running, alive, task, begun, restarted>>,
         caller' = caller \/ (caller = "out" /\ caller' = "test")
  PROVE  CallOK' /\ AliveOK' /\ DrivenOK'
<1>1. CallOK'
      BY DEF IInv, CallOK, Has
<1>2. AliveOK'
      BY DEF IInv, AliveOK
<1>3. DrivenOK'
      BY DEF IInv, DrivenOK, Driven, Respects, Has
<1>4. QED
      BY <1>1, <1>2, <1>3

-----------------------------------------------------------------------------
(* What removing a file makes of the queue. *)
LEMMA QueueWithout ==
  ASSUME SeqsOK, NEW p
  PROVE  Without(queue, p) \in Seq(Items) /\ IsInjective(Without(queue, p))
BY WithoutHas DEF SeqsOK

(* The main thread's steps outside of task.Cancel(). *)
LEMMA StepUser ==
  ASSUME IInv, UserActs
  PROVE  IInv'
<1> USE DEF MainAt, others, queueVars, taskVars
<1>1. ASSUME NEW p \in Items, Enqueue(p) PROVE IInv'
  <2>1. queue' \in Seq(Items) /\ IsInjective(queue') /\ queue' # <<>>
        BY <1>1, AppendHas DEF Enqueue, IInv, SeqsOK, InQueue, Has
  <2>2. SeqsOK'
        BY <1>1, <2>1 DEF Enqueue, IInv, SeqsOK
  <2>3. CallOK' /\ AliveOK' /\ DrivenOK'
        BY <1>1, TaskStays DEF Enqueue
  <2>4. MainOK'
        BY <1>1, <2>1 DEF Enqueue, IInv, MainOK, IsIdle
  <2>5. QED
        BY <2>2, <2>3, <2>4 DEF IInv
<1>2. ASSUME NEW p \in Items, Cancel_(p) PROVE IInv'
  <2>1. SeqsOK'
        BY <1>2, QueueWithout DEF Cancel_, IInv, SeqsOK
  <2>2. CallOK' /\ AliveOK' /\ DrivenOK'
        BY <1>2, TaskStays DEF Cancel_
  <2>3. MainOK'
        BY <1>2 DEF Cancel_, IInv, MainOK
  <2>4. QED
        BY <2>1, <2>2, <2>3 DEF IInv
<1>3. CASE BeginShutdown
  <2>1. caller = "out" /\ (caller' = caller \/ caller' = "test")
        BY <1>3 DEF BeginShutdown, CancelTask, IInv, MainOK
  <2>2. CallOK' /\ AliveOK' /\ DrivenOK'
        BY <1>3, <2>1, TaskStays DEF BeginShutdown
  <2>3. MainOK'
        BY <1>3, <2>1 DEF BeginShutdown, CancelTask, IInv, MainOK
  <2>4. QED
        BY <1>3, <2>2, <2>3 DEF BeginShutdown, IInv, SeqsOK
<1>4. QED
      BY <1>1, <1>2, <1>3 DEF UserActs

LEMMA StepMain ==
  ASSUME IInv, MainGoesOn
  PROVE  IInv'
<1> USE DEF MainAt, others, queueVars, taskVars
<1>1. CASE MainStarts
  <2>1. ~shutting_down /\ queue # <<>> /\ queue \in Seq(Items)
        BY <1>1 DEF MainStarts, IInv, MainOK, SeqsOK
  <2>2. Start(Head(queue)) /\ Head(queue) \in Items
        BY <1>1, <2>1 DEF MainStarts, StartFirst
  <2>3. SeqsOK' /\ CallOK' /\ AliveOK' /\ DrivenOK'
        BY <1>1, <2>2, Starts DEF MainStarts, rest, IInv, SeqsOK
  <2>4. MainOK'
        BY <1>1 DEF MainStarts, rest, IInv, MainOK
  <2>5. QED
        BY <2>3, <2>4 DEF IInv
<1>2. CASE TestTask
      BY <1>2, TaskStays DEF TestTask, IInv, SeqsOK, MainOK
<1>3. CASE Recheck
  <2>1. caller = "out" /\ (caller' = caller \/ caller' = "test")
        BY <1>3 DEF Recheck, CancelTask, IInv, MainOK
  <2>2. SeqsOK'
        BY <1>3, QueueWithout DEF Recheck, IInv, SeqsOK
  <2>3. CallOK' /\ AliveOK' /\ DrivenOK'
        BY <1>3, <2>1, TaskStays DEF Recheck
  <2>4. MainOK'
        BY <1>3, <2>1 DEF Recheck, CancelTask, IInv, MainOK
  <2>5. QED
        BY <2>2, <2>3, <2>4 DEF IInv
<1>4. CASE Erase
  <2>1. SeqsOK'
        BY <1>4, QueueWithout DEF Erase, IInv, SeqsOK
  <2>2. CallOK' /\ AliveOK' /\ DrivenOK'
        BY <1>4, TaskStays DEF Erase
  <2>3. MainOK'
        BY <1>4 DEF Erase, IInv, MainOK
  <2>4. QED
        BY <2>1, <2>2, <2>3 DEF IInv
<1>5. CASE Stopped
      BY <1>5, TaskStays DEF Stopped, IInv, SeqsOK, MainOK
<1>6. CASE ClearQueue
  <2>1. SeqsOK'
        BY <1>6 DEF ClearQueue, IInv, SeqsOK, IsInjective
  <2>2. CallOK' /\ AliveOK' /\ DrivenOK'
        BY <1>6, TaskStays DEF ClearQueue
  <2>3. MainOK'
        BY <1>6 DEF ClearQueue, IInv, MainOK
  <2>4. QED
        BY <2>1, <2>2, <2>3 DEF IInv
<1>7. QED
      BY <1>1, <1>2, <1>3, <1>4, <1>5, <1>6 DEF MainGoesOn

(* The I/O thread takes the next file, or nothing if it is shut down.      *)
LEMMA StepCompletion ==
  ASSUME IInv, OnCompletion
  PROVE  IInv'
<1>0. UNCHANGED <<running, caller, main, shutting_down>> /\ main # "starting"
      BY DEF OnCompletion, rest, MutexIsFree
<1>1. CASE queue = <<>>
  <2>1. UNCHANGED <<queue, started, alive, task, begun, restarted, inject>>
        BY <1>1 DEF OnCompletion, NotStarted
  <2>2. CallOK' /\ AliveOK' /\ DrivenOK'
        BY <1>0, <2>1, TaskStays
  <2>3. QED
        BY <1>0, <2>1, <2>2 DEF IInv, SeqsOK, MainOK
<1>2. CASE queue # <<>>
  <2>1. queue' = Tail(queue) /\ StartNext(Tail(queue))
        BY <1>2 DEF OnCompletion
  <2>2. queue' \in Seq(Items) /\ IsInjective(queue')
        BY <1>2, <2>1, TailHas DEF IInv, SeqsOK
  <2>3. CASE NotStarted
    <3>1. UNCHANGED <<alive, task, begun, restarted, inject>>
          BY <2>3 DEF NotStarted
    <3>2. CallOK' /\ AliveOK' /\ DrivenOK'
          BY <1>0, <3>1, TaskStays
    <3>3. MainOK'
          BY <1>0, <1>2, <3>1 DEF IInv, MainOK
    <3>4. QED
          BY <2>2, <3>1, <3>2, <3>3 DEF IInv, SeqsOK
  <2>4. CASE ~NotStarted
    <3>1. ~shutting_down /\ Tail(queue) # <<>> /\ Start(Head(Tail(queue)))
          BY <2>1, <2>4 DEF StartNext, StartFirst
    <3>2. Head(Tail(queue)) \in Items
          BY <2>1, <2>2, <3>1
    <3>3. SeqsOK' /\ CallOK' /\ AliveOK' /\ DrivenOK'
          BY <1>0, <2>2, <3>1, <3>2, Starts
    <3>4. MainOK'
          BY <1>0, <1>2, <3>1 DEF IInv, MainOK
    <3>5. QED
          BY <3>3, <3>4 DEF IInv
  <2>5. QED
        BY <2>3, <2>4
<1>3. QED
      BY <1>1, <1>2

-----------------------------------------------------------------------------
(* The steps of task.Cancel(): it ends with a task that is dead, or one    *)
(* that was restarted and that somebody drives.                            *)
LEMMA StepCancel ==
  ASSUME IInv, CancelStep, UNCHANGED <<queue, started, shutting_down, main>>
  PROVE  IInv'
<1>0. main \in {"cancel", "stop"}
      BY DEF CancelStep, TestAlive, Uninject, LoadGeneration, PostCall, CancelFinishes,
             IInv, MainOK
<1> USE DEF queueVars, rest
<1>1. CASE TestAlive
  <2>1. AliveOK' /\ CallOK'
        BY <1>1 DEF TestAlive, IInv, AliveOK, CallOK, Has
  <2>2. DrivenOK'
        BY <1>1 DEF TestAlive, IInv, DrivenOK, Driven, Respects, Has
  <2>3. MainOK'
        BY <1>0, <1>1 DEF TestAlive, IInv, MainOK
  <2>4. QED
        BY <1>1, <2>1, <2>2, <2>3 DEF TestAlive, IInv, SeqsOK
<1>2. CASE Uninject
  <2>1. /\ inject' \in Seq(Events) /\ IsInjective(inject')
        /\ \A x : Has(inject', x) => Has(inject, x)
        BY <1>2, WithoutHas DEF Uninject, Cancelled, IInv, SeqsOK
  <2>2. SeqsOK' /\ CallOK'
        BY <1>2, <2>1 DEF Uninject, IInv, SeqsOK, CallOK
  <2>3. AliveOK'
        BY <1>2 DEF Uninject, IInv, AliveOK
  <2>4. DrivenOK'
        BY <1>2 DEF Uninject, DrivenOK, Respects
  <2>5. MainOK'
        BY <1>0, <1>2 DEF Uninject, IInv, MainOK
  <2>6. QED
        BY <2>2, <2>3, <2>4, <2>5 DEF IInv
<1>3. CASE LoadGeneration
  <2>1. AliveOK' /\ CallOK'
        BY <1>3 DEF LoadGeneration, IInv, AliveOK, CallOK, Has
  <2>2. DrivenOK'
        BY <1>3 DEF LoadGeneration, DrivenOK, Respects
  <2>3. MainOK'
        BY <1>0, <1>3 DEF LoadGeneration, IInv, MainOK
  <2>4. QED
        BY <1>3, <2>1, <2>2, <2>3 DEF LoadGeneration, IInv, SeqsOK
<1>4. CASE PostCall
  <2>1. /\ inject' \in Seq(Events) /\ IsInjective(inject')
        /\ \A e : Has(inject', e) <=> Has(inject, e) \/ "call" = e
        BY <1>4, TaskAssumption, ScheduledHas DEF PostCall, IInv
  <2>2. SeqsOK'
        BY <1>4, <2>1 DEF PostCall, IInv, SeqsOK
  <2>3. CallOK'
        BY <1>4 DEF PostCall, IInv, CallOK
  <2>4. AliveOK'
        BY <1>4 DEF PostCall, IInv, AliveOK
  <2>5. DrivenOK'
        BY <1>4, <2>1 DEF PostCall, IInv, DrivenOK, Driven, Respects
  <2>6. MainOK'
        BY <1>0, <1>4 DEF PostCall, IInv, MainOK
  <2>7. QED
        BY <2>2, <2>3, <2>4, <2>5, <2>6 DEF IInv
<1>5. CASE CancelFinishes
  <2>1. CallOK'
        BY <1>5 DEF CancelFinishes, IInv, CallOK, Has
  <2>2. AliveOK'
        BY <1>5 DEF CancelFinishes, IInv, AliveOK
  <2>3. DrivenOK'
        BY <1>5 DEF CancelFinishes, IInv, DrivenOK, Driven, Respects, Has
  <2>4. MainOK'
        BY <1>0, <1>5 DEF CancelFinishes, IInv, MainOK
  <2>5. QED
        BY <1>5, <2>1, <2>2, <2>3, <2>4 DEF CancelFinishes, IInv, SeqsOK
<1>6. QED
      BY <1>1, <1>2, <1>3, <1>4, <1>5 DEF CancelStep

(* The loop's steps: Dispose() takes away the coroutine that Cancel() has  *)
(* seen, and none that was started since.                                  *)
LEMMA StepLoop ==
  ASSUME IInv, TaskStep, UNCHANGED <<queue, started, shutting_down, main>>
  PROVE  IInv'
<1>1. CASE TakeEvent
  <2>1. /\ inject # <<>> /\ running = Nobody /\ running' = Head(inject) /\ inject' = Tail(inject)
        /\ UNCHANGED <<alive, task, begun, restarted, caller>>
        BY <1>1 DEF TakeEvent, TakeFirst, LoopIsFree, taskVars
  <2>2. /\ inject' \in Seq(Events) /\ IsInjective(inject')
        /\ \A e : Has(inject, e) <=> Has(inject', e) \/ running' = e
        /\ ~Has(inject', running')
        BY <2>1, TailHas DEF IInv, SeqsOK
  <2>3. running \notin {"task", "call"}
        BY <2>1, QueueAssumption, TaskAssumption
  <2>4. SeqsOK'
        BY <2>2 DEF IInv, SeqsOK
  <2>5. CallOK'
        BY <2>1, <2>2 DEF IInv, CallOK
  <2>6. AliveOK'
        BY <2>1 DEF IInv, AliveOK
  <2>7. DrivenOK'
        BY <2>1, <2>2, <2>3 DEF IInv, DrivenOK, Driven, Respects
  <2>8. MainOK'
        BY <2>1 DEF IInv, MainOK
  <2>9. QED
        BY <2>4, <2>5, <2>6, <2>7, <2>8 DEF IInv
<1>2. CASE OnInject
  <2>1. /\ running = "task" /\ running' = Nobody /\ begun' = (alive /\ task # None)
        /\ UNCHANGED <<inject, alive, task, restarted, caller>>
        BY <1>2 DEF OnInject
  <2>2. CallOK'
        BY <2>1, QueueAssumption, TaskAssumption DEF IInv, CallOK, Has
  <2>3. AliveOK'
        BY <2>1 DEF IInv, AliveOK
  <2>4. alive /\ Respects => task # None
        BY DEF IInv, AliveOK, Respects
  <2>5. Respects' = Respects
        BY <2>1 DEF Respects
  <2>6. DrivenOK'
        BY <2>1, <2>4, <2>5 DEF DrivenOK, Driven
  <2>7. MainOK'
        BY <2>1 DEF IInv, MainOK
  <2>8. QED
        BY <2>1, <2>2, <2>3, <2>6, <2>7 DEF IInv, SeqsOK
<1>3. CASE Dispose
  <2>1. /\ running = "call" /\ running' = Nobody /\ caller = "waiting" /\ caller' = "finish"
        /\ UNCHANGED <<inject, alive, restarted>>
        /\ IF restarted THEN UNCHANGED <<task, begun>> ELSE task' = None
        BY <1>3 DEF Dispose, IInv, CallOK
  <2>2. CallOK'
        BY <2>1, QueueAssumption, TaskAssumption DEF IInv, CallOK, Has
  <2>3. AliveOK'
        BY <2>1 DEF IInv, AliveOK
  <2>4. DrivenOK'
        BY <2>1 DEF IInv, DrivenOK, Driven, Respects, Has
  <2>5. MainOK'
        BY <2>1 DEF IInv, MainOK
  <2>6. QED
        BY <2>1, <2>2, <2>3, <2>4, <2>5 DEF IInv, SeqsOK
<1>4. CASE CoroutineEnds
  <2>1. /\ ~alive' /\ task' = None
        /\ UNCHANGED <<inject, running, restarted, caller>>
        BY <1>4 DEF CoroutineEnds, queueVars
  <2>2. SeqsOK' /\ CallOK' /\ AliveOK' /\ DrivenOK'
        BY <2>1 DEF IInv, SeqsOK, CallOK, AliveOK, DrivenOK, Has
  <2>3. MainOK'
        BY <2>1 DEF IInv, MainOK
  <2>4. QED
        BY <2>2, <2>3 DEF IInv
<1>5. QED
      BY <1>1, <1>2, <1>3, <1>4 DEF TaskStep

LEMMA StepOK == IInv /\ [Next]_vars => IInv'
<1> SUFFICES ASSUME IInv, [Next]_vars PROVE IInv'
    OBVIOUS
<1>1. CASE TaskRuns
      BY <1>1, StepCancel, StepLoop DEF TaskRuns
<1>2. CASE CallbackReturns \/ UNCHANGED vars
  <2>1. /\ UNCHANGED <<inject, running, alive, task, begun, restarted, caller>>
        /\ UNCHANGED <<queue, started, shutting_down, main>>
        BY <1>2 DEF CallbackReturns, vars, queueVars, taskVars, managerVars
  <2>2. CallOK' /\ AliveOK' /\ DrivenOK'
        BY <2>1, TaskStays
  <2>3. QED
        BY <2>1, <2>2 DEF IInv, SeqsOK, MainOK
<1>3. QED
      BY <1>1, <1>2, StepUser, StepMain, StepCompletion DEF Next

-----------------------------------------------------------------------------
(* No download is running or about to be started by the other thread when  *)
(* the main thread starts one: what Start() and its callers assert.        *)
THEOREM StartsAreAsAsserted == Spec => []StartAssertionsHold
<1>1. IInv => StartAssertionsHold
      BY DEF IInv, MainOK, AliveOK, StartAssertionsHold
<1>2. QED
      BY <1>1, InitOK, StepOK, PTL DEF Spec

(* No interleaving of Start(), Cancel() and the loop leaves a task that is *)
(* alive and that nobody will ever resume.                                 *)
THEOREM NoTaskIsForgotten == Spec => []AliveIsDriven
<1>1. IInv => AliveIsDriven
  <2>1. DrivenOK => AliveIsDriven
        BY DEF DrivenOK, Respects, Driven, AliveIsDriven, IsPending, Has
  <2>2. QED
        BY <2>1 DEF IInv
<1>2. QED
      BY <1>1, InitOK, StepOK, PTL DEF Spec

(* When BeginShutdown() has returned nothing is downloaded, and a          *)
(* completion that comes late starts nothing.                              *)
THEOREM NothingAfterShutdown == Spec => []ShutdownIsFinal
<1>1. IInv => ShutdownIsFinal
      BY DEF IInv, MainOK, AliveOK, ShutdownIsFinal
<1>2. QED
      BY <1>1, InitOK, StepOK, PTL DEF Spec

-----------------------------------------------------------------------------
(***************************************************************************)
(* Which file the I/O thread works on.  The manager does not remember it:  *)
(* it takes the first of the queue for it.  Until a Cancel() or a          *)
(* BeginShutdown() has met a completion (raced), that is right, and no     *)
(* file is left in the queue without a download or a completion that will  *)
(* start its own.                                                          *)
(***************************************************************************)
IsHead(p) == queue # <<>> /\ Head(queue) = p

(* A coroutine has a handle, and OnCompletion() is in the callback.        *)
RoundOK ==
  /\ queue \in Seq(Items) /\ IsInjective(queue)
  /\ told # None => callback # None
  /\ begun => task # None

HeadOK ==
  /\ InFlight => IsHead(callback) /\ started /\ ~alive
  /\ task # None => IsHead(task) /\ started

(* What Cancel() may rely on while it has given up the mutex: its file is  *)
(* the first or gone, and it is gone when a later download was started.    *)
ErasureOK ==
  main = "cancel" =>
    /\ path # None
    /\ InQueue(path) => IsHead(path)
    /\ caller \in {"post", "waiting", "finish"} /\ restarted => ~InQueue(path)
    /\ caller = "out" /\ alive => ~InQueue(path)
    /\ caller = "finish" /\ ~restarted /\ alive => InQueue(path)

Busy == alive \/ InFlight

(* The places from which the main thread starts no download by itself.     *)
LeavesItToOthers ==
  main \in {"idle", "test", "recheck"} \/ (main = "cancel" /\ ~InQueue(path))

WaitingOK == LeavesItToOthers /\ (queue # <<>> \/ started) => Busy

Calm == ~raced /\ ~aborted

CalmInv == Calm => HeadOK /\ ErasureOK /\ WaitingOK

OnlyRacesAbort == aborted => raced

LEMMA RacedBefore == [Next]_vars /\ ~raced' => ~raced
<1> SUFFICES ASSUME [Next]_vars, ~raced' PROVE ~raced
    OBVIOUS
<1>1. CASE Erase
      BY <1>1 DEF Erase
<1>2. CASE ClearQueue
      BY <1>2 DEF ClearQueue
<1>3. CASE MainStarts \/ TestTask \/ Recheck \/ Stopped
      BY <1>3 DEF MainStarts, TestTask, Recheck, Stopped
<1>4. CASE UserActs
      BY <1>4 DEF UserActs, BeginShutdown, Enqueue, Cancel_
<1>5. CASE TaskRuns
      BY <1>5 DEF TaskRuns
<1>6. CASE OnCompletion \/ CallbackReturns \/ UNCHANGED vars
      BY <1>6 DEF OnCompletion, CallbackReturns, vars, managerVars
<1>7. QED
      BY <1>1, <1>2, <1>3, <1>4, <1>5, <1>6 DEF Next, MainGoesOn

LEMMA AbortsAlone == [Next]_vars /\ ~OnCompletion => UNCHANGED aborted
<1> SUFFICES ASSUME [Next]_vars, ~OnCompletion PROVE UNCHANGED aborted
    OBVIOUS
<1>1. CASE MainGoesOn
      BY <1>1 DEF MainGoesOn, MainStarts, TestTask, Recheck, Erase, Stopped, ClearQueue, others
<1>2. CASE UserActs
      BY <1>2 DEF UserActs, BeginShutdown, Enqueue, Cancel_, others
<1>3. CASE TaskRuns \/ CallbackReturns \/ UNCHANGED vars
      BY <1>3 DEF TaskRuns, CallbackReturns, vars, managerVars
<1>4. QED
      BY <1>1, <1>2, <1>3 DEF Next

LEMMA CalmBefore == [Next]_vars /\ Calm' => Calm
<1>1. OnCompletion => ~aborted
      BY DEF OnCompletion
<1>2. QED
      BY <1>1, RacedBefore, AbortsAlone DEF Calm

LEMMA StepRound == IInv /\ RoundOK /\ [Next]_vars => RoundOK'
<1> SUFFICES ASSUME IInv, RoundOK, [Next]_vars PROVE RoundOK'
    OBVIOUS
<1>0. queue' \in Seq(Items) /\ IsInjective(queue')
      BY StepOK DEF IInv, SeqsOK
<1>1. CASE MainGoesOn \/ UserActs
  <2>1. UNCHANGED <<told, callback>> /\ (begun' => UNCHANGED <<begun, task>>)
        BY <1>1 DEF MainGoesOn, UserActs, MainStarts, StartFirst, Start, NotStarted, TestTask,
           Recheck, Erase, Stopped, ClearQueue, BeginShutdown, Enqueue, Cancel_, others, taskVars
  <2>2. QED
        BY <1>0, <2>1 DEF RoundOK
<1>2. CASE TaskRuns
  <2>1. CASE CancelStep
    <3>1. UNCHANGED <<told, callback, begun, task>>
          BY <1>2, <2>1 DEF TaskRuns, CancelStep, TestAlive, Uninject, LoadGeneration, PostCall,
             CancelFinishes
    <3>2. QED
          BY <1>0, <3>1 DEF RoundOK
  <2>2. CASE TakeEvent \/ OnInject \/ Dispose
    <3>1. UNCHANGED <<told, callback>> /\ (begun' => task' # None)
          BY <1>2, <2>2 DEF TaskRuns, TakeEvent, OnInject, Dispose, taskVars, RoundOK
    <3>2. QED
          BY <1>0, <3>1 DEF RoundOK
  <2>3. CASE CoroutineEnds
    <3>1. ~begun' /\ callback = None /\ UNCHANGED told
          BY <1>2, <2>3 DEF TaskRuns, CoroutineEnds, LoopIsFree
    <3>2. QED
          BY <1>0, <3>1 DEF RoundOK
  <2>4. QED
        BY <1>2, <2>1, <2>2, <2>3 DEF TaskRuns, TaskStep
<1>3. CASE OnCompletion
  <2>1. InFlight /\ UNCHANGED callback /\ (begun' => UNCHANGED <<begun, task>>)
        BY <1>3 DEF OnCompletion, StartNext, StartFirst, Start, NotStarted
  <2>2. QED
        BY <1>0, <2>1 DEF RoundOK, InFlight
<1>4. CASE CallbackReturns \/ UNCHANGED vars
      BY <1>0, <1>4 DEF CallbackReturns, vars, taskVars, managerVars, RoundOK
<1>5. QED
      BY <1>1, <1>2, <1>3, <1>4 DEF Next

LEMMA HeadIsIn ==
  ASSUME RoundOK, NEW p, IsHead(p)
  PROVE  InQueue(p) /\ p \in Items
<1>1. queue \in Seq(Items) /\ queue # <<>> /\ p = Head(queue)
      BY DEF RoundOK, IsHead
<1>2. 1 \in DOMAIN queue /\ queue[1] = p /\ p \in Items
      BY <1>1
<1>3. QED
      BY <1>2 DEF InQueue

(* A file that is not the first is removed: the first stays. *)
LEMMA RemovedBehind ==
  ASSUME RoundOK, NEW p, ~IsHead(p), queue' = Without(queue, p)
  PROVE  /\ queue # <<>> => queue' # <<>> /\ Head(queue') = Head(queue)
         /\ queue = <<>> => queue' = <<>>
<1>1. CASE queue = <<>>
      BY <1>1 DEF Without
<1>2. CASE queue # <<>>
  <2>1. queue \in Seq(Items) /\ IsInjective(queue) /\ Head(queue) # p
        BY <1>2 DEF RoundOK, IsHead
  <2>2. Without(queue, p) # <<>> /\ Head(Without(queue, p)) = Head(queue)
        BY <1>2, <2>1, WithoutHead
  <2>3. QED
        BY <1>2, <2>2
<1>3. QED
      BY <1>1, <1>2

(* Steps that leave the task and the callback alone, and the first file.   *)
LEMMA HeadStays ==
  ASSUME HeadOK, UNCHANGED <<task, alive, callback, told, started>>,
         queue # <<>> => queue' # <<>> /\ Head(queue') = Head(queue)
  PROVE  HeadOK' /\ (Busy' <=> Busy)
BY DEF HeadOK, InFlight, IsHead, Busy

LEMMA CalmUser ==
  ASSUME IInv, RoundOK, HeadOK, ErasureOK, WaitingOK, UserActs
  PROVE  HeadOK' /\ ErasureOK' /\ WaitingOK'
<1> USE DEF MainAt, others, queueVars, taskVars
<1>1. ASSUME NEW p \in Items, Enqueue(p) PROVE HeadOK' /\ ErasureOK' /\ WaitingOK'
  <2>1. /\ UNCHANGED <<task, alive, callback, told, started>>
        /\ main = "idle" /\ main' \in {"idle", "starting"}
        /\ main' = "idle" => alive \/ started
        BY <1>1 DEF Enqueue, IsIdle
  <2>2. queue # <<>> => queue' # <<>> /\ Head(queue') = Head(queue)
        BY <1>1, AppendHas DEF Enqueue, RoundOK
  <2>3. HeadOK' /\ (Busy' <=> Busy)
        BY <2>1, <2>2, HeadStays
  <2>4. ErasureOK'
        BY <2>1 DEF ErasureOK
  <2>5. WaitingOK'
        BY <2>1, <2>3 DEF WaitingOK, LeavesItToOthers, Busy
  <2>6. QED
        BY <2>3, <2>4, <2>5
<1>2. ASSUME NEW p \in Items, Cancel_(p) PROVE HeadOK' /\ ErasureOK' /\ WaitingOK'
  <2>1. /\ UNCHANGED <<task, alive, callback, told, started>>
        /\ main = "idle" /\ main' \in {"idle", "test"}
        BY <1>2 DEF Cancel_
  <2>2. queue' = queue \/ (~IsHead(p) /\ queue' = Without(queue, p))
        BY <1>2 DEF Cancel_, IsHead
  <2>3. /\ queue # <<>> => queue' # <<>> /\ Head(queue') = Head(queue)
        /\ queue = <<>> => queue' = <<>>
        BY <2>2, RemovedBehind
  <2>4. HeadOK' /\ (Busy' <=> Busy)
        BY <2>1, <2>3, HeadStays
  <2>5. ErasureOK' /\ WaitingOK'
        BY <2>1, <2>3, <2>4 DEF ErasureOK, WaitingOK, LeavesItToOthers
  <2>6. QED
        BY <2>4, <2>5
<1>3. CASE BeginShutdown
  <2>1. /\ UNCHANGED <<task, alive, callback, told, started, queue>>
        /\ main' \in {"stop", "clear"}
        BY <1>3 DEF BeginShutdown
  <2>2. HeadOK'
        BY <2>1, HeadStays
  <2>3. QED
        BY <2>1, <2>2 DEF ErasureOK, WaitingOK, LeavesItToOthers
<1>4. QED
      BY <1>1, <1>2, <1>3 DEF UserActs

LEMMA CalmMain ==
  ASSUME IInv, RoundOK, HeadOK, ErasureOK, WaitingOK, MainGoesOn, Calm'
  PROVE  HeadOK' /\ ErasureOK' /\ WaitingOK'
<1> USE DEF MainAt, others, queueVars, taskVars
<1>1. CASE MainStarts
  <2>1. queue # <<>> /\ ~started /\ ~shutting_down
        BY <1>1 DEF MainStarts, IInv, MainOK
  <2>2. /\ task' = Head(queue) /\ alive' /\ started' /\ main' = "idle"
        /\ UNCHANGED <<queue, callback, told>>
        BY <1>1, <2>1 DEF MainStarts, StartFirst, Start
  <2>3. ~InFlight
        BY <2>1 DEF HeadOK
  <2>4. QED
        BY <2>1, <2>2, <2>3 DEF HeadOK, InFlight, IsHead, ErasureOK, WaitingOK, Busy
<1>2. CASE TestTask
  <2>1. /\ UNCHANGED <<task, alive, callback, told, started, queue>>
        /\ main = "test" /\ main' \in {"recheck", "idle"}
        BY <1>2 DEF TestTask
  <2>2. HeadOK' /\ (Busy' <=> Busy)
        BY <2>1, HeadStays
  <2>3. QED
        BY <2>1, <2>2 DEF ErasureOK, WaitingOK, LeavesItToOthers
<1>3. CASE Recheck /\ IsFirst
  <2>1. /\ UNCHANGED <<task, alive, callback, told, started, queue, path>>
        /\ main' = "cancel" /\ caller' = "test" /\ IsHead(path)
        BY <1>3 DEF Recheck, CancelTask, IsFirst, IsHead
  <2>2. InQueue(path) /\ path \in Items
        BY <2>1, HeadIsIn
  <2>3. HeadOK'
        BY <2>1, HeadStays
  <2>4. ErasureOK'
        BY <2>1, <2>2, TaskAssumption DEF ErasureOK, InQueue, IsHead
  <2>5. WaitingOK'
        BY <2>1, <2>2 DEF WaitingOK, LeavesItToOthers, InQueue
  <2>6. QED
        BY <2>3, <2>4, <2>5
<1>4. CASE Recheck /\ ~IsFirst
  <2>1. /\ UNCHANGED <<task, alive, callback, told, started>>
        /\ main = "recheck" /\ main' = "idle" /\ queue' = Without(queue, path) /\ ~IsHead(path)
        BY <1>4 DEF Recheck, IsFirst, IsHead
  <2>2. /\ queue # <<>> => queue' # <<>> /\ Head(queue') = Head(queue)
        /\ queue = <<>> => queue' = <<>>
        BY <2>1, RemovedBehind
  <2>3. HeadOK' /\ (Busy' <=> Busy)
        BY <2>1, <2>2, HeadStays
  <2>4. QED
        BY <2>1, <2>2, <2>3 DEF ErasureOK, WaitingOK, LeavesItToOthers
<1>5. CASE Erase /\ InQueue(path)
  <2>1. /\ UNCHANGED <<task, alive, callback, told>>
        /\ main = "cancel" /\ caller = "out" /\ started' = (started /\ ~InQueue(path))
        /\ raced' = (raced \/ (InFlight /\ InQueue(path)))
        /\ main' = IF InQueue(path) /\ queue' # <<>> /\ ~alive THEN "starting" ELSE "idle"
        BY <1>5 DEF Erase
  <2>2. ~alive /\ task = None
        BY <1>5, <2>1 DEF ErasureOK, IInv, AliveOK
  <2>3. ~InFlight /\ ~started'
        BY <1>5, <2>1 DEF Calm
  <2>4. main' = "starting" \/ (main' = "idle" /\ queue' = <<>>)
        BY <1>5, <2>1, <2>2
  <2>5. HeadOK'
        BY <2>1, <2>2, <2>3 DEF HeadOK, InFlight
  <2>6. ErasureOK' /\ WaitingOK'
        BY <2>3, <2>4 DEF ErasureOK, WaitingOK, LeavesItToOthers
  <2>7. QED
        BY <2>5, <2>6
<1>6. CASE Erase /\ ~InQueue(path)
  <2>1. /\ UNCHANGED <<task, alive, callback, told>>
        /\ main = "cancel" /\ main' = "idle" /\ started' = (started /\ ~InQueue(path))
        /\ queue' = Without(queue, path)
        BY <1>6 DEF Erase
  <2>2. queue' = queue
        BY <1>6, <2>1 DEF Without, InQueue
  <2>3. HeadOK' /\ (Busy' <=> Busy) /\ (started' <=> started)
        BY <1>6, <2>1, <2>2 DEF HeadOK, InFlight, IsHead, Busy
  <2>4. ErasureOK' /\ WaitingOK'
        BY <1>6, <2>1, <2>2, <2>3 DEF ErasureOK, WaitingOK, LeavesItToOthers
  <2>5. QED
        BY <2>3, <2>4
<1>7. CASE Stopped
  <2>1. /\ UNCHANGED <<task, alive, callback, told, started, queue>>
        /\ main' = "clear"
        BY <1>7 DEF Stopped
  <2>2. HeadOK'
        BY <2>1, HeadStays
  <2>3. QED
        BY <2>1, <2>2 DEF ErasureOK, WaitingOK, LeavesItToOthers
<1>8. CASE ClearQueue
  <2>1. /\ UNCHANGED <<task, alive, callback, told>>
        /\ main = "clear" /\ main' = "down" /\ raced' = (raced \/ InFlight)
        BY <1>8 DEF ClearQueue
  <2>2. ~InFlight /\ task = None
        BY <2>1 DEF Calm, IInv, MainOK, AliveOK
  <2>3. QED
        BY <2>1, <2>2 DEF HeadOK, InFlight, ErasureOK, WaitingOK, LeavesItToOthers
<1>9. QED
      BY <1>1, <1>2, <1>3, <1>4, <1>5, <1>6, <1>7, <1>8 DEF MainGoesOn

(* The file whose coroutine has ended is the first, and the next one is    *)
(* started unless the manager is shut down.                                *)
LEMMA CalmCompletion ==
  ASSUME IInv, RoundOK, HeadOK, ErasureOK, WaitingOK, OnCompletion
  PROVE  HeadOK' /\ ErasureOK' /\ WaitingOK' /\ UNCHANGED aborted
<1>1. /\ InFlight /\ IsHead(callback) /\ ~alive /\ task = None
      /\ UNCHANGED <<callback, caller, main, path, shutting_down>>
      BY DEF OnCompletion, HeadOK, IInv, AliveOK
<1>2. /\ queue # <<>> /\ told' = Head(queue) /\ queue' = Tail(queue) /\ StartNext(Tail(queue))
      /\ UNCHANGED aborted
      BY <1>1 DEF OnCompletion, IsHead
<1>3. /\ Tail(queue) \in Seq(Items) /\ Head(queue) \in Items
      /\ ~Has(Tail(queue), Head(queue))
      BY <1>2, TailHas DEF RoundOK
<1>4. ~InFlight'
      BY <1>2, <1>3, TaskAssumption DEF InFlight
<1>5. main = "cancel" => ~InQueue(path)'
      BY <1>1, <1>2, <1>3 DEF ErasureOK, InQueue, IsHead, Has
<1>6. CASE Tail(queue) # <<>> /\ ~shutting_down
  <2>1. alive' /\ task' = Head(Tail(queue)) /\ restarted' = TRUE /\ started'
        BY <1>1, <1>2, <1>6 DEF StartNext, StartFirst, Start
  <2>2. HeadOK'
        BY <1>2, <1>4, <1>6, <2>1 DEF HeadOK, IsHead
  <2>3. ErasureOK' /\ WaitingOK'
        BY <1>1, <1>5, <2>1 DEF ErasureOK, WaitingOK, Busy
  <2>4. QED
        BY <1>2, <2>2, <2>3
<1>7. CASE ~(Tail(queue) # <<>> /\ ~shutting_down)
  <2>1. UNCHANGED <<alive, task, restarted>> /\ ~started'
        BY <1>1, <1>2, <1>7 DEF StartNext, StartFirst, NotStarted
  <2>2. HeadOK'
        BY <1>1, <1>4, <2>1 DEF HeadOK
  <2>3. ErasureOK'
        BY <1>1, <1>5, <2>1 DEF ErasureOK
  <2>4. WaitingOK'
    <3>1. CASE shutting_down
          BY <1>1, <3>1 DEF IInv, MainOK, WaitingOK, LeavesItToOthers
    <3>2. CASE ~shutting_down
          BY <1>2, <1>7, <2>1, <3>2 DEF WaitingOK
    <3>3. QED
          BY <3>1, <3>2
  <2>5. QED
        BY <1>2, <2>2, <2>3, <2>4
<1>8. QED
      BY <1>6, <1>7

LEMMA CalmTask ==
  ASSUME IInv, RoundOK, HeadOK, ErasureOK, WaitingOK, TaskRuns, Calm'
  PROVE  HeadOK' /\ ErasureOK' /\ WaitingOK'
<1>0. UNCHANGED <<queue, started, main, path, told>> /\ ~KillsAnother
      BY DEF TaskRuns, Calm
<1> USE DEF queueVars, rest
<1>1. CASE TestAlive \/ Uninject \/ LoadGeneration \/ PostCall
  <2>1. /\ UNCHANGED <<task, alive, callback>>
        /\ \/ caller' = "out" /\ ~alive
           \/ caller' \in {"uninject", "load"}
           \/ caller' = "post" /\ ~restarted'
           \/ caller = "post" /\ caller' = "waiting" /\ UNCHANGED restarted
        BY <1>1 DEF TestAlive, Uninject, LoadGeneration, PostCall
  <2>2. HeadOK' /\ (Busy' <=> Busy)
        BY <1>0, <2>1, HeadStays
  <2>3. ErasureOK'
        BY <1>0, <2>1 DEF ErasureOK, InQueue, IsHead
  <2>4. WaitingOK'
        BY <1>0, <2>2 DEF WaitingOK, LeavesItToOthers, InQueue
  <2>5. QED
        BY <2>2, <2>3, <2>4
<1>2. CASE CancelFinishes
  <2>1. /\ UNCHANGED <<task, callback, restarted>>
        /\ caller = "finish" /\ caller' = "out" /\ alive' = (alive /\ restarted)
        /\ main \in {"cancel", "stop"}
        BY <1>2 DEF CancelFinishes, IInv, MainOK
  <2>2. HeadOK'
        BY <1>0, <2>1 DEF HeadOK, InFlight, IsHead
  <2>3. ErasureOK'
        BY <1>0, <2>1 DEF ErasureOK, InQueue, IsHead
  <2>4. WaitingOK'
    <3>1. CASE restarted \/ ~alive
      <4>1. Busy => Busy'
            BY <1>0, <2>1, <3>1 DEF Busy, InFlight
      <4>2. QED
            BY <1>0, <4>1 DEF WaitingOK, LeavesItToOthers, InQueue
    <3>2. CASE ~restarted /\ alive
      <4>1. ~LeavesItToOthers
            BY <2>1, <3>2 DEF ErasureOK, LeavesItToOthers
      <4>2. QED
            BY <1>0, <4>1 DEF WaitingOK, LeavesItToOthers, InQueue
    <3>3. QED
          BY <3>1, <3>2
  <2>5. QED
        BY <2>2, <2>3, <2>4
<1>3. CASE TakeEvent \/ OnInject
  <2>1. UNCHANGED <<task, alive, callback, caller, restarted>>
        BY <1>3 DEF TakeEvent, OnInject, taskVars
  <2>2. HeadOK' /\ (Busy' <=> Busy)
        BY <1>0, <2>1, HeadStays
  <2>3. ErasureOK'
        BY <1>0, <2>1 DEF ErasureOK, InQueue, IsHead
  <2>4. WaitingOK'
        BY <1>0, <2>2 DEF WaitingOK, LeavesItToOthers, InQueue
  <2>5. QED
        BY <2>2, <2>3, <2>4
<1>4. CASE Dispose
  <2>1. /\ running = "call" /\ caller = "waiting" /\ caller' = "finish"
        /\ UNCHANGED <<alive, restarted, callback>>
        /\ restarted => UNCHANGED task
        /\ ~restarted => task' = None
        BY <1>4 DEF Dispose, IInv, CallOK
  <2>2. task' = task \/ task' = None
        BY <2>1
  <2>3. HeadOK'
        BY <1>0, <2>1, <2>2 DEF HeadOK, InFlight, IsHead
  <2>4. main = "cancel" /\ ~restarted /\ alive => InQueue(path)
    <3> SUFFICES ASSUME main = "cancel", ~restarted, alive PROVE InQueue(path)
        OBVIOUS
    <3>1. task # None
          BY <2>1 DEF IInv, AliveOK
    <3>2. task = path
          BY <1>0, <2>1, <3>1 DEF KillsAnother
    <3>3. IsHead(path)
          BY <3>1, <3>2 DEF HeadOK
    <3>4. QED
          BY <3>3, HeadIsIn
  <2>5. ErasureOK'
        BY <1>0, <2>1, <2>4 DEF ErasureOK, InQueue, IsHead
  <2>6. WaitingOK'
        BY <1>0, <2>1 DEF WaitingOK, LeavesItToOthers, InQueue, Busy, InFlight
  <2>7. QED
        BY <2>3, <2>5, <2>6
<1>5. CASE CoroutineEnds
  <2>1. /\ task # None /\ alive /\ callback = None
        BY <1>5 DEF CoroutineEnds, LoopIsFree, RoundOK, IInv, AliveOK
  <2>2. /\ task' = None /\ alive' = FALSE /\ callback' = task
        /\ UNCHANGED <<restarted, caller>>
        BY <1>5, <2>1 DEF CoroutineEnds
  <2>3. IsHead(task) /\ started /\ told = None
        BY <2>1 DEF HeadOK, RoundOK
  <2>4. InFlight' /\ HeadOK'
        BY <1>0, <2>1, <2>2, <2>3 DEF HeadOK, InFlight, IsHead
  <2>5. ErasureOK'
        BY <1>0, <2>2 DEF ErasureOK, InQueue, IsHead
  <2>6. QED
        BY <2>4, <2>5 DEF WaitingOK, Busy
<1>6. QED
      BY <1>1, <1>2, <1>3, <1>4, <1>5 DEF TaskRuns, TaskStep, CancelStep

LEMMA StepCalm == IInv /\ RoundOK /\ CalmInv /\ [Next]_vars => CalmInv'
<1> SUFFICES ASSUME IInv, RoundOK, CalmInv, [Next]_vars, Calm'
             PROVE  HeadOK' /\ ErasureOK' /\ WaitingOK'
    BY DEF CalmInv
<1>1. HeadOK /\ ErasureOK /\ WaitingOK
      BY CalmBefore DEF CalmInv
<1>2. CASE CallbackReturns
  <2>1. /\ ~InFlight /\ ~InFlight'
        /\ UNCHANGED <<task, alive, started, queue, main, path, caller, restarted>>
        BY <1>2 DEF CallbackReturns, InFlight
  <2>2. QED
        BY <1>1, <2>1 DEF HeadOK, ErasureOK, WaitingOK, LeavesItToOthers, IsHead, InQueue, Busy
<1>3. CASE UNCHANGED vars
  <2>1. /\ UNCHANGED <<task, alive, callback, told, started, queue, main, path, caller, restarted>>
        BY <1>3 DEF vars, taskVars, managerVars
  <2>2. QED
        BY <1>1, <2>1
        DEF HeadOK, ErasureOK, WaitingOK, LeavesItToOthers, IsHead, InQueue, Busy, InFlight
<1>4. QED
      BY <1>1, <1>2, <1>3, CalmUser, CalmMain, CalmCompletion, CalmTask DEF Next

LEMMA StepAborts == IInv /\ RoundOK /\ CalmInv /\ OnlyRacesAbort /\ [Next]_vars => OnlyRacesAbort'
<1> SUFFICES ASSUME IInv, RoundOK, CalmInv, OnlyRacesAbort, [Next]_vars, aborted', ~raced'
             PROVE  FALSE
    BY DEF OnlyRacesAbort
<1>1. CASE OnCompletion
  <2>1. Calm
        BY <1>1 DEF OnCompletion, Calm
  <2>2. UNCHANGED aborted
        BY <1>1, <2>1, CalmCompletion DEF CalmInv
  <2>3. QED
        BY <1>1, <2>2 DEF OnCompletion
<1>2. CASE ~OnCompletion
      BY <1>2, RacedBefore, AbortsAlone DEF OnlyRacesAbort
<1>3. QED
      BY <1>1, <1>2

LEMMA InitCalm == Init => RoundOK /\ CalmInv /\ OnlyRacesAbort
<1> SUFFICES ASSUME Init PROVE RoundOK /\ CalmInv /\ OnlyRacesAbort
    OBVIOUS
<1>1. /\ queue = <<>> /\ ~started /\ main = "idle" /\ task = None /\ callback = None
      /\ told = None /\ ~aborted /\ ~begun
      BY DEF Init, TaskInit
<1>2. HeadOK /\ ErasureOK /\ WaitingOK
      BY <1>1 DEF HeadOK, InFlight, ErasureOK, WaitingOK
<1>3. QED
      BY <1>1, <1>2, InitOK DEF RoundOK, CalmInv, OnlyRacesAbort, IInv, SeqsOK

(* OnCompletion() finds its queue empty, and so fails its assertion, only  *)
(* after a Cancel() or BeginShutdown() has met a completion.               *)
THEOREM OnlyRacesFail == Spec => [](aborted => raced)
<1>1. OnlyRacesAbort => (aborted => raced)
      BY DEF OnlyRacesAbort
<1>2. QED
      BY <1>1, InitOK, InitCalm, StepOK, StepRound, StepCalm, StepAborts, PTL DEF Spec

(* Until then, the file it takes from the queue is the one whose download  *)
(* has ended.                                                              *)
THEOREM CompletesItsFile ==
  Spec => [](~raced /\ InFlight => queue # <<>> /\ Head(queue) = callback)
<1>1. CalmInv /\ OnlyRacesAbort => (~raced /\ InFlight => queue # <<>> /\ Head(queue) = callback)
      BY DEF CalmInv, OnlyRacesAbort, Calm, HeadOK, IsHead
<1>2. QED
      BY <1>1, InitOK, InitCalm, StepOK, StepRound, StepCalm, StepAborts, PTL DEF Spec

(* Until then, when no call is under way and there are files in the queue, *)
(* one is downloaded, or a completion is about to start the next: the      *)
(* queue never stands still.                                               *)
THEOREM QueueMovesOn ==
  Spec => [](~raced /\ main = "idle" /\ queue # <<>> => alive \/ InFlight)
<1>1. CalmInv /\ OnlyRacesAbort =>
        (~raced /\ main = "idle" /\ queue # <<>> => alive \/ InFlight)
      BY DEF CalmInv, OnlyRacesAbort, Calm, WaitingOK, LeavesItToOthers, Busy
<1>2. QED
      BY <1>1, InitOK, InitCalm, StepOK, StepRound, StepCalm, StepAborts, PTL DEF Spec

-----------------------------------------------------------------------------
(* Type correctness, and the loop that the task is in: nobody stops it.    *)
LEMMA StepType == IInv /\ TypeOK /\ [Next]_vars => TypeOK'
<1> SUFFICES ASSUME IInv, TypeOK, [Next]_vars PROVE TypeOK'
    OBVIOUS
<1>0. SeqsOK'
      BY StepOK DEF IInv
<1> USE DEF TypeOK, TaskTypeOK, QueueTypeOK
<1>1. CASE MainGoesOn
  <2>0. queue # <<>> => Head(queue) \in Items
        OBVIOUS
  <2>1. CASE MainStarts
    <3>1. task' \in Items /\ {alive', begun', restarted', started'} \subseteq BOOLEAN
      <4>1. queue # <<>> /\ ~shutting_down
            BY <2>1 DEF MainStarts, MainAt, IInv, MainOK
      <4>2. QED
            BY <2>0, <2>1, <4>1 DEF MainStarts, StartFirst, Start
    <3>2. QED
          BY <1>0, <2>1, <3>1 DEF MainStarts, MainPlaces, rest, SeqsOK
  <2>2. CASE TestTask
        BY <1>0, <2>2 DEF TestTask, MainPlaces, others, queueVars, taskVars, SeqsOK
  <2>3. CASE Recheck
        BY <1>0, <2>3 DEF Recheck, CancelTask, CallerPlaces, MainPlaces, queueVars, SeqsOK
  <2>4. CASE Erase
        BY <1>0, <2>4 DEF Erase, MainPlaces, others, queueVars, taskVars, SeqsOK
  <2>5. CASE Stopped
        BY <1>0, <2>5 DEF Stopped, MainPlaces, others, queueVars, taskVars, SeqsOK
  <2>6. CASE ClearQueue
        BY <1>0, <2>6 DEF ClearQueue, MainPlaces, others, queueVars, taskVars, SeqsOK
  <2>7. QED
        BY <1>1, <2>1, <2>2, <2>3, <2>4, <2>5, <2>6 DEF MainGoesOn
<1>2. CASE UserActs
  <2>1. ASSUME NEW p \in Items, Enqueue(p) PROVE TypeOK'
        BY <1>0, <2>1 DEF Enqueue, MainPlaces, others, queueVars, taskVars, SeqsOK
  <2>2. ASSUME NEW p \in Items, Cancel_(p) PROVE TypeOK'
        BY <1>0, <2>2 DEF Cancel_, MainPlaces, others, queueVars, taskVars, SeqsOK
  <2>3. CASE BeginShutdown
        BY <1>0, <2>3 DEF BeginShutdown, CancelTask, CallerPlaces, MainPlaces, queueVars, SeqsOK
  <2>4. QED
        BY <1>2, <2>1, <2>2, <2>3 DEF UserActs
<1>3. CASE TaskRuns
  <2>0. /\ UNCHANGED <<queue, started, shutting_down, main, path, told, aborted>>
        /\ raced' \in BOOLEAN
        BY <1>3 DEF TaskRuns
  <2>1. CASE TestAlive \/ LoadGeneration \/ CancelFinishes
    <3>1. /\ UNCHANGED <<queueVars, task, begun, callback>>
          /\ alive' \in BOOLEAN /\ restarted' \in BOOLEAN /\ caller' \in CallerPlaces
          BY <2>1 DEF TestAlive, LoadGeneration, CancelFinishes, CallerPlaces
    <3>2. QED
          BY <1>0, <2>0, <3>1 DEF queueVars, SeqsOK
  <2>2. CASE Uninject \/ PostCall
        BY <1>0, <2>0, <2>2 DEF Uninject, PostCall, CallerPlaces, rest, SeqsOK
  <2>3. CASE TakeEvent
    <3>1. running' \in Events
          BY <2>3 DEF TakeEvent, TakeFirst
    <3>2. QED
          BY <1>0, <2>0, <2>3, <3>1 DEF TakeEvent, taskVars, SeqsOK
  <2>4. CASE OnInject \/ Dispose
    <3>1. /\ UNCHANGED <<inject, breaking, ended, alive, restarted, callback>>
          /\ running' = Nobody
          /\ begun' \in BOOLEAN /\ task' \in Items \cup {None} /\ caller' \in CallerPlaces
          BY <2>4 DEF OnInject, Dispose, CallerPlaces
    <3>2. QED
          BY <1>0, <2>0, <3>1 DEF SeqsOK
  <2>5. CASE CoroutineEnds
        BY <1>0, <2>0, <2>5 DEF CoroutineEnds, queueVars, SeqsOK
  <2>6. QED
        BY <1>3, <2>1, <2>2, <2>3, <2>4, <2>5 DEF TaskRuns, TaskStep, CancelStep
<1>4. CASE OnCompletion
  <2>1. /\ {alive', begun', restarted', started'} \subseteq BOOLEAN
        /\ task' \in Items \cup {None} /\ told' \in Items \cup {None} /\ aborted' \in BOOLEAN
    <3>1. CASE queue = <<>>
          BY <1>4, <3>1 DEF OnCompletion, NotStarted
    <3>2. CASE queue # <<>>
      <4>1. Head(queue) \in Items /\ Tail(queue) \in Seq(Items)
            BY <3>2
      <4>2. told' = Head(queue) /\ UNCHANGED aborted /\ StartNext(Tail(queue))
            BY <1>4, <3>2 DEF OnCompletion
      <4>3. Tail(queue) # <<>> => Head(Tail(queue)) \in Items
            BY <4>1
      <4>4. QED
            BY <4>1, <4>2, <4>3 DEF StartNext, StartFirst, Start, NotStarted
    <3>3. QED
          BY <3>1, <3>2
  <2>2. QED
        BY <1>0, <1>4, <2>1 DEF OnCompletion, rest, SeqsOK
<1>5. CASE CallbackReturns
      BY <1>0, <1>5 DEF CallbackReturns, queueVars, SeqsOK
<1>6. CASE UNCHANGED vars
      BY <1>6 DEF vars, queueVars, taskVars, managerVars
<1>7. QED
      BY <1>1, <1>2, <1>3, <1>4, <1>5, <1>6 DEF Next

LEMMA InitType == Init => TypeOK
<1> SUFFICES ASSUME Init PROVE TypeOK
    OBVIOUS
<1>1. SeqsOK
      BY InitOK DEF IInv
<1>2. QED
      BY <1>1 DEF SeqsOK, Init, TaskInit, QueueInit, TypeOK, TaskTypeOK, QueueTypeOK,
         CallerPlaces, MainPlaces

(* Type correctness for any files: neither queue ever holds anything twice.*)
THEOREM TypeCorrect == Spec => []TypeOK
BY InitOK, InitType, StepOK, StepType, PTL DEF Spec

(* Each step of the manager is a step of the loop it relies on, or none:   *)
(* it asks of the loop nothing but what InjectEvent offers.                *)
LEMMA StepQueue == IInv /\ TypeOK /\ ~ended /\ [Next]_vars => [QueueNext]_queueVars /\ ~ended'
<1> SUFFICES ASSUME IInv, TypeOK, ~ended, [Next]_vars PROVE [QueueNext]_queueVars /\ ~ended'
    OBVIOUS
<1> USE DEF queueVars
<1>1. CASE MainGoesOn
  <2>1. CASE MainStarts
    <3>1. Start(Head(queue)) /\ UNCHANGED <<running, breaking, ended>>
          BY <2>1 DEF MainStarts, StartFirst, rest, MainAt, IInv, MainOK
    <3>2. Schedule("task")
          BY <3>1 DEF Start, Schedule
    <3>3. QED
          BY <3>1, <3>2, TaskAssumption DEF QueueNext
  <2>2. CASE ~MainStarts
    <3>1. UNCHANGED queueVars
          BY <1>1, <2>2 DEF MainGoesOn, TestTask, Recheck, Erase, Stopped, ClearQueue, others
    <3>2. QED
          BY <3>1
  <2>3. QED
        BY <2>1, <2>2
<1>2. CASE UserActs \/ CallbackReturns \/ UNCHANGED vars
  <2>1. UNCHANGED queueVars
        BY <1>2 DEF UserActs, Enqueue, Cancel_, BeginShutdown, CallbackReturns, vars, others
  <2>2. QED
        BY <2>1
<1>3. CASE OnCompletion
  <2>1. UNCHANGED <<running, breaking, ended>>
        BY <1>3 DEF OnCompletion, rest
  <2>2. UNCHANGED inject \/ inject' = Scheduled("task")
        BY <1>3 DEF OnCompletion, StartNext, StartFirst, Start, NotStarted
  <2>3. UNCHANGED queueVars \/ Schedule("task")
        BY <2>1, <2>2 DEF Schedule
  <2>4. QED
        BY <2>1, <2>3, TaskAssumption DEF QueueNext
<1>4. CASE TaskRuns
  <2>1. CASE TestAlive \/ LoadGeneration \/ CancelFinishes \/ CoroutineEnds
        BY <2>1 DEF TestAlive, LoadGeneration, CancelFinishes, CoroutineEnds
  <2>2. CASE Uninject
        BY <2>2, TaskAssumption DEF Uninject, rest, Cancel, QueueNext
  <2>3. CASE PostCall
        BY <2>3, TaskAssumption DEF PostCall, rest, Schedule, QueueNext
  <2>4. CASE TakeEvent
        BY <2>4 DEF TakeEvent, Take, QueueNext
  <2>5. CASE OnInject \/ Dispose
    <3>1. Return /\ UNCHANGED ended
          BY <2>5, QueueAssumption, TaskAssumption DEF OnInject, Dispose, Return
    <3>2. QED
          BY <3>1 DEF QueueNext
  <2>6. QED
        BY <1>4, <2>1, <2>2, <2>3, <2>4, <2>5 DEF TaskRuns, TaskStep, CancelStep
<1>5. QED
      BY <1>1, <1>2, <1>3, <1>4 DEF Next

(* The manager and its task use the I/O loop as InjectQueue allows, which  *)
(* EventLoop is proved to implement: what is proved here of the downloads  *)
(* rests on that loop and not on a more obliging one.                      *)
THEOREM UsesTheLoop == Spec => QueueSafe
<1>1. Init => QueueInit /\ ~ended
      BY DEF Init, TaskInit, QueueInit
<1>2. QED
      BY <1>1, InitOK, InitType, StepOK, StepType, StepQueue, PTL DEF Spec, QueueSafe

(* Whoever uses a loop by what InjectQueue allows finds every event at     *)
(* most once in its queue.  With LoopIsQueue of EventLoopProofs this is    *)
(* true of EventLoop, for any set of threads.                              *)
THEOREM QueueTypeCorrect == QueueSafe => []QueueTypeOK
<1>1. ASSUME QueueInit PROVE QueueTypeOK
  <2>1. inject = <<>>
        BY <1>1 DEF QueueInit
  <2>2. inject \in Seq(Events) /\ IsInjective(inject)
        BY <2>1 DEF IsInjective
  <2>3. QED
        BY <1>1, <2>2 DEF QueueInit, QueueTypeOK
<1>2. QueueTypeOK /\ [QueueNext]_queueVars => QueueTypeOK'
  <2> SUFFICES ASSUME QueueTypeOK, [QueueNext]_queueVars PROVE QueueTypeOK'
      OBVIOUS
  <2> DEFINE Good(s) == s \in Seq(Events) /\ IsInjective(s)
  <2>1. ASSUME NEW e \in Events PROVE Good(Scheduled(e))
    <3>1. CASE IsPending(e)
          BY <3>1 DEF Scheduled, QueueTypeOK
    <3>2. CASE ~IsPending(e)
      <4>1. ~Has(inject, e)
            BY <3>2 DEF Has, IsPending
      <4>2. inject \in Seq(Events) /\ IsInjective(inject)
            BY DEF QueueTypeOK
      <4>3. Append(inject, e) \in Seq(Events) /\ IsInjective(Append(inject, e))
            BY <4>1, <4>2, AppendHas
      <4>4. QED
            BY <3>2, <4>3 DEF Scheduled
    <3>3. QED
          BY <3>1, <3>2
  <2>2. ASSUME NEW e \in Events, Schedule(e) PROVE QueueTypeOK'
        BY <2>1, <2>2 DEF Schedule, QueueTypeOK
  <2>3. ASSUME NEW e \in Events, Cancel(e) PROVE QueueTypeOK'
    <3>1. Good(Without(inject, e))
          BY WithoutHas DEF QueueTypeOK
    <3>2. QED
          BY <2>3, <3>1 DEF Cancel, Cancelled, QueueTypeOK
  <2>4. CASE Take
    <3>1. inject # <<>> /\ running' = Head(inject) /\ inject' = Tail(inject)
          BY <2>4 DEF Take, TakeFirst
    <3>2. Good(Tail(inject)) /\ Head(inject) \in Events
          BY <3>1, TailHas DEF QueueTypeOK
    <3>3. QED
          BY <2>4, <3>1, <3>2 DEF Take, QueueTypeOK
  <2>5. CASE Return
    <3>1. inject' = inject \/ \E e \in Events : inject' = Scheduled(e)
          BY <2>5 DEF Return
    <3>2. Good(inject')
          BY <2>1, <3>1 DEF QueueTypeOK
    <3>3. QED
          BY <2>5, <3>2 DEF Return, QueueTypeOK
  <2>6. CASE Break \/ End \/ UNCHANGED queueVars
        BY <2>6 DEF Break, End, queueVars, QueueTypeOK
  <2>7. QED
        BY <2>2, <2>3, <2>4, <2>5, <2>6 DEF QueueNext
<1>3. QED
      BY <1>1, <1>2, PTL DEF QueueSafe
=============================================================================
