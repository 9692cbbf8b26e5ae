------------------------- MODULE EventBuffersProofs -------------------------
(***************************************************************************)
(* Proofs about the runtime's buffers, for any number of threads, of       *)
(* buffers and any limit, with faults and with timeouts at any time.       *)
(***************************************************************************)
EXTENDS EventBuffers, FiniteSetTheorems, SequenceTheorems, TLAPS

-----------------------------------------------------------------------------
\* A thread has a buffer when it may record, and none while it asks for one, ...
LocalOK ==
    \A t \in Thread :
        /\ pc[t] \in {"off", "alloc", "waiting", "woken", "failed"} => local[t] = "none"
        /\ pc[t] \in {"run", "leaving"} => local[t] \in {"full", "init"}
        /\ pc[t] \in {"exiting", "done"} => local[t] = "init"

\* ... what the writer has just written is still in the queue, ...
PopOK == writer = "pop" => QueuedBuffers # <<>>

\* ... the two counts are those of the threads there have been and have ended, ...
Begun == {t \in Thread : pc[t] # "off"}
Ended == {t \in Thread : pc[t] \in {"done", "failed"}}

CountsOK ==
    /\ ThreadGlobalNumber = Cardinality(Begun)
    /\ ThreadExitNumber = Cardinality(Ended)

\* ... and a thread sleeps, and the writer holds buffers back, only at the limit.
LimitOK ==
    /\ CurrentBuffers + FreeBuffers <= MaxBuffers
    /\ \A t \in Thread :
          /\ pc[t] = "waiting" => CurrentBuffers = MaxBuffers
          /\ pc[t] = "woken" => CurrentBuffers + FreeBuffers = MaxBuffers
    /\ memLimitQueue > 0 =>
          memLimitBufCount = memLimitQueue /\ CurrentBuffers = MaxBuffers

Inv == TypeOK /\ LocalOK /\ PopOK /\ CountsOK /\ LimitOK

\* The inductive invariant.
IInv == Inv /\ BuffersInOrder /\ BuffersConserved /\ EndsComplete

-----------------------------------------------------------------------------
\* Sequences of buffers.

\* Appending a buffer adds it to those of full size if it is one.
LEMMA FullAppend ==
  ASSUME NEW q \in Seq(Buffer), NEW e \in Buffer
  PROVE  /\ IsFiniteSet(FullSize(q))
         /\ Cardinality(FullSize(q)) \in Nat
         /\ Cardinality(FullSize(Append(q, e))) =
               Cardinality(FullSize(q)) + (IF e.full THEN 1 ELSE 0)
  <1>1. Len(q) \in Nat /\ IsFiniteSet(1 .. Len(q))
    BY FS_Interval
  <1>2. IsFiniteSet(FullSize(q)) /\ Cardinality(FullSize(q)) \in Nat
    BY <1>1, FS_Subset, FS_CardinalityType DEF FullSize
  <1>3. /\ Len(Append(q, e)) = Len(q) + 1
        /\ \A i \in 1 .. Len(q) : Append(q, e)[i] = q[i]
        /\ Append(q, e)[Len(q) + 1] = e
    BY AppendProperties
  <1>4. CASE e.full
    <2>1. FullSize(Append(q, e)) = FullSize(q) \cup {Len(q) + 1}
      BY <1>1, <1>3, <1>4 DEF FullSize
    <2>2. Len(q) + 1 \notin FullSize(q)
      BY <1>1 DEF FullSize
    <2> QED
      BY <1>2, <1>4, <2>1, <2>2, FS_AddElement
  <1>5. CASE ~e.full
    <2>1. FullSize(Append(q, e)) = FullSize(q)
      BY <1>1, <1>3, <1>5 DEF FullSize
    <2> QED
      BY <1>2, <1>5, <2>1
  <1> QED
    BY <1>4, <1>5

\* Taking the first one off removes it from them.
LEMMA FullTail ==
  ASSUME NEW q \in Seq(Buffer), q # <<>>
  PROVE  /\ Tail(q) \in Seq(Buffer) /\ Head(q) \in Buffer
         /\ Cardinality(FullSize(Tail(q))) \in Nat
         /\ Cardinality(FullSize(q)) =
               Cardinality(FullSize(Tail(q))) + (IF Head(q).full THEN 1 ELSE 0)
  <1> DEFINE r == Tail(q)
             S == FullSize(r)
             T == {i + 1 : i \in S}
  <1>1. /\ Len(q) \in Nat \ {0} /\ r \in Seq(Buffer) /\ Head(q) \in Buffer
        /\ Len(r) = Len(q) - 1
        /\ \A i \in 1 .. Len(r) : r[i] = q[i + 1]
        /\ Head(q) = q[1]
    BY HeadTailProperties, EmptySeq
  <1>2. IsFiniteSet(S) /\ Cardinality(S) \in Nat
    BY <1>1, FullAppend
  <1>3. S \subseteq Nat
    BY <1>1 DEF FullSize
  <1>4. [i \in S |-> i + 1] \in Bijection(S, T)
    BY <1>3 DEF Bijection, Injection, Surjection, IsInjective
  <1>5. IsFiniteSet(T) /\ Cardinality(T) = Cardinality(S)
    BY <1>2, <1>4, FS_Bijection DEF ExistsBijection
  <1>6. 1 \notin T
    BY <1>1 DEF FullSize
  <1>7. CASE Head(q).full
    <2>1. FullSize(q) = T \cup {1}
      BY <1>1, <1>7, SMTT(60) DEF FullSize
    <2>2. Cardinality(T \cup {1}) = Cardinality(T) + 1
      BY <1>5, <1>6, FS_AddElement
    <2> QED
      BY <1>1, <1>2, <1>5, <1>7, <2>1, <2>2
  <1>8. CASE ~Head(q).full
    <2>1. FullSize(q) = T
      BY <1>1, <1>8 DEF FullSize
    <2> QED
      BY <1>1, <1>2, <1>5, <1>8, <2>1
  <1> QED
    BY <1>7, <1>8

\* Moving the first element to the end of what has been written moves nothing in the
\* two together.
LEMMA WriteKeepsTrace ==
  ASSUME NEW w \in Seq(Buffer), NEW q \in Seq(Buffer), q # <<>>
  PROVE  Append(w, Head(q)) \o Tail(q) = w \o q
  <1>1. /\ Len(w) \in Nat /\ Len(q) \in Nat \ {0} /\ Tail(q) \in Seq(Buffer)
        /\ Head(q) \in Buffer /\ Head(q) = q[1]
        /\ Len(Tail(q)) = Len(q) - 1
        /\ \A i \in 1 .. Len(Tail(q)) : Tail(q)[i] = q[i + 1]
    BY HeadTailProperties, EmptySeq
  <1>2. /\ Append(w, Head(q)) \in Seq(Buffer)
        /\ Len(Append(w, Head(q))) = Len(w) + 1
        /\ \A i \in 1 .. Len(w) : Append(w, Head(q))[i] = w[i]
        /\ Append(w, Head(q))[Len(w) + 1] = q[1]
    BY <1>1, AppendProperties
  <1> DEFINE l == Append(w, Head(q)) \o Tail(q)
             r == w \o q
  <1>3. /\ l \in Seq(Buffer) /\ Len(l) = Len(w) + Len(q)
        /\ \A i \in 1 .. Len(w) + Len(q) :
              l[i] = IF i <= Len(w) + 1 THEN Append(w, Head(q))[i]
                                        ELSE Tail(q)[i - (Len(w) + 1)]
    BY <1>1, <1>2, ConcatProperties
  <1>4. /\ r \in Seq(Buffer) /\ Len(r) = Len(w) + Len(q)
        /\ \A i \in 1 .. Len(w) + Len(q) :
              r[i] = IF i <= Len(w) THEN w[i] ELSE q[i - Len(w)]
    BY ConcatProperties
  <1>5. ASSUME NEW i \in 1 .. Len(l) PROVE l[i] = r[i]
    <2>1. i \in Nat /\ i \in 1 .. Len(w) + Len(q)
      BY <1>1, <1>3
    <2>2. CASE i <= Len(w)
      BY <1>1, <1>2, <1>3, <1>4, <2>1, <2>2
    <2>3. CASE i = Len(w) + 1
      BY <1>1, <1>2, <1>3, <1>4, <2>1, <2>3
    <2>4. CASE i > Len(w) + 1
      <3>1. i - (Len(w) + 1) \in 1 .. Len(Tail(q))
        BY <1>1, <2>1, <2>4
      <3>2. Tail(q)[i - (Len(w) + 1)] = q[i - (Len(w) + 1) + 1]
        BY <1>1, <3>1
      <3>3. i - (Len(w) + 1) + 1 = i - Len(w)
        BY <1>1, <2>1
      <3> QED
        BY <1>1, <1>3, <1>4, <2>1, <2>4, <3>2, <3>3
    <2> QED
      BY <1>1, <2>1, <2>2, <2>3, <2>4
  <1> HIDE DEF l, r
  <1>6. l = r
    BY <1>3, <1>4, <1>5, SeqEqual
  <1> QED
    BY <1>6 DEF l, r

\* What is queued comes last in the two together.
LEMMA AppendToTrace ==
  ASSUME NEW w \in Seq(Buffer), NEW q \in Seq(Buffer), NEW e \in Buffer
  PROVE  w \o Append(q, e) = Append(w \o q, e)
  <1>1. <<e>> \in Seq(Buffer) /\ w \o q \in Seq(Buffer)
    BY ConcatProperties
  <1>2. Append(q, e) = q \o <<e>> /\ Append(w \o q, e) = (w \o q) \o <<e>>
    BY <1>1, AppendIsConcat
  <1> QED
    BY <1>1, <1>2, ConcatAssociative

-----------------------------------------------------------------------------
\* The sets that are counted are finite.
LEMMA FullSizes ==
  ASSUME TypeOK
  PROVE  Cardinality(FullSize(QueuedBuffers)) \in Nat
  <1>1. Len(QueuedBuffers) \in Nat
    BY DEF TypeOK
  <1>2. IsFiniteSet(1 .. Len(QueuedBuffers))
    BY <1>1, FS_Interval
  <1> QED
    BY <1>1, <1>2, FS_Subset, FS_CardinalityType DEF FullSize

LEMMA Recorders ==
  /\ IsFiniteSet(Recording) /\ Cardinality(Recording) \in Nat
  /\ IsFiniteSet(Begun) /\ Cardinality(Begun) \in Nat
  /\ IsFiniteSet(Ended) /\ Cardinality(Ended) \in Nat
  BY BuffersAssumption, FS_Subset, FS_CardinalityType DEF Recording, Begun, Ended

-----------------------------------------------------------------------------
\* The types.

LEMMA InitTypes == Init => TypeOK
  <1> SUFFICES ASSUME Init PROVE TypeOK
    OBVIOUS
  <1>1. QueuedBuffers \in Seq(Buffer) /\ written \in Seq(Buffer)
    BY EmptySeq DEF Init
  <1>2. /\ pc \in [Thread -> ThreadPc]
        /\ local \in [Thread -> {"none", "init", "full"}]
        /\ queued \in [Thread -> Nat]
    BY DEF Init, ThreadPc
  <1> QED
    BY <1>1, <1>2 DEF Init, TypeOK, WriterPc

\* What is added to the queue is a buffer.
LEMMA EnqueueTypes ==
  ASSUME TypeOK, NEW t \in Thread, NEW full \in BOOLEAN, Enqueue(t, full)
  PROVE  /\ [id |-> t, pos |-> queued[t] + 1, full |-> full] \in Buffer
         /\ QueuedBuffers' \in Seq(Buffer)
         /\ queued' \in [Thread -> Nat]
         /\ writer' \in WriterPc
  <1>1. [id |-> t, pos |-> queued[t] + 1, full |-> full] \in Buffer
    BY DEF TypeOK, Buffer
  <1>2. QueuedBuffers' \in Seq(Buffer)
    BY <1>1, AppendProperties DEF TypeOK, Enqueue
  <1> QED
    BY <1>1, <1>2 DEF TypeOK, Enqueue, Signal, WriterPc

LEMMA ThreadTypes ==
  ASSUME TypeOK, NEW t \in Thread, ThreadStep(t)
  PROVE  TypeOK'
  <1> USE DEF TypeOK, ThreadPc, poolVars, countVars, limitVars, writerVars
  <1>1. ASSUME AllocFree(t) \/ AllocNew(t) \/ AllocWait(t) \/ AllocWoken(t)
        PROVE  TypeOK'
    <2>1. CASE AllocFree(t)
      BY <2>1 DEF AllocFree, GotBuffer
    <2>2. CASE AllocNew(t)
      BY <2>2 DEF AllocNew, GotBuffer
    <2>3. CASE AllocWait(t)
      BY <2>3 DEF AllocWait
    <2>4. CASE AllocWoken(t)
      BY <2>4 DEF AllocWoken, GotBuffer
    <2> QED
      BY <1>1, <2>1, <2>2, <2>3, <2>4
  <1>2. CASE QueueFull(t)
    BY <1>2, EnqueueTypes DEF QueueFull
  <1>3. CASE QueueCopy(t)
    BY <1>3, EnqueueTypes DEF QueueCopy
  <1>4. ASSUME NEW u \in Thread, Create(t, u) PROVE TypeOK'
    <2>1. ThreadGlobalNumber' \in Nat /\ ThreadExitNumber' \in Nat
      BY <1>4 DEF Create
    <2>2. pc' \in [Thread -> ThreadPc]
      BY <1>4 DEF Create
    <2> QED
      BY <1>4, <2>1, <2>2 DEF Create
  <1>5. CASE CleanupThread(t)
    <2>1. CASE pc[t] = "exiting"
      <3>1. CountExit(t) /\ pc' \in [Thread -> ThreadPc]
        BY <1>5, <2>1 DEF CleanupThread
      <3>2. ThreadExitNumber' \in Nat
        BY <3>1 DEF CountExit
      <3> QED
        BY <1>5, <2>1, <3>1, <3>2 DEF CleanupThread
    <2>2. CASE pc[t] \in {"run", "leaving"}
      <3>1. LastBuffer(t) /\ pc' \in [Thread -> ThreadPc]
        BY <1>5, <2>2 DEF CleanupThread
      <3>2. /\ QueuedBuffers' \in Seq(Buffer) /\ queued' \in [Thread -> Nat]
            /\ local' \in [Thread -> {"none", "init", "full"}]
            /\ writer' \in WriterPc
        BY <3>1, EnqueueTypes DEF LastBuffer
      <3> QED
        BY <1>5, <2>2, <3>1, <3>2 DEF CleanupThread, LastBuffer
    <2> QED
      BY <1>5, <2>1, <2>2 DEF CleanupThread
  <1>6. CASE SegFault(t)
    BY <1>6 DEF SegFault
  <1> QED
    BY <1>1, <1>2, <1>3, <1>4, <1>5, <1>6 DEF ThreadStep

LEMMA WriterTypes ==
  ASSUME TypeOK, PopOK, LimitOK, BuffersConserved, BackgroundThreadWriter
  PROVE  TypeOK'
  <1> USE DEF TypeOK, WriterPc, threadVars, poolVars, countVars, limitVars
  <1>1. CASE Check \/ Timeout \/ Wake \/ Drained
    BY <1>1 DEF Check, Timeout, Wake, Drained
  <1>7. CASE HoldBack
    BY <1>7 DEF HoldBack
  <1>8. CASE LimitCrash \/ ExitCheck
    BY <1>8 DEF LimitCrash, ExitCheck
  <1>2. CASE Write
    <2>1. written' \in Seq(Buffer)
      BY <1>2, HeadTailProperties, AppendProperties DEF Write
    <2> QED
      BY <1>2, <2>1 DEF Write
  <1>3. CASE Pop
    <2>1. QueuedBuffers' \in Seq(Buffer)
      BY <1>3, HeadTailProperties DEF Pop, PopOK
    <2> QED
      BY <1>3, <2>1 DEF Pop
  <1>4. CurrentBuffers >= Held
    BY FullSizes, Recorders, SMTT(60) DEF BuffersConserved, Held
  <1>5. CASE PutBack
    <2>1. CurrentBuffers >= 1
      BY <1>4, <1>5 DEF PutBack, Held
    <2> QED
      BY <1>5, <2>1 DEF PutBack
  <1>6. CASE LimitEnds
    <2>1. CurrentBuffers >= memLimitQueue + 1 /\ memLimitBufCount = memLimitQueue
      BY <1>4, <1>6 DEF LimitEnds, Held, LimitOK
    <2> QED
      BY <1>6, <2>1 DEF LimitEnds, ThreadPc
  <1> QED
    BY <1>1, <1>2, <1>3, <1>5, <1>6, <1>7, <1>8 DEF BackgroundThreadWriter

-----------------------------------------------------------------------------
\* Where a thread has its buffer, and the head that the writer has written.

LEMMA ThreadLocal ==
  ASSUME TypeOK, LocalOK, NEW t \in Thread, ThreadStep(t)
  PROVE  LocalOK'
  <1> USE DEF TypeOK, LocalOK
  <1>1. ASSUME AllocFree(t) \/ AllocNew(t) \/ AllocWait(t) \/ AllocWoken(t)
        PROVE  LocalOK'
    BY <1>1 DEF AllocFree, AllocNew, AllocWait, AllocWoken, GotBuffer
  <1>2. CASE QueueFull(t)
    BY <1>2 DEF QueueFull, Running
  <1>3. CASE QueueCopy(t) \/ SegFault(t)
    BY <1>3 DEF QueueCopy, SegFault
  <1>4. ASSUME NEW u \in Thread, Create(t, u) PROVE LocalOK'
    BY <1>4 DEF Create
  <1>5. CASE CleanupThread(t)
    <2>1. CASE pc[t] = "exiting"
      BY <1>5, <2>1 DEF CleanupThread
    <2>2. CASE pc[t] \in {"run", "leaving"}
      <3>1. LastBuffer(t) /\ pc' = [pc EXCEPT ![t] = "exiting"]
        BY <1>5, <2>2 DEF CleanupThread
      <3>2. local' = [local EXCEPT ![t] = "init"]
        BY <3>1 DEF LastBuffer
      <3> QED
        BY <3>1, <3>2
    <2> QED
      BY <1>5, <2>1, <2>2 DEF CleanupThread
  <1> QED
    BY <1>1, <1>2, <1>3, <1>4, <1>5 DEF ThreadStep

LEMMA WriterLocal ==
  ASSUME TypeOK, LocalOK, BackgroundThreadWriter
  PROVE  LocalOK'
  <1> USE DEF TypeOK, LocalOK, threadVars
  <1>1. CASE LimitEnds
    BY <1>1 DEF LimitEnds
  <1>2. CASE ~LimitEnds
    <2>1. pc' = pc /\ local' = local
      BY <1>2 DEF BackgroundThreadWriter, Check, Timeout, Wake, Write, Drained, Pop,
                  PutBack, HoldBack, LimitCrash, ExitCheck
    <2> QED
      BY <2>1
  <1> QED
    BY <1>1, <1>2

\* Threads only add to the queue, and change what the writer does only by waking it.
LEMMA ThreadQueue ==
  ASSUME TypeOK, LocalOK, NEW t \in Thread, ThreadStep(t)
  PROVE  \/ UNCHANGED <<queued, QueuedBuffers, writer>>
         \/ \E full \in BOOLEAN : Enqueue(t, full)
  <1>1. CASE AllocFree(t) \/ AllocNew(t) \/ AllocWait(t) \/ AllocWoken(t)
    BY <1>1 DEF AllocFree, AllocNew, AllocWait, AllocWoken, writerVars
  <1>2. CASE QueueFull(t) \/ QueueCopy(t)
    BY <1>2 DEF QueueFull, QueueCopy
  <1>3. CASE SegFault(t) \/ \E u \in Thread : Create(t, u)
    BY <1>3 DEF SegFault, Create, writerVars
  <1>4. CASE CleanupThread(t)
    BY <1>4 DEF CleanupThread, LastBuffer, writerVars
  <1> QED
    BY <1>1, <1>2, <1>3, <1>4 DEF ThreadStep

LEMMA PopKept ==
  ASSUME TypeOK, LocalOK, PopOK, Next
  PROVE  PopOK'
  <1>1. ASSUME NEW t \in Thread, ThreadStep(t) PROVE PopOK'
    <2>1. CASE UNCHANGED <<queued, QueuedBuffers, writer>>
      BY <2>1 DEF PopOK
    <2>2. ASSUME NEW full \in BOOLEAN, Enqueue(t, full) PROVE PopOK'
      <3>1. QueuedBuffers' # <<>>
        BY <2>2, EnqueueTypes, AppendProperties DEF Enqueue, TypeOK
      <3> QED
        BY <3>1 DEF PopOK
    <2> QED
      BY <1>1, <2>1, <2>2, ThreadQueue
  <1>2. ASSUME BackgroundThreadWriter PROVE PopOK'
    BY <1>2 DEF BackgroundThreadWriter, Check, Timeout, Wake, Write, Drained, Pop,
                PutBack, HoldBack, LimitEnds, LimitCrash, ExitCheck, PopOK
  <1> QED
    BY <1>1, <1>2 DEF Next

-----------------------------------------------------------------------------
\* The order of the trace.

\* A buffer that is queued is the next in the trace.
LEMMA EnqueueTrace ==
  ASSUME TypeOK, PopOK, NEW t \in Thread, NEW full \in BOOLEAN, Enqueue(t, full),
         written' = written
  PROVE  Trace' = Append(Trace, [id |-> t, pos |-> queued[t] + 1, full |-> full])
  <1> DEFINE e == [id |-> t, pos |-> queued[t] + 1, full |-> full]
  <1>1. e \in Buffer /\ QueuedBuffers' = Append(QueuedBuffers, e)
    BY EnqueueTypes DEF Enqueue
  <1>2. (writer' = "pop") <=> (writer = "pop")
    BY DEF Enqueue, Signal
  <1> HIDE DEF e
  <1>3. CASE writer = "pop"
    <2>1. Tail(QueuedBuffers) \in Seq(Buffer)
      BY <1>3, HeadTailProperties DEF PopOK, TypeOK
    <2>2. Tail(Append(QueuedBuffers, e)) = Append(Tail(QueuedBuffers), e)
      BY <1>3, HeadTailAppend DEF PopOK, TypeOK
    <2>3. Unwritten' = Append(Unwritten, e) /\ Unwritten \in Seq(Buffer)
      BY <1>1, <1>2, <1>3, <2>1, <2>2 DEF Unwritten
    <2>4. Trace' = written \o Append(Unwritten, e)
      BY <2>3 DEF Trace
    <2>5. Trace' = Append(Trace, e)
      BY <1>1, <2>3, <2>4, AppendToTrace DEF Trace, TypeOK
    <2> QED
      BY <2>5 DEF e
  <1>4. CASE writer # "pop"
    BY <1>1, <1>2, <1>4, AppendToTrace DEF Trace, Unwritten, TypeOK, e
  <1> QED
    BY <1>3, <1>4

\* The writer moves buffers, but not in the trace.
LEMMA WriterTrace ==
  ASSUME TypeOK, PopOK, BackgroundThreadWriter
  PROVE  Trace' = Trace /\ queued' = queued
  <1>1. CASE Write
    <2>1. Trace' = Append(written, Head(QueuedBuffers)) \o Tail(QueuedBuffers)
      BY <1>1 DEF Write, Trace, Unwritten
    <2>2. Trace = written \o QueuedBuffers
      BY <1>1 DEF Write, Trace, Unwritten
    <2> QED
      BY <1>1, <2>1, <2>2, WriteKeepsTrace DEF Write, TypeOK, threadVars
  <1>2. CASE Pop
    BY <1>2 DEF Pop, Trace, Unwritten, threadVars
  <1>3. CASE Check \/ Timeout \/ Wake \/ Drained
    BY <1>3 DEF Check, Timeout, Wake, Drained, Trace, Unwritten, threadVars
  <1>4. CASE PutBack \/ HoldBack \/ LimitEnds \/ LimitCrash \/ ExitCheck
    BY <1>4 DEF PutBack, HoldBack, LimitEnds, LimitCrash, ExitCheck, Trace, Unwritten,
                threadVars
  <1> QED
    BY <1>1, <1>2, <1>3, <1>4 DEF BackgroundThreadWriter

\* The trace is one of buffers.
LEMMA TraceType ==
  ASSUME TypeOK, PopOK
  PROVE  Trace \in Seq(Buffer) /\ Len(Trace) \in Nat
  <1>1. Unwritten \in Seq(Buffer)
    BY HeadTailProperties DEF TypeOK, PopOK, Unwritten
  <1>2. Trace \in Seq(Buffer)
    BY <1>1, ConcatProperties DEF TypeOK, Trace
  <1> QED
    BY <1>2, LenProperties

\* A thread's next buffer in last place leaves the trace in order.
LEMMA OrderGrows ==
  ASSUME TypeOK, PopOK, BuffersInOrder, NEW t \in Thread, NEW full \in BOOLEAN,
         Trace' = Append(Trace, [id |-> t, pos |-> queued[t] + 1, full |-> full]),
         queued' = [queued EXCEPT ![t] = @ + 1]
  PROVE  BuffersInOrder'
  <1> DEFINE e == [id |-> t, pos |-> queued[t] + 1, full |-> full]
             n == Len(Trace)
  <1>1. e \in Buffer /\ n \in Nat /\ Trace \in Seq(Buffer) /\ queued[t] \in Nat
    BY TraceType DEF TypeOK, Buffer
  <1>2. /\ Len(Trace') = n + 1
        /\ \A i \in 1 .. n : Trace'[i] = Trace[i]
        /\ Trace'[n + 1] = e
    BY <1>1, AppendProperties
  <1>3. \A i \in 1 .. n : Trace[i].id \in Thread /\ Trace[i].pos \in Nat
    <2>1. \A i \in 1 .. n : Trace[i] \in Buffer
      BY <1>1, ElementOfSeq
    <2> QED
      BY <2>1 DEF Buffer
  <1>4. /\ queued'[t] = queued[t] + 1
        /\ \A u \in Thread : u # t => queued'[u] = queued[u]
        /\ \A u \in Thread : queued[u] \in Nat
    BY DEF TypeOK
  <1>5. /\ \A i, j \in 1 .. n : i < j /\ Trace[i].id = Trace[j].id => Trace[i].pos < Trace[j].pos
        /\ \A u \in Thread : \A k \in 1 .. queued[u] :
              \E i \in 1 .. n : Trace[i].id = u /\ Trace[i].pos = k
        /\ \A i \in 1 .. n : Trace[i].pos <= queued[Trace[i].id]
    BY DEF BuffersInOrder
  <1>6. e.id = t /\ e.pos = queued[t] + 1
    OBVIOUS
  <1> HIDE DEF e, n
  <1>7. ASSUME NEW i \in 1 .. n + 1 PROVE i \in 1 .. n \/ i = n + 1
    BY <1>1
  <1>8. ASSUME NEW i \in 1 .. n + 1, NEW j \in 1 .. n + 1,
               i < j, Trace'[i].id = Trace'[j].id
        PROVE  Trace'[i].pos < Trace'[j].pos
    <2>1. i \in 1 .. n /\ Trace'[i] = Trace[i]
      BY <1>1, <1>2, <1>8
    <2>2. CASE j \in 1 .. n
      BY <1>2, <1>5, <1>8, <2>1, <2>2
    <2>3. CASE j = n + 1
      BY <1>1, <1>2, <1>3, <1>4, <1>5, <1>6, <1>8, <2>1, <2>3
    <2> QED
      BY <1>7, <2>2, <2>3
  <1>9. ASSUME NEW u \in Thread, NEW k \in 1 .. queued'[u]
        PROVE  \E i \in 1 .. n + 1 : Trace'[i].id = u /\ Trace'[i].pos = k
    <2>1. CASE k \in 1 .. queued[u]
      <3>1. PICK i \in 1 .. n : Trace[i].id = u /\ Trace[i].pos = k
        BY <1>5, <2>1
      <3> QED
        BY <1>1, <1>2, <3>1
    <2>2. CASE k \notin 1 .. queued[u]
      <3>1. u = t /\ k = queued[t] + 1
        BY <1>4, <2>2
      <3> QED
        BY <1>1, <1>2, <1>6, <3>1
    <2> QED
      BY <2>1, <2>2
  <1>10. ASSUME NEW i \in 1 .. n + 1 PROVE Trace'[i].pos <= queued'[Trace'[i].id]
    BY <1>1, <1>2, <1>3, <1>4, <1>5, <1>6, <1>7
  <1> QED
    BY <1>2, <1>8, <1>9, <1>10 DEF BuffersInOrder

LEMMA OrderKept ==
  ASSUME TypeOK, LocalOK, PopOK, BuffersInOrder, Next
  PROVE  BuffersInOrder'
  <1>1. ASSUME NEW t \in Thread, ThreadStep(t) PROVE BuffersInOrder'
    <2>1. written' = written
      BY <1>1 DEF ThreadStep, AllocFree, AllocNew, AllocWait, AllocWoken, QueueFull,
                  QueueCopy, Create, CleanupThread, LastBuffer, SegFault, writerVars
    <2>2. CASE UNCHANGED <<queued, QueuedBuffers, writer>>
      <3>1. Trace' = Trace /\ queued' = queued
        BY <2>1, <2>2 DEF Trace, Unwritten
      <3> QED
        BY <3>1 DEF BuffersInOrder
    <2>3. ASSUME NEW full \in BOOLEAN, Enqueue(t, full) PROVE BuffersInOrder'
      BY <2>1, <2>3, EnqueueTrace, OrderGrows DEF Enqueue
    <2> QED
      BY <1>1, <2>2, <2>3, ThreadQueue
  <1>2. ASSUME BackgroundThreadWriter PROVE BuffersInOrder'
    BY <1>2, WriterTrace DEF BuffersInOrder
  <1> QED
    BY <1>1, <1>2 DEF Next

-----------------------------------------------------------------------------
\* The count of the buffers in use.

\* A buffer more or less in the queue.
LEMMA EnqueueCount ==
  ASSUME TypeOK, NEW t \in Thread, NEW full \in BOOLEAN, Enqueue(t, full),
         memLimitQueue' = memLimitQueue
  PROVE  /\ Cardinality(FullSize(QueuedBuffers')) =
               Cardinality(FullSize(QueuedBuffers)) + (IF full THEN 1 ELSE 0)
         /\ Held' = Held
  <1> DEFINE e == [id |-> t, pos |-> queued[t] + 1, full |-> full]
  <1>1. e \in Buffer /\ QueuedBuffers' = Append(QueuedBuffers, e) /\ e.full = full
    BY EnqueueTypes DEF Enqueue
  <1>2. Held' = Held
    BY DEF Enqueue, Signal, Held
  <1> HIDE DEF e
  <1> QED
    BY <1>1, <1>2, FullAppend DEF TypeOK

\* A thread gets a buffer, or parts with it.
LEMMA GetCount ==
  ASSUME TypeOK, NEW t \in Thread, local[t] # "full", local' = [local EXCEPT ![t] = "full"]
  PROVE  Cardinality(Recording') = Cardinality(Recording) + 1
  <1>1. Recording' = Recording \cup {t} /\ t \notin Recording
    BY DEF TypeOK, Recording
  <1> QED
    BY <1>1, Recorders, FS_AddElement

LEMMA PartCount ==
  ASSUME TypeOK, NEW t \in Thread, local[t] = "full",
         local' = [local EXCEPT ![t] = "init"] \/ local' = [local EXCEPT ![t] = "none"]
  PROVE  Cardinality(Recording') = Cardinality(Recording) - 1
  <1>1. Recording' = Recording \ {t} /\ t \in Recording
    BY DEF TypeOK, Recording
  <1> QED
    BY <1>1, Recorders, FS_RemoveElement

\* The buffers in use, as BuffersConserved counts them.
InUse == Cardinality(Recording) + Cardinality(FullSize(QueuedBuffers)) + Held

LEMMA ThreadCount ==
  ASSUME TypeOK, LocalOK, NEW t \in Thread, ThreadStep(t), CurrentBuffers = InUse
  PROVE  CurrentBuffers' = InUse'
  <1>1. /\ Cardinality(Recording) \in Nat /\ Cardinality(FullSize(QueuedBuffers)) \in Nat
        /\ Held \in Nat
    BY FullSizes, Recorders DEF TypeOK, Held
  <1>2. ASSUME AllocFree(t) \/ AllocNew(t) \/ AllocWoken(t)
        PROVE  CurrentBuffers' = InUse'
    <2>1. /\ pc[t] \in {"alloc", "woken"} /\ CurrentBuffers' = CurrentBuffers + 1
          /\ local' = [local EXCEPT ![t] = "full"]
          /\ UNCHANGED <<QueuedBuffers, writer, memLimitQueue>>
      BY <1>2 DEF AllocFree, AllocNew, AllocWoken, GotBuffer, writerVars
    <2>2. Cardinality(Recording') = Cardinality(Recording) + 1
      BY <2>1, GetCount DEF LocalOK
    <2> QED
      BY <1>1, <2>1, <2>2 DEF InUse, Held
  <1>3. CASE AllocWait(t) \/ SegFault(t) \/ \E u \in Thread : Create(t, u)
    BY <1>3 DEF AllocWait, SegFault, Create, InUse, Held, Recording, writerVars, poolVars
  <1>4. CASE QueueFull(t)
    <2>1. /\ Enqueue(t, TRUE) /\ local[t] = "full" /\ CurrentBuffers' = CurrentBuffers
          /\ memLimitQueue' = memLimitQueue
          /\ local' = [local EXCEPT ![t] = "init"] \/ local' = [local EXCEPT ![t] = "none"]
      BY <1>4 DEF QueueFull, Running, poolVars, limitVars
    <2>2. /\ Cardinality(FullSize(QueuedBuffers')) =
                Cardinality(FullSize(QueuedBuffers)) + 1
          /\ Held' = Held
      BY <2>1, EnqueueCount
    <2>3. Cardinality(Recording') = Cardinality(Recording) - 1
      BY <2>1, PartCount
    <2> QED
      BY <1>1, <2>1, <2>2, <2>3 DEF InUse
  <1>5. CASE QueueCopy(t)
    <2>1. /\ Enqueue(t, FALSE) /\ local' = local /\ CurrentBuffers' = CurrentBuffers
          /\ memLimitQueue' = memLimitQueue
      BY <1>5 DEF QueueCopy, poolVars, limitVars
    <2>2. /\ Cardinality(FullSize(QueuedBuffers')) =
                Cardinality(FullSize(QueuedBuffers)) + (IF FALSE THEN 1 ELSE 0)
          /\ Held' = Held
      BY <2>1, EnqueueCount
    <2> QED
      BY <1>1, <2>1, <2>2 DEF InUse, Recording
  <1>6. CASE CleanupThread(t)
    <2>1. CASE UNCHANGED <<local, QueuedBuffers, poolVars, writerVars>>
      BY <2>1 DEF InUse, Held, Recording, writerVars, poolVars
    <2>2. CASE /\ pc[t] \in {"run", "leaving"} /\ LastBuffer(t)
      <3>1. CASE local[t] = "init"
        BY <2>2, <3>1 DEF LastBuffer, InUse, Held, Recording, poolVars, limitVars
      <3>2. CASE local[t] # "init"
        <4>1. /\ Enqueue(t, TRUE) /\ local[t] = "full" /\ CurrentBuffers' = CurrentBuffers
              /\ memLimitQueue' = memLimitQueue
              /\ local' = [local EXCEPT ![t] = "init"]
          BY <2>2, <3>2 DEF LastBuffer, poolVars, limitVars, LocalOK
        <4>2. /\ Cardinality(FullSize(QueuedBuffers')) =
                    Cardinality(FullSize(QueuedBuffers)) + 1
              /\ Held' = Held
          BY <4>1, EnqueueCount
        <4>3. Cardinality(Recording') = Cardinality(Recording) - 1
          BY <4>1, PartCount
        <4> QED
          BY <1>1, <4>1, <4>2, <4>3 DEF InUse
      <3> QED
        BY <3>1, <3>2
    <2> QED
      BY <1>6, <2>1, <2>2 DEF CleanupThread
  <1> QED
    BY <1>2, <1>3, <1>4, <1>5, <1>6 DEF ThreadStep

LEMMA WriterCount ==
  ASSUME TypeOK, LimitOK, PopOK, BackgroundThreadWriter, CurrentBuffers = InUse
  PROVE  CurrentBuffers' = InUse'
  <1>1. /\ Cardinality(Recording) \in Nat /\ Cardinality(FullSize(QueuedBuffers)) \in Nat
        /\ memLimitQueue \in Nat
    BY FullSizes, Recorders DEF TypeOK
  <1>2. local' = local
    BY DEF BackgroundThreadWriter, Check, Timeout, Wake, Write, Drained, Pop, PutBack,
           HoldBack, LimitEnds, LimitCrash, ExitCheck, threadVars
  <1>3. Recording' = Recording
    BY <1>2 DEF Recording
  <1>4. CASE Check \/ Timeout \/ Wake \/ Write \/ Drained \/ ExitCheck
    <2>1. /\ UNCHANGED <<QueuedBuffers, CurrentBuffers, memLimitQueue>>
          /\ writer \notin {"putback", "dead"} /\ writer' \notin {"putback", "dead"}
      BY <1>4 DEF Check, Timeout, Wake, Write, Drained, ExitCheck, poolVars, limitVars
    <2> QED
      BY <1>3, <2>1 DEF InUse, Held
  <1>5. CASE Pop
    <2>1. /\ QueuedBuffers # <<>> /\ QueuedBuffers' = Tail(QueuedBuffers)
          /\ writer = "pop" /\ writer' = IF Head(QueuedBuffers).full THEN "putback" ELSE "drain"
          /\ UNCHANGED <<CurrentBuffers, memLimitQueue>>
      BY <1>5 DEF Pop, PopOK, poolVars, limitVars
    <2>2. /\ Cardinality(FullSize(QueuedBuffers')) \in Nat
          /\ Cardinality(FullSize(QueuedBuffers)) =
                Cardinality(FullSize(QueuedBuffers')) + (IF Head(QueuedBuffers).full THEN 1 ELSE 0)
      BY <2>1, FullTail DEF TypeOK
    <2> QED
      BY <1>1, <1>3, <2>1, <2>2 DEF InUse, Held
  <1>6. CASE PutBack \/ HoldBack \/ LimitCrash
    BY <1>1, <1>3, <1>6, SMTT(60) DEF PutBack, HoldBack, LimitCrash, InUse, Held, TypeOK, poolVars, limitVars
  <1>7. CASE LimitEnds
    <2>1. /\ memLimitBufCount = memLimitQueue /\ CurrentBuffers = MaxBuffers
          /\ writer = "putback" /\ writer' = "drain" /\ memLimitQueue' = 0
          /\ CurrentBuffers' = MaxBuffers - (memLimitBufCount + 1)
          /\ QueuedBuffers' = QueuedBuffers
      BY <1>7 DEF LimitEnds, LimitOK
    <2>2. Held = memLimitQueue + 1 /\ Held' = 0
      BY <1>1, <2>1 DEF Held
    <2>3. InUse' = Cardinality(Recording) + Cardinality(FullSize(QueuedBuffers))
      BY <1>1, <1>3, <2>1, <2>2 DEF InUse
    <2> QED
      BY <1>1, <2>1, <2>2, <2>3 DEF InUse
  <1> QED
    BY <1>4, <1>5, <1>6, <1>7 DEF BackgroundThreadWriter

-----------------------------------------------------------------------------
\* The limit.

LEMMA ThreadLimit ==
  ASSUME TypeOK, LimitOK, NEW t \in Thread, ThreadStep(t)
  PROVE  LimitOK'
  <1> USE DEF TypeOK, LimitOK
  <1>1. MaxBuffers \in Nat
    BY BuffersAssumption
  <1>2. CASE AllocFree(t)
    BY <1>1, <1>2 DEF AllocFree, GotBuffer, writerVars
  <1>3. CASE AllocNew(t)
    BY <1>1, <1>3 DEF AllocNew, GotBuffer, writerVars
  <1>4. CASE AllocWait(t)
    BY <1>1, <1>4 DEF AllocWait, poolVars, writerVars
  <1>5. CASE AllocWoken(t)
    BY <1>1, <1>5 DEF AllocWoken, GotBuffer, writerVars
  <1>6. ASSUME \/ QueueFull(t) \/ QueueCopy(t) \/ CleanupThread(t) \/ SegFault(t)
               \/ \E u \in Thread : Create(t, u)
        PROVE  LimitOK'
    <2>1. UNCHANGED <<MaxBuffers, CurrentBuffers, FreeBuffers, memLimitQueue, memLimitBufCount>>
      BY <1>6 DEF QueueFull, QueueCopy, CleanupThread, LastBuffer, SegFault, Create,
                  poolVars, limitVars, writerVars
    <2>2. \A u \in Thread : pc'[u] \in {"waiting", "woken"} => pc'[u] = pc[u]
      BY <1>6 DEF QueueFull, QueueCopy, CleanupThread, SegFault, Create
    <2> QED
      BY <2>1, <2>2
  <1> QED
    BY <1>2, <1>3, <1>4, <1>5, <1>6 DEF ThreadStep

LEMMA WriterLimit ==
  ASSUME TypeOK, LimitOK, BuffersConserved, BackgroundThreadWriter
  PROVE  LimitOK'
  <1> USE DEF TypeOK, LimitOK
  <1>1. MaxBuffers \in Nat
    BY BuffersAssumption
  <1>2. CASE Check \/ Timeout \/ Wake \/ Write \/ Drained \/ Pop \/ LimitCrash \/ ExitCheck
    <2>1. UNCHANGED <<MaxBuffers, pc, CurrentBuffers, FreeBuffers, memLimitQueue, memLimitBufCount>>
      BY <1>2 DEF Check, Timeout, Wake, Write, Drained, Pop, LimitCrash, ExitCheck,
                  threadVars, poolVars, limitVars
    <2> QED
      BY <2>1
  <1>3. CASE PutBack
    BY <1>1, <1>3 DEF PutBack, threadVars, limitVars
  <1>4. CASE HoldBack
    BY <1>1, <1>4 DEF HoldBack, threadVars, poolVars
  <1>5. CASE LimitEnds
    BY <1>1, <1>5 DEF LimitEnds
  <1> QED
    BY <1>2, <1>3, <1>4, <1>5 DEF BackgroundThreadWriter

-----------------------------------------------------------------------------
\* The counts of threads.

LEMMA ThreadCounts ==
  ASSUME TypeOK, CountsOK, NEW t \in Thread, ThreadStep(t)
  PROVE  CountsOK'
  <1> USE DEF TypeOK
  <1>1. ASSUME UNCHANGED countVars, Begun' = Begun, Ended' = Ended
        PROVE  CountsOK'
    BY <1>1 DEF CountsOK, countVars
  <1>2. ASSUME AllocFree(t) \/ AllocNew(t) \/ AllocWait(t) \/ AllocWoken(t)
        PROVE  CountsOK'
    <2>1. /\ UNCHANGED countVars
          /\ pc[t] \in {"alloc", "woken"}
          /\ pc' = [pc EXCEPT ![t] = "run"] \/ pc' = [pc EXCEPT ![t] = "waiting"]
      BY <1>2 DEF AllocFree, AllocNew, AllocWait, AllocWoken, GotBuffer
    <2>2. Begun' = Begun /\ Ended' = Ended
      BY <2>1 DEF Begun, Ended
    <2> QED
      BY <1>1, <2>1, <2>2
  <1>3. ASSUME QueueFull(t) \/ QueueCopy(t) \/ SegFault(t)
        PROVE  CountsOK'
    <2>1. /\ UNCHANGED countVars
          /\ pc[t] = "run"
          /\ \/ pc' = pc \/ pc' = [pc EXCEPT ![t] = "alloc"]
             \/ pc' = [pc EXCEPT ![t] = "leaving"]
      BY <1>3 DEF QueueFull, QueueCopy, SegFault, Running
    <2>2. Begun' = Begun /\ Ended' = Ended
      BY <2>1 DEF Begun, Ended
    <2> QED
      BY <1>1, <2>1, <2>2
  <1>4. ASSUME NEW u \in Thread, Create(t, u) PROVE CountsOK'
    <2>1. pc[u] = "off" /\ ThreadGlobalNumber' = ThreadGlobalNumber + 1
      BY <1>4 DEF Create
    <2>2. Begun' = Begun \cup {u} /\ u \notin Begun /\ u \notin Ended
      BY <1>4, <2>1 DEF Begun, Ended, Create
    <2>3. Cardinality(Begun') = Cardinality(Begun) + 1
      BY <2>2, Recorders, FS_AddElement
    <2>4. CASE pc' = [pc EXCEPT ![u] = "alloc"] /\ UNCHANGED ThreadExitNumber
      <3>1. Ended' = Ended
        BY <2>1, <2>4 DEF Ended
      <3> QED
        BY <2>1, <2>3, <2>4, <3>1 DEF CountsOK
    <2>5. CASE /\ pc' = [pc EXCEPT ![u] = "failed"]
               /\ ThreadExitNumber' = ThreadExitNumber + 1
      <3>1. Ended' = Ended \cup {u}
        BY <2>1, <2>5 DEF Ended
      <3>2. Cardinality(Ended') = Cardinality(Ended) + 1
        BY <2>2, <3>1, Recorders, FS_AddElement
      <3> QED
        BY <2>1, <2>3, <2>5, <3>2 DEF CountsOK
    <2> QED
      BY <1>4, <2>4, <2>5 DEF Create
  <1>5. CASE CleanupThread(t)
    <2>1. CASE pc[t] = "exiting"
      <3>1. /\ ThreadExitNumber' = ThreadExitNumber + 1
            /\ ThreadGlobalNumber' = ThreadGlobalNumber
            /\ pc' = [pc EXCEPT ![t] = "done"]
        BY <1>5, <2>1 DEF CleanupThread, CountExit
      <3>2. Begun' = Begun /\ Ended' = Ended \cup {t} /\ t \notin Ended
        BY <2>1, <3>1 DEF Begun, Ended
      <3>3. Cardinality(Ended') = Cardinality(Ended) + 1
        BY <3>2, Recorders, FS_AddElement
      <3> QED
        BY <3>1, <3>2, <3>3 DEF CountsOK
    <2>2. CASE pc[t] \in {"run", "leaving"}
      <3>1. UNCHANGED countVars /\ pc' = [pc EXCEPT ![t] = "exiting"]
        BY <1>5, <2>2 DEF CleanupThread, LastBuffer, countVars
      <3>2. Begun' = Begun /\ Ended' = Ended
        BY <2>2, <3>1 DEF Begun, Ended
      <3> QED
        BY <1>1, <3>1, <3>2
    <2> QED
      BY <1>5, <2>1, <2>2 DEF CleanupThread
  <1> QED
    BY <1>2, <1>3, <1>4, <1>5 DEF ThreadStep

LEMMA WriterCounts ==
  ASSUME TypeOK, CountsOK, BackgroundThreadWriter
  PROVE  CountsOK'
  <1>1. UNCHANGED countVars
    BY DEF BackgroundThreadWriter, Check, Timeout, Wake, Write, Drained, Pop, PutBack,
           HoldBack, LimitEnds, LimitCrash, ExitCheck
  <1>2. \/ pc' = pc
        \/ pc' = [t \in Thread |-> IF pc[t] = "waiting" THEN "woken" ELSE pc[t]]
    BY DEF BackgroundThreadWriter, Check, Timeout, Wake, Write, Drained, Pop, PutBack,
           HoldBack, LimitEnds, LimitCrash, ExitCheck, threadVars
  <1>3. Begun' = Begun /\ Ended' = Ended
    BY <1>2 DEF Begun, Ended
  <1> QED
    BY <1>1, <1>3 DEF CountsOK, countVars

-----------------------------------------------------------------------------
\* The end.

LEMMA EndKept ==
  ASSUME TypeOK, CountsOK, EndsComplete, Next
  PROVE  EndsComplete'
  <1>1. ASSUME NEW t \in Thread, ThreadStep(t) PROVE EndsComplete'
    <2>1. CASE writer = "done"
      <3>1. pc[t] \in {"off", "done", "failed"}
        BY <2>1 DEF EndsComplete
      <3> QED
        BY <1>1, <3>1 DEF ThreadStep, AllocFree, AllocNew, AllocWait, AllocWoken,
                          QueueFull, QueueCopy, Running, Create, CleanupThread, SegFault
    <2>2. CASE writer # "done"
      <3>1. writer' # "done"
        BY <1>1, <2>2 DEF ThreadStep, AllocFree, AllocNew, AllocWait, AllocWoken,
                          QueueFull, QueueCopy, Enqueue, Signal, Create, CleanupThread,
                          LastBuffer, SegFault, writerVars
      <3> QED
        BY <3>1 DEF EndsComplete
    <2> QED
      BY <2>1, <2>2
  <1>2. CASE ExitCheck
    <2>1. CASE AllExited /\ QueuedBuffers = <<>>
      <3>1. Ended \subseteq Begun /\ Cardinality(Ended) = Cardinality(Begun)
        BY <2>1 DEF CountsOK, AllExited, Begun, Ended
      <3>2. Ended = Begun
        BY <3>1, Recorders, FS_Subset
      <3>3. \A t \in Thread : pc[t] \in {"off", "done", "failed"}
        BY <3>2 DEF Begun, Ended
      <3> QED
        BY <1>2, <2>1, <3>3 DEF ExitCheck, EndsComplete, threadVars
    <2>2. CASE ~(AllExited /\ QueuedBuffers = <<>>)
      BY <1>2, <2>2 DEF ExitCheck, EndsComplete
    <2> QED
      BY <2>1, <2>2
  <1>3. CASE BackgroundThreadWriter /\ ~ExitCheck
    <2>1. writer' # "done"
      BY <1>3 DEF BackgroundThreadWriter, Check, Timeout, Wake, Write, Drained, Pop,
                  PutBack, HoldBack, LimitEnds, LimitCrash
    <2> QED
      BY <2>1 DEF EndsComplete
  <1> QED
    BY <1>1, <1>2, <1>3 DEF Next

-----------------------------------------------------------------------------
\* The invariant.

LEMMA InitIInv == Init => IInv
  <1> SUFFICES ASSUME Init PROVE IInv
    OBVIOUS
  <1>1. TypeOK
    BY InitTypes
  <1>2. LocalOK /\ PopOK /\ EndsComplete
    BY DEF Init, LocalOK, PopOK, EndsComplete
  <1>3. Begun = {Main} /\ Ended = {} /\ Recording = {}
    BY BuffersAssumption DEF Init, Begun, Ended, Recording
  <1>4. CountsOK
    BY <1>3, FS_Singleton, FS_EmptySet DEF Init, CountsOK
  <1>5. MaxBuffers \in Nat
    BY BuffersAssumption, <1>1 DEF TypeOK
  <1>6. LimitOK
    BY <1>5 DEF Init, LimitOK
  <1>7. FullSize(QueuedBuffers) = {} /\ Held = 0
    BY DEF Init, FullSize, Held
  <1>8. BuffersConserved
    <2>1. CurrentBuffers = 0 /\ FreeBuffers = 0
      BY DEF Init
    <2>2. Cardinality(Recording) = 0 /\ Cardinality(FullSize(QueuedBuffers)) = 0
      BY <1>3, <1>7, FS_EmptySet
    <2> QED
      BY <1>5, <1>7, <2>1, <2>2 DEF BuffersConserved
  <1>9. Trace = <<>>
    BY ConcatEmptySeq, EmptySeq DEF Init, Trace, Unwritten
  <1>10. BuffersInOrder
    BY <1>9 DEF Init, BuffersInOrder
  <1> QED
    BY <1>1, <1>2, <1>4, <1>6, <1>8, <1>10 DEF IInv, Inv

LEMMA NextKeeps == IInv /\ [Next]_vars => IInv'
  <1> SUFFICES ASSUME IInv, [Next]_vars PROVE IInv'
    OBVIOUS
  <1> USE DEF IInv, Inv
  <1>1. CurrentBuffers = InUse
    BY DEF BuffersConserved, InUse
  <1>2. CASE Next
    <2>1. PopOK' /\ BuffersInOrder' /\ EndsComplete'
      BY <1>2, PopKept, OrderKept, EndKept
    <2>2. TypeOK' /\ LocalOK' /\ CountsOK' /\ LimitOK' /\ CurrentBuffers' = InUse'
      <3>1. ASSUME NEW t \in Thread, ThreadStep(t)
            PROVE  TypeOK' /\ LocalOK' /\ CountsOK' /\ LimitOK' /\ CurrentBuffers' = InUse'
        BY <1>1, <3>1, ThreadTypes, ThreadLocal, ThreadCounts, ThreadLimit, ThreadCount
      <3>2. ASSUME BackgroundThreadWriter
            PROVE  TypeOK' /\ LocalOK' /\ CountsOK' /\ LimitOK' /\ CurrentBuffers' = InUse'
        BY <1>1, <3>2, WriterTypes, WriterLocal, WriterCounts, WriterLimit, WriterCount
      <3> QED
        BY <1>2, <3>1, <3>2 DEF Next
    <2>3. BuffersConserved'
      BY <2>2 DEF BuffersConserved, InUse, LimitOK
    <2> QED
      BY <2>1, <2>2, <2>3
  <1>3. CASE UNCHANGED vars
    <2>1. TypeOK' /\ LocalOK' /\ PopOK' /\ EndsComplete' /\ LimitOK'
      BY <1>3 DEF vars, TypeOK, LocalOK, PopOK, EndsComplete, LimitOK
    <2>2. CountsOK' /\ BuffersConserved'
      BY <1>3 DEF vars, CountsOK, Begun, Ended, BuffersConserved, Recording, Held
    <2>3. Trace' = Trace /\ queued' = queued
      BY <1>3 DEF vars, Trace, Unwritten
    <2>4. BuffersInOrder'
      BY <2>3 DEF BuffersInOrder
    <2> QED
      BY <2>1, <2>2, <2>4
  <1> QED
    BY <1>2, <1>3

LEMMA AlwaysIInv == Spec => []IInv
  BY InitIInv, NextKeeps, PTL DEF Spec

\* The counts, which are unsigned in the code, are never taken below zero.
THEOREM BuffersTypeOK == Spec => []TypeOK
  <1>1. IInv => TypeOK
    BY DEF IInv, Inv
  <1> QED
    BY <1>1, AlwaysIInv, PTL

\* However many threads there are and however they interleave with the writer, no buffer
\* is lost, written twice or moved before an earlier one of its thread.
THEOREM TraceInOrder == Spec => []BuffersInOrder
  <1>1. IInv => BuffersInOrder
    BY DEF IInv
  <1> QED
    BY <1>1, AlwaysIInv, PTL

\* For any limit, CurrentBuffers is the number of buffers in use, and the pool never
\* holds more than the limit.
THEOREM PoolConserved == Spec => []BuffersConserved
  <1>1. IInv => BuffersConserved
    BY DEF IInv
  <1> QED
    BY <1>1, AlwaysIInv, PTL

\* The wait for a buffer needs no further check: a thread that leaves it finds one, and
\* none is left asleep below the limit.
THEOREM WaitersServed == Spec => []WaiterFindsBuffer
  <1>1. IInv => WaiterFindsBuffer
    <2> SUFFICES ASSUME IInv PROVE WaiterFindsBuffer
      OBVIOUS
    <2>1. MaxBuffers \in Nat /\ CurrentBuffers \in Nat /\ FreeBuffers \in Nat
      BY BuffersAssumption DEF IInv, Inv, TypeOK
    <2> QED
      BY <2>1 DEF IInv, Inv, LimitOK, WaiterFindsBuffer
  <1> QED
    BY <1>1, AlwaysIInv, PTL

\* The writer never ends before the last buffer of the last thread.
THEOREM TraceComplete == Spec => []EndsComplete
  <1>1. IInv => EndsComplete
    BY DEF IInv
  <1> QED
    BY <1>1, AlwaysIInv, PTL

=============================================================================
