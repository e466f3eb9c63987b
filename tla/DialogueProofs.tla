---------------------------- MODULE DialogueProofs ----------------------------
(* Theorems about DialoguePipeline, for every set of workers and every       *)
(* number of segments.                                                       *)
EXTENDS DialoguePipeline, SequenceTheorems, FiniteSetTheorems, TLAPS

-----------------------------------------------------------------------------
(* Queues. *)

LEMMA InAppend ==
  ASSUME NEW S, NEW q \in Seq(S), NEW x \in S, NEW y
  PROVE  In(Append(q, x), y) <=> In(q, y) \/ y = x
<1>1. Append(q, x) \in Seq(S) /\ Len(Append(q, x)) = Len(q) + 1
      /\ Append(q, x)[Len(q) + 1] = x
      /\ \A k \in 1 .. Len(q) : Append(q, x)[k] = q[k]
  BY AppendProperties
<1>2. DOMAIN q = 1 .. Len(q) /\ DOMAIN Append(q, x) = 1 .. Len(q) + 1
      /\ Len(q) \in Nat
  BY <1>1, LenProperties
<1> QED  BY <1>1, <1>2 DEF In

LEMMA InTail ==
  ASSUME NEW S, NEW q \in Seq(S), q # <<>>, NEW y
  PROVE  In(q, y) <=> In(Tail(q), y) \/ y = Head(q)
<1>1. Tail(q) \in Seq(S) /\ Len(Tail(q)) = Len(q) - 1 /\ Head(q) = q[1]
      /\ \A k \in 1 .. Len(Tail(q)) : Tail(q)[k] = q[k + 1]
  BY HeadTailProperties
<1>2. DOMAIN q = 1 .. Len(q) /\ DOMAIN Tail(q) = 1 .. Len(q) - 1
      /\ Len(q) \in Nat /\ Len(q) # 0
  BY <1>1, LenProperties, EmptySeq
<1>3. ASSUME NEW k \in DOMAIN q, q[k] = y, k # 1 PROVE In(Tail(q), y)
  <2>1. k - 1 \in DOMAIN Tail(q) /\ Tail(q)[k - 1] = q[k]
    BY <1>1, <1>2, <1>3
  <2> QED  BY <2>1, <1>3 DEF In
<1>4. ASSUME NEW k \in DOMAIN Tail(q), Tail(q)[k] = y PROVE In(q, y)
  <2>1. k + 1 \in DOMAIN q /\ q[k + 1] = Tail(q)[k]
    BY <1>1, <1>2
  <2> QED  BY <2>1, <1>4 DEF In
<1>5. 1 \in DOMAIN q
  BY <1>2
<1> QED  BY <1>1, <1>3, <1>4, <1>5 DEF In

LEMMA OnceAppend ==
  ASSUME NEW T, NEW q \in Seq(T), NEW x \in T, NEW S, Once(q, S),
         x \in S => ~In(q, x)
  PROVE  Once(Append(q, x), S)
<1>1. Append(q, x) \in Seq(T) /\ Len(Append(q, x)) = Len(q) + 1
      /\ Append(q, x)[Len(q) + 1] = x
      /\ \A k \in 1 .. Len(q) : Append(q, x)[k] = q[k]
  BY AppendProperties
<1>2. DOMAIN q = 1 .. Len(q) /\ DOMAIN Append(q, x) = 1 .. Len(q) + 1
      /\ Len(q) \in Nat
  BY <1>1, LenProperties
<1> QED  BY <1>1, <1>2 DEF In, Once

LEMMA OnceTail ==
  ASSUME NEW T, NEW q \in Seq(T), q # <<>>, NEW S, Once(q, S)
  PROVE  /\ Once(Tail(q), S)
         /\ Head(q) \in S => ~In(Tail(q), Head(q))
<1>1. Tail(q) \in Seq(T) /\ Len(Tail(q)) = Len(q) - 1 /\ Head(q) = q[1]
      /\ \A k \in 1 .. Len(Tail(q)) : Tail(q)[k] = q[k + 1]
  BY HeadTailProperties
<1>2. DOMAIN q = 1 .. Len(q) /\ DOMAIN Tail(q) = 1 .. Len(q) - 1
      /\ Len(q) \in Nat /\ Len(q) # 0
  BY <1>1, LenProperties, EmptySeq
<1>3. \A k \in DOMAIN Tail(q) : k + 1 \in DOMAIN q /\ k + 1 # 1
                                /\ Tail(q)[k] = q[k + 1]
  BY <1>1, <1>2
<1>4. 1 \in DOMAIN q /\ \A k \in DOMAIN Tail(q) : k \in Nat
  BY <1>2
<1>5. Once(Tail(q), S)
  BY <1>3, <1>4 DEF Once
<1>6. ASSUME Head(q) \in S, NEW k \in DOMAIN Tail(q), Tail(q)[k] = Head(q)
      PROVE  FALSE
  BY <1>1, <1>3, <1>4, <1>6 DEF Once
<1> QED  BY <1>5, <1>6 DEF In

LEMMA EndMarksType ==
  ASSUME PipelineAssumption
  PROVE  /\ EndMarks \in Seq(Segments \cup {End})
         /\ \A k \in DOMAIN EndMarks : EndMarks[k] = End
<1>1. Cardinality(Workers) \in Nat
  BY FS_CardinalityType DEF PipelineAssumption
<1> QED  BY <1>1, IsASeq DEF EndMarks

(* The end of the stream adds nothing but end marks, behind everything else. *)
LEMMA MarksAdded ==
  ASSUME PipelineAssumption, NEW q \in Seq(Segments \cup {End})
  PROVE  /\ q \o EndMarks \in Seq(Segments \cup {End})
         /\ \A i \in Segments : In(q \o EndMarks, i) <=> In(q, i)
         /\ Once(q, Segments) => Once(q \o EndMarks, Segments)
         /\ OnlyFrom(q, End) => OnlyFrom(q \o EndMarks, End)
<1> DEFINE m == EndMarks
           r == q \o EndMarks
<1>1. m \in Seq(Segments \cup {End}) /\ \A k \in DOMAIN m : m[k] = End
  BY EndMarksType
<1>2. /\ r \in Seq(Segments \cup {End})
      /\ Len(r) = Len(q) + Len(m)
      /\ \A k \in 1 .. Len(r) : r[k] = IF k <= Len(q) THEN q[k] ELSE m[k - Len(q)]
  BY <1>1, ConcatProperties
<1>3. /\ DOMAIN q = 1 .. Len(q) /\ DOMAIN m = 1 .. Len(m) /\ DOMAIN r = 1 .. Len(r)
      /\ Len(q) \in Nat /\ Len(m) \in Nat
  BY <1>1, <1>2, LenProperties
<1>4. \A k \in DOMAIN r : IF k \in DOMAIN q THEN r[k] = q[k] ELSE r[k] = End
  BY <1>1, <1>2, <1>3
<1>5. \A k \in DOMAIN q : k \in DOMAIN r
  BY <1>2, <1>3
<1>6. \A i \in Segments : i # End
  BY DEF PipelineAssumption, Segments
<1>7. \A i \in Segments : In(r, i) <=> In(q, i)
  BY <1>4, <1>5, <1>6 DEF In
<1>8. Once(q, Segments) => Once(r, Segments)
  BY <1>4, <1>5, <1>6 DEF Once
<1>9. OnlyFrom(q, End) => OnlyFrom(r, End)
  <2> SUFFICES ASSUME OnlyFrom(q, End), NEW k \in DOMAIN r, NEW l \in DOMAIN r,
                      k <= l, r[k] = End
               PROVE  r[l] = End
    BY DEF OnlyFrom
  <2>1. CASE l \notin DOMAIN q
    BY <2>1, <1>4
  <2>2. CASE l \in DOMAIN q
    <3>1. k \in DOMAIN q
      BY <2>2, <1>2, <1>3
    <3> QED  BY <3>1, <2>2, <1>4 DEF OnlyFrom
  <2> QED  BY <2>1, <2>2
<1> QED  BY <1>2, <1>7, <1>8, <1>9

-----------------------------------------------------------------------------
(* The inner loop of ordered_playback. *)

LEMMA ResumeProperties ==
  ASSUME TypeOK, PipelineAssumption,
         NEW p \in SUBSET Segments, NEW n \in 0 .. MaxSegments, NEW f,
         Resume(p, n, f)
  PROVE  /\ next' \in n .. MaxSegments
         /\ pending' \in SUBSET p
         /\ pc' = [pc EXCEPT ![Playback] = pc'[Playback]]
         /\ pc'[Playback] \in {"playing", "get", "done"}
         /\ pc'[Playback] = "playing" =>
              ~token /\ next' < MaxSegments /\ result[next'] = "ok"
         /\ \A i \in n .. next' - 1 : result[i] = "failed"
         /\ \A i \in p : \/ i \in pending' \/ i < next'
                         \/ (i = next' /\ pc'[Playback] = "playing")
         /\ pc'[Playback] = "get" => next' \notin pending'
         /\ pc'[Playback] = "done" /\ ~token => f = Workers /\ next' \notin pending'
<1> USE DEF PipelineAssumption
<1>0. Playback \in Children /\ pc \in [Children -> {"off", "streaming", "get",
        "synth", "playing", "discarding", "done"}] /\ token \in BOOLEAN
  BY DEF TypeOK, Children
<1>1. CASE n \in p /\ token
  <2>1. next' = n /\ pending' = p /\ pc' = [pc EXCEPT ![Playback] = "done"]
    BY <1>1 DEF Resume
  <2>2. pc'[Playback] = "done"
    BY <2>1, <1>0
  <2>3. \A i \in n .. n - 1 : FALSE
    OBVIOUS
  <2> QED  BY <2>1, <2>2, <2>3, <1>0, <1>1
<1>2. CASE ~(n \in p /\ token)
  <2>1. PICK m \in n .. MaxSegments :
          /\ \A i \in n .. m - 1 : i \in p /\ result[i] = "failed"
          /\ m \in p => result[m] = "ok"
          /\ next' = m
          /\ pending' = p \ (n .. m)
          /\ pc' = [pc EXCEPT ![Playback] =
                      IF m \in p THEN "playing"
                      ELSE IF f = Workers THEN "done" ELSE "get"]
    BY <1>2 DEF Resume
  <2>2. pc'[Playback] = IF m \in p THEN "playing"
                        ELSE IF f = Workers THEN "done" ELSE "get"
    BY <2>1, <1>0
  <2>3. m \in p => m < MaxSegments
    BY DEF Segments
  <2>4. m \in p => ~token
    <3> SUFFICES ASSUME m \in p, token PROVE FALSE
      BY <1>0
    <3>1. m = n \/ n \in n .. m - 1
      OBVIOUS
    <3> QED  BY <3>1, <2>1, <1>2
  <2>5. \A i \in p : i \in Int
    BY DEF Segments
  <2>6. \A i \in p : i \in pending' \/ i < m \/ i = m
    BY <2>1, <2>5
  <2> QED  BY <2>1, <2>2, <2>3, <2>4, <2>6, <1>0
<1> QED  BY <1>1, <1>2

-----------------------------------------------------------------------------
(* Types. *)

LEMMA EndChildType ==
  ASSUME TypeOK, NEW c \in Children, NEW failed \in BOOLEAN, EndChild(c, failed)
  PROVE  /\ pc' \in [Children -> {"off", "streaming", "get", "synth", "playing",
                                  "discarding", "done"}]
         /\ throw' \in SUBSET Children
         /\ childFailed' \in BOOLEAN
BY DEF TypeOK, EndChild

LEMMA TypeStep ==
  ASSUME TypeOK, JobsAreDistinct, PlaybackProgress, [Next]_vars
  PROVE  TypeOK'
<1> USE PipelineAssumption DEF PipelineAssumption, parentVars, cancelVars,
      queueVars, playVars, audioVars
<1>c. Stream \in Children /\ Playback \in Children /\ Workers \subseteq Children
  BY DEF Children
<1>0. \A w \in Workers : Append(audioQueue, w) \in Seq(Segments \cup Workers)
  BY AppendProperties DEF TypeOK
<1>1. CASE UNCHANGED vars
  BY <1>1 DEF TypeOK, vars
<1>2. CASE Cancel
  BY <1>2 DEF TypeOK, Cancel
<1>3. CASE StartGroup \/ BuildFails
  BY <1>3, ZenonT(60) DEF TypeOK, StartGroup, BuildFails
<1>4. CASE QueueSegment
  <2>1. fed \in Segments /\ fed + 1 \in 0 .. MaxSegments
    BY <1>4 DEF QueueSegment, TypeOK, Segments
  <2>2. ttsQueue' \in Seq(Segments \cup {End})
    BY <2>1, <1>4, AppendProperties DEF TypeOK, QueueSegment
  <2> QED  BY <2>1, <2>2, <1>4 DEF TypeOK, QueueSegment
<1>5. ASSUME NEW failed \in BOOLEAN, StreamEnds(failed) PROVE TypeOK'
  <2>1. ttsQueue' \in Seq(Segments \cup {End})
    BY <1>5, MarksAdded DEF StreamEnds, TypeOK
  <2>2. EndChild(Stream, failed)
    BY <1>5 DEF StreamEnds
  <2> QED  BY <2>1, <2>2, <1>5, <1>c, EndChildType DEF TypeOK, StreamEnds
<1>6. ASSUME NEW w \in Workers, TakeJob(w) PROVE TypeOK'
  <2>1. Head(ttsQueue) \in Nat /\ Tail(ttsQueue) \in Seq(Segments \cup {End})
    BY <1>6, HeadTailProperties DEF TakeJob, TypeOK, Segments
  <2> QED  BY <2>1, <1>6, <1>c DEF TypeOK, TakeJob
<1>7. ASSUME NEW w \in Workers, StopWorking(w) PROVE TypeOK'
  <2>1. Tail(ttsQueue) \in Seq(Segments \cup {End})
    BY <1>7, HeadTailProperties DEF StopWorking, TypeOK
  <2>2. EndChild(w, FALSE) /\ w \in Children /\ FALSE \in BOOLEAN
    BY <1>7, <1>c DEF StopWorking
  <2>3. /\ pc' \in [Children -> {"off", "streaming", "get", "synth", "playing",
                                 "discarding", "done"}]
        /\ throw' \in SUBSET Children
        /\ childFailed' \in BOOLEAN
    BY <2>2, EndChildType
  <2> QED  BY <2>1, <2>3, <1>0, <1>7 DEF TypeOK, StopWorking
<1>8. ASSUME NEW w \in Workers, NEW failed \in BOOLEAN, WorkerRaises(w, failed)
      PROVE  TypeOK'
  <2>2. EndChild(w, failed) /\ w \in Children
    BY <1>8, <1>c DEF WorkerRaises
  <2>3. /\ pc' \in [Children -> {"off", "streaming", "get", "synth", "playing",
                                 "discarding", "done"}]
        /\ throw' \in SUBSET Children
        /\ childFailed' \in BOOLEAN
    BY <2>2, EndChildType
  <2> QED  BY <2>3, <1>0, <1>8 DEF TypeOK, WorkerRaises
<1>9. ASSUME NEW w \in Workers, NEW r \in {"ok", "failed"}, Synthesized(w, r)
      PROVE  TypeOK'
  <2>1. job[w] \in Segments
    BY <1>9 DEF Synthesized, JobsAreDistinct
  <2>2. audioQueue' \in Seq(Segments \cup Workers)
    BY <2>1, <1>9, AppendProperties DEF TypeOK, Synthesized
  <2>3. /\ result' \in [Segments -> {"none", "ok", "failed"}]
        /\ cleanup' \in SUBSET Segments
        /\ throw' \in SUBSET Children
    BY <2>1, <1>9 DEF TypeOK, Synthesized
  <2>4. pc' \in [Children -> {"off", "streaming", "get", "synth", "playing",
                              "discarding", "done"}]
    BY <1>9, <1>c DEF TypeOK, Synthesized
  <2> QED  BY <2>2, <2>3, <2>4, <1>9 DEF TypeOK, Synthesized
<1>10. CASE TakeAudio
  <2> DEFINE head == Head(audioQueue)
             p == IF head \in Workers THEN pending ELSE pending \cup {head}
  <2>1. head \in Segments \cup Workers
        /\ Tail(audioQueue) \in Seq(Segments \cup Workers)
    BY <1>10, HeadTailProperties DEF TakeAudio, TypeOK
  <2>2. Resume(p, next, finished') /\ p \in SUBSET Segments
        /\ finished' \in SUBSET Workers
    BY <2>1, <1>10 DEF TakeAudio, TypeOK
  <2>3. next' \in next .. MaxSegments /\ pending' \in SUBSET p
        /\ pc' = [pc EXCEPT ![Playback] = pc'[Playback]]
        /\ pc'[Playback] \in {"playing", "get", "done"}
    <3> HIDE DEF p
    <3> next \in 0 .. MaxSegments
      BY DEF TypeOK
    <3> QED  BY <2>2, ResumeProperties
  <2>4. pc' \in [Children -> {"off", "streaming", "get", "synth", "playing",
                              "discarding", "done"}]
    BY <2>3, <1>c DEF TypeOK
  <2>5. next' \in 0 .. MaxSegments /\ pending' \in SUBSET Segments
    BY <2>2, <2>3 DEF TypeOK
  <2> QED  BY <2>1, <2>2, <2>4, <2>5, <1>10 DEF TypeOK, TakeAudio
<1>11. CASE PlaybackInterrupted
  <2>1. EndChild(Playback, FALSE) /\ FALSE \in BOOLEAN
    BY <1>11 DEF PlaybackInterrupted
  <2>2. /\ pc' \in [Children -> {"off", "streaming", "get", "synth", "playing",
                                 "discarding", "done"}]
        /\ throw' \in SUBSET Children
        /\ childFailed' \in BOOLEAN
    BY <2>1, <1>c, EndChildType
  <2> QED  BY <2>2, <1>11 DEF TypeOK, PlaybackInterrupted
<1>12. ASSUME NEW how \in {"continue", "cancel", "fail"}, PlayEnds(how)
       PROVE  TypeOK'
  <2>1. next \in Segments
    BY <1>12 DEF PlayEnds, TypeOK, PlaybackProgress, Segments
  <2> QED  BY <2>1, <1>c, <1>12 DEF TypeOK, PlayEnds
<1>13. CASE DiscardReturns
  <2>1. next + 1 \in 0 .. MaxSegments
    BY <1>13 DEF DiscardReturns, TypeOK, PlaybackProgress
  <2>2. CASE after = "continue"
    <3>1. Resume(pending, next + 1, finished) /\ pending \in SUBSET Segments
      BY <2>2, <1>13 DEF TypeOK, DiscardReturns
    <3>2. next' \in next + 1 .. MaxSegments /\ pending' \in SUBSET pending
          /\ pc' = [pc EXCEPT ![Playback] = pc'[Playback]]
          /\ pc'[Playback] \in {"playing", "get", "done"}
      BY <2>1, <3>1, ResumeProperties
    <3>4. pc' \in [Children -> {"off", "streaming", "get", "synth", "playing",
                                "discarding", "done"}]
      BY <3>2, <1>c DEF TypeOK
    <3>5. next' \in 0 .. MaxSegments /\ pending' \in SUBSET Segments
      BY <3>2, <2>1 DEF TypeOK
    <3> QED  BY <3>4, <3>5, <2>2, <1>13 DEF TypeOK, DiscardReturns
  <2>3. CASE after # "continue"
    <3>1. EndChild(Playback, after = "fail") /\ (after = "fail") \in BOOLEAN
      BY <2>3, <1>13 DEF DiscardReturns
    <3>2. /\ pc' \in [Children -> {"off", "streaming", "get", "synth", "playing",
                                   "discarding", "done"}]
          /\ throw' \in SUBSET Children
          /\ childFailed' \in BOOLEAN
      BY <3>1, <1>c, EndChildType
    <3> QED  BY <3>2, <2>3, <1>13 DEF TypeOK, DiscardReturns
  <2> QED  BY <2>2, <2>3
<1>14. ASSUME NEW failed \in BOOLEAN, DiscardRaises(failed) PROVE TypeOK'
  <2>1. EndChild(Playback, failed)
    BY <1>14 DEF DiscardRaises
  <2>2. /\ pc' \in [Children -> {"off", "streaming", "get", "synth", "playing",
                                 "discarding", "done"}]
        /\ throw' \in SUBSET Children
        /\ childFailed' \in BOOLEAN
    BY <2>1, <1>c, EndChildType
  <2> QED  BY <2>2, <1>14 DEF TypeOK, DiscardRaises
<1>15. CASE Abort \/ Joined
  BY <1>15 DEF TypeOK, Abort, Joined, Live
<1>16. CASE Stopped \/ StopRaises \/ CleanedUp
  BY <1>16, ZenonT(60) DEF TypeOK, Stopped, StopRaises, CleanedUp
<1> QED
  BY <1>1, <1>2, <1>3, <1>4, <1>5, <1>6, <1>7, <1>8, <1>9, <1>10, <1>11, <1>12,
     <1>13, <1>14, <1>15, <1>16
     DEF Next, StreamStep, WorkerStep, PlaybackStep, CleanUp
-----------------------------------------------------------------------------
(* The phases of the run and of its children. *)

(* What every step of a child does to them. *)
ChildMoves(c) ==
  /\ c \in Live
  /\ pc' = [pc EXCEPT ![c] = pc'[c]]
  /\ pc'[c] # "off"
  /\ c = Stream => pc'[c] \in {"streaming", "done"}
  /\ c = Playback => pc'[c] \in {"get", "playing", "discarding", "done"}
  /\ c \in Workers => pc'[c] \in {"get", "synth", "done"}
  /\ UNCHANGED <<run, outcome, audio, cutShort, cancelVars>>
  /\ throw' \subseteq throw
  /\ pc'[c] = "done" => c \notin throw'
  /\ c = Stream => cleanup' = cleanup

(* Playback gets from the queue, or from a discard, to where it suspends. *)
LEMMA TakeAudioResumes ==
  ASSUME TypeOK, PipelineAssumption, TakeAudio
  PROVE  \E p \in SUBSET Segments :
           /\ \/ Head(audioQueue) \in Workers /\ p = pending
                 /\ finished' = finished \cup {Head(audioQueue)}
              \/ Head(audioQueue) \in Segments /\ p = pending \cup {Head(audioQueue)}
                 /\ finished' = finished
           /\ finished' \in SUBSET Workers
           /\ next \in 0 .. MaxSegments
           /\ Resume(p, next, finished')
<1>1. Head(audioQueue) \in Segments \cup Workers
  BY HeadTailProperties DEF TakeAudio, TypeOK
<1>2. CASE Head(audioQueue) \in Workers
  <2>1. finished' = finished \cup {Head(audioQueue)} /\ Resume(pending, next, finished')
    BY <1>2 DEF TakeAudio
  <2> QED  BY <2>1, <1>2 DEF TypeOK
<1>3. CASE Head(audioQueue) \notin Workers
  <2>1. finished' = finished
        /\ Resume(pending \cup {Head(audioQueue)}, next, finished')
    BY <1>3 DEF TakeAudio
  <2>2. pending \cup {Head(audioQueue)} \in SUBSET Segments
    BY <1>1, <1>3 DEF TypeOK
  <2> QED  BY <2>1, <2>2, <1>1, <1>3 DEF TypeOK
<1> QED  BY <1>2, <1>3

LEMMA ChildSteps ==
  ASSUME TypeOK, PhasesAgree, PlaybackProgress, PipelineAssumption
  PROVE  /\ StreamStep => ChildMoves(Stream)
         /\ PlaybackStep => ChildMoves(Playback)
         /\ \A w \in Workers : WorkerStep(w) => ChildMoves(w)
<1> USE DEF PipelineAssumption, Live, ChildMoves, parentVars, cancelVars,
      queueVars, playVars, audioVars
<1>c. /\ Stream \in Children /\ Playback \in Children /\ Workers \subseteq Children
      /\ DOMAIN pc = Children
  BY DEF Children, TypeOK
<1>1. ASSUME StreamStep PROVE ChildMoves(Stream)
  <2>1. CASE QueueSegment
    <3>1. pc' = pc /\ pc[Stream] = "streaming"
      BY <2>1 DEF QueueSegment
    <3>2. pc' = [pc EXCEPT ![Stream] = pc'[Stream]]
      BY <3>1, <1>c DEF TypeOK
    <3> QED  BY <3>1, <3>2, <2>1, <1>c DEF QueueSegment
  <2>2. ASSUME NEW failed \in BOOLEAN, StreamEnds(failed) PROVE ChildMoves(Stream)
    BY <2>2, <1>c DEF StreamEnds, EndChild
  <2> QED  BY <2>1, <2>2, <1>1 DEF StreamStep
<1>2. ASSUME NEW w \in Workers, WorkerStep(w) PROVE ChildMoves(w)
  <2>1. CASE TakeJob(w)
    BY <2>1, <1>c DEF TakeJob
  <2>2. CASE StopWorking(w)
    BY <2>2, <1>c DEF StopWorking, EndChild
  <2>3. ASSUME NEW failed \in BOOLEAN, WorkerRaises(w, failed) PROVE ChildMoves(w)
    BY <2>3, <1>c DEF WorkerRaises, EndChild
  <2>4. ASSUME NEW r \in {"ok", "failed"}, Synthesized(w, r) PROVE ChildMoves(w)
    BY <2>4, <1>c DEF Synthesized
  <2> QED  BY <2>1, <2>2, <2>3, <2>4, <1>2 DEF WorkerStep
<1>3. ASSUME PlaybackStep PROVE ChildMoves(Playback)
  <2>1. CASE TakeAudio
    <3>1. pc' = [pc EXCEPT ![Playback] = pc'[Playback]]
          /\ pc'[Playback] \in {"playing", "get", "done"}
      BY <2>1, TakeAudioResumes, ResumeProperties
    <3> QED  BY <3>1, <2>1, <1>c DEF TakeAudio
  <2>2. CASE PlaybackInterrupted
    BY <2>2, <1>c DEF PlaybackInterrupted, EndChild
  <2>3. CASE DiscardReturns /\ after = "continue"
    <3>1. Resume(pending, next + 1, finished)
          /\ pending \in SUBSET Segments /\ next + 1 \in 0 .. MaxSegments
      BY <2>3 DEF DiscardReturns, TypeOK, PlaybackProgress
    <3>2. pc' = [pc EXCEPT ![Playback] = pc'[Playback]]
          /\ pc'[Playback] \in {"playing", "get", "done"}
      BY <3>1, ResumeProperties
    <3> QED  BY <3>2, <2>3, <1>c DEF DiscardReturns
  <2>4. CASE DiscardReturns /\ after # "continue"
    BY <2>4, <1>c DEF DiscardReturns, EndChild
  <2>5. ASSUME NEW how \in {"continue", "cancel", "fail"}, PlayEnds(how)
        PROVE  ChildMoves(Playback)
    BY <2>5, <1>c DEF PlayEnds
  <2>6. ASSUME NEW failed \in BOOLEAN, DiscardRaises(failed)
        PROVE  ChildMoves(Playback)
    BY <2>6, <1>c DEF DiscardRaises, EndChild
  <2> QED  BY <2>1, <2>2, <2>3, <2>4, <2>5, <2>6, <1>3 DEF PlaybackStep
<1> QED  BY <1>1, <1>2, <1>3

LEMMA PhasesStep ==
  ASSUME TypeOK, PhasesAgree, PlaybackProgress, [Next]_vars
  PROVE  PhasesAgree'
<1> USE PipelineAssumption DEF PipelineAssumption, InGroup, parentVars,
      cancelVars, queueVars, playVars, audioVars
<1>c. Stream \in Children /\ Playback \in Children /\ Workers \subseteq Children
  BY DEF Children
<1>1. CASE UNCHANGED vars
  BY <1>1 DEF PhasesAgree, Live, vars
<1>2. CASE Cancel
  BY <1>2 DEF PhasesAgree, Live, Cancel
<1>3. CASE StartGroup
  BY <1>3, <1>c DEF PhasesAgree, Live, StartGroup, TypeOK
<1>4. CASE BuildFails
  BY <1>4, <1>c DEF PhasesAgree, Live, BuildFails, TypeOK
<1>5. ASSUME NEW c \in Children, ChildMoves(c) PROVE PhasesAgree'
  <2>1. run \in {"group", "aborting"} /\ (audio \/ c = Stream)
    BY <1>5 DEF PhasesAgree, ChildMoves, Live, TypeOK
  <2>2. \A d \in Children : d # c => pc'[d] = pc[d]
    BY <1>5 DEF ChildMoves, TypeOK
  <2>3. UNCHANGED <<run, outcome, audio, token, parentThrow>>
    BY <1>5 DEF ChildMoves
  <2>4. throw' \subseteq Live'
    BY <2>2, <1>5 DEF ChildMoves, Live, PhasesAgree
  <2>5. pc'[Stream] \in {"off", "streaming", "done"}
        /\ pc'[Playback] \in {"off", "get", "playing", "discarding", "done"}
        /\ \A w \in Workers : pc'[w] \in {"off", "get", "synth", "done"}
    BY <2>2, <1>c, <1>5 DEF ChildMoves, PhasesAgree
  <2>6. \A d \in Children : pc'[d] # "off"
    BY <2>1, <2>2, <1>5 DEF ChildMoves, PhasesAgree
  <2>7. ~audio => cleanup' = {} /\ \A d \in Children \ {Stream} : d \notin Live'
    BY <2>1, <2>2, <1>5 DEF ChildMoves, PhasesAgree, Live
  <2>8. run # "aborting" => throw' = {}
    BY <1>5 DEF ChildMoves, PhasesAgree
  <2> QED  BY <2>1, <2>3, <2>4, <2>5, <2>6, <2>7, <2>8 DEF PhasesAgree
<1>6. CASE Abort
  BY <1>6 DEF PhasesAgree, Live, Abort
<1>7. CASE Joined
  BY <1>7 DEF PhasesAgree, Live, Joined
<1>8. CASE CleanUp
  <2>1. run \in {"stopping", "discarding"} /\ run' \in {"discarding", "done"}
        /\ (run' = "discarding" => cleanup # {})
    BY <1>8 DEF CleanUp, Stopped, StopRaises, CleanedUp
  <2>2. outcome' # "none"
    BY <2>1, <1>8 DEF CleanUp, Stopped, StopRaises, CleanedUp, PhasesAgree
  <2>3. UNCHANGED <<audio, pc, throw, cleanup>>
    BY <1>8 DEF CleanUp, Stopped, StopRaises, CleanedUp
  <2> QED  BY <2>1, <2>2, <2>3 DEF PhasesAgree, Live
<1> QED
  BY <1>1, <1>2, <1>3, <1>4, <1>5, <1>6, <1>7, <1>8, <1>c, ChildSteps DEF Next
-----------------------------------------------------------------------------
(* The jobs. *)

LEMMA JobsStep ==
  ASSUME TypeOK, PhasesAgree, JobsAreDistinct, PlaybackProgress, [Next]_vars
  PROVE  JobsAreDistinct'
<1> USE PipelineAssumption DEF PipelineAssumption, parentVars, cancelVars,
      queueVars, playVars, audioVars
<1>c. Stream \in Children /\ Playback \in Children /\ Workers \subseteq Children
  BY DEF Children
<1>s. \A i \in Segments : i \in Nat /\ i # End
  BY DEF Segments
<1>q. ttsQueue \in Seq(Segments \cup {End}) /\ fed \in Nat
      /\ result \in [Segments -> {"none", "ok", "failed"}]
      /\ job \in [Workers -> Nat]
  BY DEF TypeOK
<1>1. ASSUME UNCHANGED <<ttsQueue, job, result, fed>>,
             \A w \in Workers : pc'[w] = "synth" => pc[w] = "synth"
      PROVE  JobsAreDistinct'
  BY <1>1 DEF JobsAreDistinct, Once, In
<1>2. CASE UNCHANGED vars \/ Cancel \/ BuildFails \/ Abort \/ Joined \/ CleanUp
  BY <1>1, <1>2 DEF vars, Cancel, BuildFails, Abort, Joined, CleanUp, Stopped,
                    StopRaises, CleanedUp
<1>3. CASE StartGroup
  <2>1. \A w \in Workers : pc'[w] # "synth"
    BY <1>3, <1>c DEF StartGroup
  <2> QED  BY <1>1, <1>3, <2>1 DEF StartGroup
<1>4. CASE PlaybackStep
  <2>1. ChildMoves(Playback)
    BY <1>4, ChildSteps
  <2>2. \A w \in Workers : pc'[w] = pc[w]
    BY <2>1, <1>c DEF ChildMoves, TypeOK
  <2>3. UNCHANGED <<ttsQueue, job, result, fed>>
    BY <1>4 DEF PlaybackStep, TakeAudio, PlaybackInterrupted, DiscardReturns,
                PlayEnds, DiscardRaises
  <2> QED  BY <1>1, <2>2, <2>3
<1>5. CASE QueueSegment
  <2>1. fed \in Segments /\ fed' = fed + 1 /\ UNCHANGED <<job, result, pc>>
    BY <1>5, <1>q DEF QueueSegment, Segments, TypeOK
  <2>2. /\ Once(ttsQueue', Segments)
        /\ \A i \in Segments : In(ttsQueue', i) => In(ttsQueue, i) \/ i = fed
    <3>1. CASE audio
      <4>1. ttsQueue' = Append(ttsQueue, fed)
        BY <1>5, <3>1 DEF QueueSegment
      <4>2. fed \in Segments \cup {End} /\ ~In(ttsQueue, fed)
            /\ Once(ttsQueue, Segments)
        BY <2>1, <1>q DEF JobsAreDistinct
      <4>3. Once(Append(ttsQueue, fed), Segments)
        BY <4>2, <1>q, OnceAppend
      <4>4. \A i \in Segments :
              In(Append(ttsQueue, fed), i) => In(ttsQueue, i) \/ i = fed
        BY <4>2, <1>q, InAppend
      <4> QED  BY <4>1, <4>3, <4>4
    <3>2. CASE ~audio
      BY <1>5, <3>2 DEF QueueSegment, JobsAreDistinct
    <3> QED  BY <3>1, <3>2
  <2>3. result[fed] = "none"
    BY <2>1, <1>q DEF JobsAreDistinct
  <2>4. \A i \in Segments : In(ttsQueue', i) => i < fed' /\ result[i] = "none"
    BY <2>1, <2>2, <2>3, <1>q, <1>s DEF JobsAreDistinct
  <2>5. \A w \in Workers : pc[w] = "synth" => job[w] < fed' /\ ~In(ttsQueue', job[w])
    BY <2>1, <2>2, <1>q, <1>s DEF JobsAreDistinct
  <2>6. \A i \in Segments : i >= fed' => i >= fed
    BY <2>1, <1>q, <1>s
  <2> QED  BY <2>1, <2>2, <2>4, <2>5, <2>6 DEF JobsAreDistinct
<1>6. ASSUME NEW failed \in BOOLEAN, StreamEnds(failed) PROVE JobsAreDistinct'
  <2>1. UNCHANGED <<job, result, fed>> /\ \A w \in Workers : pc'[w] = pc[w]
    BY <1>6, <1>c DEF StreamEnds, EndChild, TypeOK
  <2>2. /\ Once(ttsQueue', Segments)
        /\ \A i \in Segments : In(ttsQueue', i) <=> In(ttsQueue, i)
    BY <1>6, <1>q, MarksAdded DEF StreamEnds, JobsAreDistinct
  <2> QED  BY <2>1, <2>2 DEF JobsAreDistinct
<1>7. ASSUME NEW w \in Workers, TakeJob(w) PROVE JobsAreDistinct'
  <2> DEFINE i0 == Head(ttsQueue)
  <2>1. i0 \in Segments /\ ttsQueue # <<>> /\ ttsQueue' = Tail(ttsQueue)
    BY <1>7, <1>q, HeadTailProperties DEF TakeJob
  <2>2. /\ Once(ttsQueue', Segments) /\ ~In(ttsQueue', i0)
    BY <2>1, <1>q, OnceTail DEF JobsAreDistinct
  <2>3. \A y : In(ttsQueue, y) <=> In(ttsQueue', y) \/ y = i0
    BY <2>1, <1>q, InTail
  <2>4. /\ job'[w] = i0 /\ pc'[w] = "synth" /\ UNCHANGED <<result, fed>>
        /\ \A v \in Workers : v # w => job'[v] = job[v] /\ pc'[v] = pc[v]
    BY <1>7, <1>c, <1>q DEF TakeJob, TypeOK
  <2>5. In(ttsQueue, i0)
    BY <2>3
  <2>6. \A v \in Workers : v # w /\ pc[v] = "synth" => job[v] # i0
    BY <2>5 DEF JobsAreDistinct
  <2> HIDE DEF i0
  <2>7. \A v \in Workers : pc'[v] = "synth" =>
          /\ job'[v] \in Segments /\ job'[v] < fed'
          /\ result'[job'[v]] = "none" /\ ~In(ttsQueue', job'[v])
    BY <2>1, <2>2, <2>3, <2>4, <2>5 DEF JobsAreDistinct
  <2>8. \A u, v \in Workers :
          u # v /\ pc'[u] = "synth" /\ pc'[v] = "synth" => job'[u] # job'[v]
    BY <2>4, <2>6 DEF JobsAreDistinct
  <2> QED  BY <2>2, <2>3, <2>4, <2>7, <2>8 DEF JobsAreDistinct
<1>8. ASSUME NEW w \in Workers, StopWorking(w) PROVE JobsAreDistinct'
  <2>1. Once(Tail(ttsQueue), Segments)
    BY <1>8, <1>q, OnceTail DEF JobsAreDistinct, StopWorking
  <2>2. \A y : In(Tail(ttsQueue), y) => In(ttsQueue, y)
    BY <1>8, <1>q, InTail DEF StopWorking
  <2>3. /\ ttsQueue' = Tail(ttsQueue) /\ UNCHANGED <<job, result, fed>>
        /\ \A v \in Workers : pc'[v] = "synth" => pc[v] = "synth"
    BY <1>8, <1>c DEF StopWorking, EndChild, TypeOK
  <2> QED  BY <2>1, <2>2, <2>3 DEF JobsAreDistinct
<1>9. ASSUME NEW w \in Workers, NEW failed \in BOOLEAN, WorkerRaises(w, failed)
      PROVE  JobsAreDistinct'
  <2>1. UNCHANGED <<ttsQueue, job, result, fed>>
        /\ \A v \in Workers : pc'[v] = "synth" => pc[v] = "synth"
    BY <1>9, <1>c DEF WorkerRaises, EndChild, TypeOK
  <2> QED  BY <1>1, <2>1
<1>10. ASSUME NEW w \in Workers, NEW r \in {"ok", "failed"}, Synthesized(w, r)
       PROVE  JobsAreDistinct'
  <2>1. /\ pc[w] = "synth" /\ job[w] \in Segments /\ job[w] < fed
        /\ ~In(ttsQueue, job[w])
    BY <1>10 DEF Synthesized, JobsAreDistinct
  <2>2. /\ UNCHANGED <<ttsQueue, job, fed>> /\ pc'[w] # "synth"
        /\ \A v \in Workers : v # w => pc'[v] = pc[v]
        /\ \A i \in Segments : i # job[w] => result'[i] = result[i]
    BY <1>10, <1>c, <1>q DEF Synthesized, TypeOK
  <2>3. \A v \in Workers : v # w /\ pc[v] = "synth" => job[v] # job[w]
    BY <2>1 DEF JobsAreDistinct
  <2>4. \A i \in Segments : i >= fed => i # job[w]
    BY <2>1, <1>q, <1>s
  <2> QED  BY <2>1, <2>2, <2>3, <2>4 DEF JobsAreDistinct
<1> QED
  BY <1>2, <1>3, <1>4, <1>5, <1>6, <1>7, <1>8, <1>9, <1>10
     DEF Next, StreamStep, WorkerStep

-----------------------------------------------------------------------------
(* Progress of playback. *)

LEMMA SplitRange ==
  ASSUME NEW a \in Int, NEW b \in Int
  PROVE  \A i \in 0 .. b - 1 : i \in 0 .. a - 1 \/ i \in a .. b - 1
OBVIOUS

(* The loop leaves only what is settled behind it. *)
LEMMA ResumeProgress ==
  ASSUME TypeOK, PipelineAssumption,
         NEW p \in SUBSET Segments, NEW n \in 0 .. MaxSegments, NEW f,
         Resume(p, n, f), InGroup,
         \A i \in 0 .. n - 1 : Settled(i),
         \A i \in discarded : i < n,
         \A i \in Segments : i \in p \/ In(audioQueue', i) => result[i] # "none",
         UNCHANGED <<run, result, discarded>>
  PROVE  PlaybackProgress'
<1> USE DEF PipelineAssumption
<1>1. /\ next' \in n .. MaxSegments /\ pending' \in SUBSET p
      /\ pc'[Playback] \in {"playing", "get", "done"}
      /\ pc'[Playback] = "playing" => next' < MaxSegments /\ result[next'] = "ok"
      /\ \A i \in n .. next' - 1 : result[i] = "failed"
  BY ResumeProperties
<1>2. \A i \in 0 .. next' - 1 : i \in 0 .. n - 1 \/ i \in n .. next' - 1
  <2>1. n \in Int /\ next' \in Int
    BY <1>1
  <2> QED  BY <2>1, SplitRange
<1>3. \A i \in 0 .. next' - 1 : Settled(i)'
  BY <1>1, <1>2 DEF Settled
<1>4. \A i \in discarded : i < next'
  BY <1>1 DEF TypeOK, Segments
<1> QED  BY <1>1, <1>3, <1>4 DEF PlaybackProgress

LEMMA ProgressStep ==
  ASSUME TypeOK, PhasesAgree, JobsAreDistinct, PlaybackProgress, [Next]_vars
  PROVE  PlaybackProgress'
<1> USE PipelineAssumption DEF PipelineAssumption, parentVars, cancelVars,
      queueVars, playVars, audioVars
<1>c. Stream \in Children /\ Playback \in Children /\ Workers \subseteq Children
  BY DEF Children
<1>s. \A i \in Segments : i \in Nat /\ i \notin Workers
  BY DEF Segments
<1>q. audioQueue \in Seq(Segments \cup Workers) /\ next \in 0 .. MaxSegments
      /\ pending \in SUBSET Segments /\ discarded \in SUBSET Segments
      /\ result \in [Segments -> {"none", "ok", "failed"}]
  BY DEF TypeOK
<1> DEFINE Untouched == next' = next /\ result' = result /\ pending' = pending
                        /\ audioQueue' = audioQueue
                        /\ pc'[Playback] = pc[Playback]
                        /\ discarded \subseteq discarded'
                        /\ (InGroup' => InGroup /\ discarded' = discarded)
<1>1. ASSUME Untouched PROVE PlaybackProgress'
  BY <1>1 DEF PlaybackProgress, Settled, In
<1>2. CASE UNCHANGED vars \/ Cancel \/ BuildFails \/ Abort \/ Joined
  <2>1. Untouched
    BY <1>2 DEF vars, Cancel, BuildFails, Abort, Joined, InGroup
  <2> QED  BY <2>1, <1>1
<1>3. CASE CleanUp
  <2>1. Untouched
    BY <1>3 DEF CleanUp, Stopped, StopRaises, CleanedUp, InGroup
  <2> QED  BY <2>1, <1>1
<1>4. CASE StartGroup
  <2>1. pc'[Playback] \in {"get", "done"}
    BY <1>4, <1>c DEF StartGroup
  <2>2. next = 0 /\ pending = {} /\ discarded = {} /\ audioQueue = <<>>
    BY <1>4 DEF StartGroup, PhasesAgree
  <2>3. UNCHANGED <<next, result, pending, audioQueue, discarded>>
    BY <1>4 DEF StartGroup
  <2> QED  BY <2>1, <2>2, <2>3 DEF PlaybackProgress, In
<1>5. CASE StreamStep
  <2>1. pc'[Playback] = pc[Playback]
        /\ UNCHANGED <<next, result, pending, audioQueue, discarded, run>>
    BY <1>5, <1>c DEF StreamStep, QueueSegment, StreamEnds, EndChild, TypeOK
  <2>2. Untouched
    BY <2>1 DEF InGroup
  <2> QED  BY <2>2, <1>1
<1>6. ASSUME NEW w \in Workers, WorkerStep(w) PROVE PlaybackProgress'
  <2>1. pc'[Playback] = pc[Playback] /\ UNCHANGED <<next, pending, discarded, run>>
    BY <1>6, <1>c DEF WorkerStep, TakeJob, StopWorking, WorkerRaises, EndChild,
                      Synthesized, TypeOK
  <2>2. CASE TakeJob(w)
    <3>1. Untouched
      BY <2>1, <2>2 DEF TakeJob, InGroup
    <3> QED  BY <3>1, <1>1
  <2>3. ASSUME NEW failed \in BOOLEAN, StopWorking(w) \/ WorkerRaises(w, failed)
        PROVE  PlaybackProgress'
    <3>1. audioQueue' = Append(audioQueue, w) /\ result' = result
      BY <2>3 DEF StopWorking, WorkerRaises
    <3>2. \A i \in Segments : In(audioQueue', i) => In(audioQueue, i)
      BY <3>1, <1>q, <1>s, InAppend
    <3> QED  BY <2>1, <3>1, <3>2 DEF PlaybackProgress, Settled, InGroup
  <2>4. ASSUME NEW r \in {"ok", "failed"}, Synthesized(w, r)
        PROVE  PlaybackProgress'
    <3>1. job[w] \in Segments /\ result[job[w]] = "none"
      BY <2>4 DEF Synthesized, JobsAreDistinct
    <3>2. /\ \A i \in Segments : i # job[w] => result'[i] = result[i]
          /\ result'[job[w]] = r
      BY <2>4, <3>1, <1>q DEF Synthesized
    <3>3. \A i \in Segments : In(audioQueue', i) => In(audioQueue, i) \/ i = job[w]
      <4>1. \E x \in Segments \cup Workers :
              audioQueue' = Append(audioQueue, x) /\ x \in {w, job[w]}
        BY <2>4, <3>1 DEF Synthesized
      <4> QED  BY <4>1, <1>q, <1>s, InAppend
    <3>4. \A i \in 0 .. next - 1 : i \in Segments /\ Settled(i)'
      BY <2>1, <3>1, <3>2, <1>q DEF PlaybackProgress, Settled, Segments
    <3>5. pc[Playback] = "playing" => result'[next] = "ok"
      BY <3>1, <3>2, <1>q DEF PlaybackProgress, Segments
    <3> QED  BY <2>1, <3>1, <3>2, <3>3, <3>4, <3>5 DEF PlaybackProgress, InGroup
  <2> QED  BY <2>2, <2>3, <2>4, <1>6 DEF WorkerStep
<1>7. CASE TakeAudio
  <2>1. PICK p \in SUBSET Segments :
           /\ \/ Head(audioQueue) \in Workers /\ p = pending
                 /\ finished' = finished \cup {Head(audioQueue)}
              \/ Head(audioQueue) \in Segments /\ p = pending \cup {Head(audioQueue)}
                 /\ finished' = finished
           /\ finished' \in SUBSET Workers
           /\ next \in 0 .. MaxSegments
           /\ Resume(p, next, finished')
    BY <1>7, TakeAudioResumes
  <2>2. InGroup
    BY <1>7, <1>c DEF TakeAudio, PhasesAgree, Live, TypeOK, InGroup
  <2>3. \A i \in Segments : i \in p \/ In(audioQueue', i) => result[i] # "none"
    <3>1. \A y : In(audioQueue, y) <=> In(audioQueue', y) \/ y = Head(audioQueue)
      BY <1>7, <1>q, InTail DEF TakeAudio
    <3> QED  BY <3>1, <2>1 DEF PlaybackProgress
  <2>4. \A i \in discarded : i < next
    BY <1>7, <2>2 DEF TakeAudio, PlaybackProgress
  <2>5. UNCHANGED <<run, result, discarded>>
    BY <1>7 DEF TakeAudio
  <2>6. \A i \in 0 .. next - 1 : Settled(i)
    BY DEF PlaybackProgress
  <2> QED  BY <2>1, <2>2, <2>3, <2>4, <2>5, <2>6, ResumeProgress
<1>8. CASE DiscardReturns /\ after = "continue"
  <2>1. /\ Resume(pending, next + 1, finished)
        /\ next + 1 \in 0 .. MaxSegments /\ next \in discarded
    BY <1>8, <1>q DEF DiscardReturns, PlaybackProgress
  <2>2. InGroup
    BY <1>8, <1>c DEF DiscardReturns, PhasesAgree, Live, TypeOK, InGroup
  <2>3. \A i \in discarded : i < next + 1
    BY <2>2, <1>q, <1>s DEF PlaybackProgress
  <2>4. UNCHANGED <<run, result, discarded, audioQueue>>
    BY <1>8 DEF DiscardReturns
  <2>5. \A i \in 0 .. (next + 1) - 1 : Settled(i)
    <3>1. \A i \in 0 .. (next + 1) - 1 : i \in 0 .. next - 1 \/ i = next
      BY <1>q
    <3> QED  BY <2>1, <3>1 DEF PlaybackProgress, Settled
  <2>6. \A i \in Segments : i \in pending \/ In(audioQueue', i) => result[i] # "none"
    BY <2>4 DEF PlaybackProgress, In
  <2> QED  BY <2>1, <2>2, <2>3, <2>4, <2>5, <2>6, <1>q, ResumeProgress
<1>9. ASSUME NEW failed \in BOOLEAN,
             (DiscardReturns /\ after # "continue") \/ PlaybackInterrupted
             \/ DiscardRaises(failed)
      PROVE  PlaybackProgress'
  <2>1. UNCHANGED <<next, result, pending, audioQueue, discarded, run>>
        /\ pc'[Playback] = "done"
    BY <1>9, <1>c DEF DiscardReturns, PlaybackInterrupted, DiscardRaises, EndChild,
                      TypeOK
  <2> QED  BY <2>1 DEF PlaybackProgress, Settled, In, InGroup
<1>10. ASSUME NEW how \in {"continue", "cancel", "fail"}, PlayEnds(how)
       PROVE  PlaybackProgress'
  <2>1. /\ UNCHANGED <<next, result, pending, audioQueue, run>>
        /\ pc'[Playback] = "discarding" /\ discarded' = discarded \cup {next}
        /\ pc[Playback] = "playing"
    BY <1>10, <1>c DEF PlayEnds, TypeOK
  <2> QED  BY <2>1 DEF PlaybackProgress, Settled, In, InGroup
<1> QED
  BY <1>2, <1>3, <1>4, <1>5, <1>6, <1>7, <1>8, <1>9, <1>10
     DEF Next, PlaybackStep

-----------------------------------------------------------------------------
(* The results are in cleanup until they are discarded. *)

LEMMA TrackedStep ==
  ASSUME TypeOK, PhasesAgree, JobsAreDistinct, PlaybackProgress, AudioIsTracked,
         [Next]_vars
  PROVE  AudioIsTracked'
<1> USE PipelineAssumption DEF PipelineAssumption, parentVars, cancelVars,
      queueVars, playVars, audioVars
<1>c. Stream \in Children /\ Playback \in Children /\ Workers \subseteq Children
  BY DEF Children
<1>1. CASE UNCHANGED vars \/ Cancel \/ StartGroup \/ Abort
  BY <1>1 DEF AudioIsTracked, vars, Cancel, StartGroup, Abort
<1>2. CASE BuildFails \/ Joined
  BY <1>2 DEF AudioIsTracked, BuildFails, Joined, PhasesAgree, InGroup
<1>3. CASE CleanUp
  BY <1>3 DEF AudioIsTracked, CleanUp, Stopped, StopRaises, CleanedUp
<1>4. ASSUME NEW c \in Children, ChildMoves(c),
             \A i \in Segments : result'[i] = "ok" <=> i \in cleanup' \cup discarded'
      PROVE  AudioIsTracked'
  BY <1>4 DEF AudioIsTracked, ChildMoves, PhasesAgree
<1>5. CASE StreamStep
  BY <1>4, <1>5, <1>c, ChildSteps DEF StreamStep, QueueSegment, StreamEnds,
                                      AudioIsTracked
<1>6. CASE PlaybackStep
  <2>1. \A i \in Segments : result'[i] = "ok" <=> i \in cleanup' \cup discarded'
    BY <1>6 DEF PlaybackStep, TakeAudio, PlaybackInterrupted, DiscardReturns,
                PlayEnds, DiscardRaises, AudioIsTracked, PlaybackProgress
  <2> QED  BY <2>1, <1>4, <1>6, <1>c, ChildSteps
<1>7. ASSUME NEW w \in Workers, WorkerStep(w) PROVE AudioIsTracked'
  <2>1. \A i \in Segments : result'[i] = "ok" <=> i \in cleanup' \cup discarded'
    <3>1. CASE UNCHANGED <<result, cleanup, discarded>>
      BY <3>1 DEF AudioIsTracked
    <3>2. ASSUME NEW r \in {"ok", "failed"}, Synthesized(w, r)
          PROVE  \A i \in Segments :
                   result'[i] = "ok" <=> i \in cleanup' \cup discarded'
      <4>1. job[w] \in Segments /\ result[job[w]] = "none"
        BY <3>2 DEF Synthesized, JobsAreDistinct
      <4>2. job[w] \notin cleanup \cup discarded
        BY <4>1 DEF AudioIsTracked
      <4> QED  BY <4>1, <4>2, <3>2 DEF Synthesized, AudioIsTracked, TypeOK
    <3> QED  BY <3>1, <3>2, <1>7 DEF WorkerStep, TakeJob, StopWorking, WorkerRaises
  <2> QED  BY <2>1, <1>4, <1>7, <1>c, ChildSteps
<1> QED  BY <1>1, <1>2, <1>3, <1>5, <1>6, <1>7 DEF Next
-----------------------------------------------------------------------------
(* A run that nothing disturbs. *)

(* The only steps that leave it undisturbed. *)
CalmStep ==
  \/ UNCHANGED vars \/ StreamStep
  \/ \E w \in Workers : \/ TakeJob(w)
                        \/ (StopWorking(w) /\ Head(ttsQueue) = End)
                        \/ \E r \in {"ok", "failed"} : Synthesized(w, r)
  \/ TakeAudio \/ (DiscardReturns /\ after = "continue")
  \/ \E how \in {"continue", "fail"} : PlayEnds(how)

LEMMA EndChildFails ==
  ASSUME NEW c, NEW failed \in BOOLEAN, EndChild(c, failed)
  PROVE  (childFailed => childFailed') /\ (failed => childFailed')
<1>1. childFailed' = (childFailed \/ failed)
  BY DEF EndChild
<1> QED  BY <1>1, Zenon

LEMMA CalmSteps ==
  ASSUME TypeOK, PhasesAgree, PlaybackProgress, PlaybackCounts, [Next]_vars,
         Undisturbed'
  PROVE  StartGroup \/ (Undisturbed /\ throw = {} /\ CalmStep)
<1> USE DEF Undisturbed, parentVars, cancelVars, queueVars, playVars, audioVars
<1> SUFFICES ASSUME ~StartGroup
             PROVE  Undisturbed /\ throw = {} /\ CalmStep
  OBVIOUS
<1>0. ~token' /\ ~childFailed' /\ run' = "group" /\ audio'
  OBVIOUS
<1>1. CASE UNCHANGED vars
  BY <1>1, <1>0 DEF vars, CalmStep, PhasesAgree
<1>2. ~Cancel /\ ~BuildFails /\ ~Abort /\ ~Joined /\ ~CleanUp
  BY <1>0 DEF Cancel, BuildFails, Abort, Joined, CleanUp, Stopped, StopRaises,
              CleanedUp
<1>3. ASSUME StreamStep \/ PlaybackStep \/ \E w \in Workers : WorkerStep(w)
      PROVE  Undisturbed /\ throw = {} /\ CalmStep
  <2>0. FALSE \in BOOLEAN /\ (after = "fail") \in BOOLEAN
    OBVIOUS
  <2>1. UNCHANGED <<run, token, audio>>
    BY <1>3, ChildSteps, PipelineAssumption DEF ChildMoves
  <2>b. ~childFailed
    <3>1. CASE UNCHANGED childFailed
      BY <3>1, <1>0
    <3>2. ASSUME NEW c, NEW failed \in BOOLEAN, EndChild(c, failed)
          PROVE  ~childFailed
      BY <3>2, <1>0, EndChildFails
    <3>3. CASE StreamStep
      BY <3>1, <3>2, <3>3 DEF StreamStep, QueueSegment, StreamEnds
    <3>4. CASE PlaybackStep
      BY <3>1, <3>2, <3>4, <2>0
         DEF PlaybackStep, TakeAudio, PlaybackInterrupted, DiscardReturns,
             PlayEnds, DiscardRaises
    <3>5. ASSUME NEW w \in Workers, WorkerStep(w) PROVE ~childFailed
      BY <3>1, <3>2, <3>5, <2>0
         DEF WorkerStep, TakeJob, StopWorking, WorkerRaises, Synthesized
    <3> QED  BY <3>3, <3>4, <3>5, <1>3
  <2>2. Undisturbed /\ throw = {}
    BY <2>1, <2>b, <1>0 DEF PhasesAgree
  <2>3. CASE StreamStep
    BY <2>2, <2>3 DEF CalmStep
  <2>4. CASE PlaybackStep
    <3>1. ~PlaybackInterrupted
      BY <2>2 DEF PlaybackInterrupted
    <3>2. ASSUME NEW failed \in BOOLEAN, DiscardRaises(failed) PROVE FALSE
      BY <3>2, <2>2, <1>0, EndChildFails DEF DiscardRaises
    <3>3. DiscardReturns => after = "continue"
      <4>1. ASSUME DiscardReturns, after # "continue" PROVE FALSE
        <5>1. after = "fail"
          BY <4>1, <2>2 DEF DiscardReturns, PlaybackCounts, TypeOK
        <5>2. EndChild(Playback, after = "fail")
          BY <4>1 DEF DiscardReturns
        <5> QED  BY <5>1, <5>2, <2>0, <1>0, EndChildFails
      <4> QED  BY <4>1
    <3>4. ASSUME NEW how \in {"continue", "cancel", "fail"}, PlayEnds(how)
          PROVE  how \in {"continue", "fail"}
      BY <3>4, <2>2 DEF PlayEnds
    <3>5. (\E how \in {"continue", "cancel", "fail"} : PlayEnds(how)) =>
            \E how \in {"continue", "fail"} : PlayEnds(how)
      BY <3>4, Zenon
    <3>6. ~\E failed \in BOOLEAN : DiscardRaises(failed)
      BY <3>2
    <3>7. CalmStep
      BY <3>1, <3>3, <3>5, <3>6, <2>4, Zenon DEF PlaybackStep, CalmStep
    <3> QED  BY <3>7, <2>2
  <2>5. ASSUME NEW w \in Workers, WorkerStep(w) PROVE CalmStep
    <3>1. ASSUME NEW failed \in BOOLEAN, WorkerRaises(w, failed) PROVE FALSE
      BY <3>1, <2>2, <1>0, EndChildFails DEF WorkerRaises
    <3>2. StopWorking(w) => Head(ttsQueue) = End
      BY <2>2 DEF StopWorking
    <3> QED  BY <3>1, <3>2, <2>5 DEF WorkerStep, CalmStep
  <2> QED  BY <2>2, <2>3, <2>4, <2>5, <1>3
<1> QED  BY <1>1, <1>2, <1>3 DEF Next

LEMMA NothingLostStep ==
  ASSUME TypeOK, PhasesAgree, JobsAreDistinct, PlaybackProgress, NothingIsLost,
         PlaybackCounts, [Next]_vars
  PROVE  NothingIsLost'
<1> USE PipelineAssumption DEF PipelineAssumption, parentVars, cancelVars,
      queueVars, playVars, audioVars
<1> SUFFICES ASSUME Undisturbed', NEW i \in 0 .. fed' - 1
             PROVE  OnTheWay(i)'
  BY DEF NothingIsLost
<1>c. Stream \in Children /\ Playback \in Children /\ Workers \subseteq Children
  BY DEF Children
<1>q. /\ ttsQueue \in Seq(Segments \cup {End})
      /\ audioQueue \in Seq(Segments \cup Workers)
      /\ fed \in 0 .. MaxSegments /\ next \in 0 .. MaxSegments
      /\ job \in [Workers -> Nat] /\ DOMAIN pc = Children
  BY DEF TypeOK
<1>1. CASE StartGroup
  BY <1>1 DEF StartGroup, PhasesAgree
<1>2. CASE QueueSegment
  <2>1. fed \in Segments \cup {End} /\ ttsQueue' = Append(ttsQueue, fed)
    BY <1>2, <1>q DEF QueueSegment, Segments, Undisturbed
  <2>2. \A y : In(ttsQueue', y) <=> In(ttsQueue, y) \/ y = fed
    BY <2>1, <1>q, InAppend
  <2>3. i \in 0 .. fed - 1 \/ i = fed
    BY <1>2, <1>q DEF QueueSegment
  <2>4. CASE i \in 0 .. fed - 1
    <3>1. OnTheWay(i)
      BY <2>4, <1>2 DEF NothingIsLost, Undisturbed, QueueSegment
    <3> QED  BY <3>1, <2>2, <1>2 DEF OnTheWay, QueueSegment, In
  <2>5. CASE i = fed
    BY <2>2, <2>5 DEF OnTheWay
  <2> QED  BY <2>3, <2>4, <2>5
<1>3. ASSUME Undisturbed, throw = {}, CalmStep, ~QueueSegment
      PROVE  OnTheWay(i)'
  <2>0. fed' = fed
    BY <1>3 DEF CalmStep, vars, StreamStep, StreamEnds, TakeJob, StopWorking, Synthesized,
                TakeAudio, DiscardReturns, PlayEnds
  <2>1. OnTheWay(i) /\ i \in Segments
    BY <2>0, <1>3, <1>q DEF NothingIsLost, Segments
  <2>2. CASE UNCHANGED vars
    BY <2>1, <2>2 DEF vars, OnTheWay, In
  <2>3. ASSUME NEW failed \in BOOLEAN, StreamEnds(failed) PROVE OnTheWay(i)'
    <3>1. In(ttsQueue', i) <=> In(ttsQueue, i)
      BY <2>1, <2>3, <1>q, MarksAdded DEF StreamEnds
    <3>2. /\ \A w \in Workers : pc'[w] = pc[w] /\ job'[w] = job[w]
          /\ pc'[Playback] = pc[Playback]
          /\ UNCHANGED <<audioQueue, pending, next>>
      BY <2>3, <1>c, <1>q DEF StreamEnds, EndChild
    <3> QED  BY <2>1, <3>1, <3>2 DEF OnTheWay, In
  <2>4. ASSUME NEW w \in Workers, TakeJob(w) PROVE OnTheWay(i)'
    <3>1. In(ttsQueue, i) <=> In(ttsQueue', i) \/ i = Head(ttsQueue)
      BY <2>4, <1>q, InTail DEF TakeJob
    <3>2. /\ pc'[w] = "synth" /\ job'[w] = Head(ttsQueue) /\ pc[w] # "synth"
          /\ \A v \in Workers : v # w => pc'[v] = pc[v] /\ job'[v] = job[v]
          /\ pc'[Playback] = pc[Playback]
          /\ UNCHANGED <<audioQueue, pending, next>>
      BY <2>4, <1>c, <1>q DEF TakeJob
    <3>3. In(audioQueue', i) <=> In(audioQueue, i)
      BY <3>2 DEF In
    <3>4. ASSUME NEW v \in Workers, pc[v] = "synth"
          PROVE  pc'[v] = "synth" /\ job'[v] = job[v]
      BY <3>2, <3>4
    <3>5. In(ttsQueue, i) => In(ttsQueue', i) \/ (pc'[w] = "synth" /\ job'[w] = i)
      BY <3>1, <3>2
    <3>6. (\E v \in Workers : pc[v] = "synth" /\ job[v] = i) =>
            \E v \in Workers : pc'[v] = "synth" /\ job'[v] = i
      BY <3>4
    <3> QED  BY <2>1, <3>2, <3>3, <3>5, <3>6 DEF OnTheWay
  <2>5. ASSUME NEW w \in Workers, StopWorking(w), Head(ttsQueue) = End
        PROVE  OnTheWay(i)'
    <3>1. In(ttsQueue, i) <=> In(ttsQueue', i) \/ i = End
      BY <2>5, <1>q, InTail DEF StopWorking
    <3>2. In(audioQueue', i) <=> In(audioQueue, i) \/ i = w
      <4>1. audioQueue' = Append(audioQueue, w) /\ w \in Segments \cup Workers
        BY <2>5 DEF StopWorking
      <4> QED  BY <4>1, <1>q, InAppend
    <3>3. /\ pc[w] # "synth"
          /\ \A v \in Workers : v # w => pc'[v] = pc[v] /\ job'[v] = job[v]
          /\ pc'[Playback] = pc[Playback]
          /\ UNCHANGED <<pending, next>>
      BY <2>5, <1>c, <1>q DEF StopWorking, EndChild
    <3>4. i # End
      BY <2>1 DEF Segments
    <3> QED  BY <2>1, <3>1, <3>2, <3>3, <3>4 DEF OnTheWay
  <2>6. ASSUME NEW w \in Workers, NEW r \in {"ok", "failed"}, Synthesized(w, r)
        PROVE  OnTheWay(i)'
    <3>1. audioQueue' = Append(audioQueue, job[w]) /\ job[w] \in Segments
      BY <2>6, <1>3 DEF Synthesized, Undisturbed, JobsAreDistinct
    <3>2. In(audioQueue', i) <=> In(audioQueue, i) \/ i = job[w]
      BY <3>1, <1>q, InAppend
    <3>3. /\ \A v \in Workers : v # w => pc'[v] = pc[v] /\ job'[v] = job[v]
          /\ pc'[Playback] = pc[Playback]
          /\ UNCHANGED <<ttsQueue, pending, next>>
      BY <2>6, <1>c, <1>q DEF Synthesized
    <3> QED  BY <2>1, <3>2, <3>3 DEF OnTheWay, In
  <2>7. CASE TakeAudio
    <3>1. PICK p \in SUBSET Segments :
             /\ \/ Head(audioQueue) \in Workers /\ p = pending
                   /\ finished' = finished \cup {Head(audioQueue)}
                \/ Head(audioQueue) \in Segments
                   /\ p = pending \cup {Head(audioQueue)}
                   /\ finished' = finished
             /\ finished' \in SUBSET Workers
             /\ next \in 0 .. MaxSegments
             /\ Resume(p, next, finished')
      BY <2>7, TakeAudioResumes
    <3>2. /\ next' \in next .. MaxSegments
          /\ pc' = [pc EXCEPT ![Playback] = pc'[Playback]]
          /\ \A j \in p : \/ j \in pending' \/ j < next'
                          \/ (j = next' /\ pc'[Playback] = "playing")
      BY <3>1, ResumeProperties
    <3>3. \A v \in Workers : pc'[v] = pc[v]
      BY <3>2, <1>c, <1>q
    <3>4. In(audioQueue, i) <=> In(audioQueue', i) \/ i = Head(audioQueue)
      BY <2>7, <1>q, InTail DEF TakeAudio
    <3>5. i \notin Workers
      BY <2>1 DEF Segments
    <3>6. pending \subseteq p /\ (i = Head(audioQueue) => i \in p)
      BY <3>1, <3>5
    <3>7. i < next => i < next'
      BY <3>2, <2>1, <1>q DEF Segments
    <3>8. UNCHANGED <<ttsQueue, job>> /\ pc[Playback] = "get"
      BY <2>7 DEF TakeAudio
    <3> QED  BY <2>1, <3>2, <3>3, <3>4, <3>6, <3>7, <3>8 DEF OnTheWay, In
  <2>8. CASE DiscardReturns /\ after = "continue"
    <3>1. /\ Resume(pending, next + 1, finished)
          /\ next + 1 \in 0 .. MaxSegments /\ pending \in SUBSET Segments
      BY <2>8, <1>q DEF DiscardReturns, PlaybackProgress, TypeOK
    <3>2. /\ next' \in next + 1 .. MaxSegments
          /\ pc' = [pc EXCEPT ![Playback] = pc'[Playback]]
          /\ \A j \in pending : \/ j \in pending' \/ j < next'
                                \/ (j = next' /\ pc'[Playback] = "playing")
      BY <3>1, ResumeProperties
    <3>3. \A v \in Workers : pc'[v] = pc[v]
      BY <3>2, <1>c, <1>q
    <3>4. i < next \/ i = next => i < next'
      BY <3>2, <2>1, <1>q DEF Segments
    <3>5. UNCHANGED <<ttsQueue, job, audioQueue>>
      BY <2>8 DEF DiscardReturns
    <3> QED  BY <2>1, <3>2, <3>3, <3>4, <3>5 DEF OnTheWay, In
  <2>9. ASSUME NEW how \in {"continue", "fail"}, PlayEnds(how)
        PROVE  OnTheWay(i)'
    <3>1. /\ \A v \in Workers : pc'[v] = pc[v]
          /\ pc'[Playback] = "discarding"
          /\ UNCHANGED <<ttsQueue, job, audioQueue, pending, next>>
      BY <2>9, <1>c, <1>q DEF PlayEnds
    <3> QED  BY <2>1, <3>1 DEF OnTheWay, In
  <2> QED
    BY <2>2, <2>3, <2>4, <2>5, <2>6, <2>7, <2>8, <2>9, <1>3
       DEF CalmStep, StreamStep
<1> QED  BY <1>1, <1>2, <1>3, CalmSteps
LEMMA OnlyFromAppend ==
  ASSUME NEW T, NEW q \in Seq(T), NEW x \in T, NEW y, x # y, ~In(q, y)
  PROVE  OnlyFrom(Append(q, x), y)
<1>1. ~In(Append(q, x), y)
  BY InAppend
<1> QED  BY <1>1 DEF In, OnlyFrom

LEMMA OnlyFromTail ==
  ASSUME NEW T, NEW q \in Seq(T), q # <<>>, NEW y, OnlyFrom(q, y)
  PROVE  /\ OnlyFrom(Tail(q), y)
         /\ Head(q) = y => \A z : In(q, z) => z = y
<1>1. Tail(q) \in Seq(T) /\ Len(Tail(q)) = Len(q) - 1 /\ Head(q) = q[1]
      /\ \A k \in 1 .. Len(Tail(q)) : Tail(q)[k] = q[k + 1]
  BY HeadTailProperties
<1>2. DOMAIN q = 1 .. Len(q) /\ DOMAIN Tail(q) = 1 .. Len(q) - 1
      /\ Len(q) \in Nat /\ Len(q) # 0
  BY <1>1, LenProperties, EmptySeq
<1>3. \A k \in DOMAIN Tail(q) : k + 1 \in DOMAIN q /\ Tail(q)[k] = q[k + 1]
  BY <1>1, <1>2
<1>4. \A k, l \in DOMAIN Tail(q) : k <= l => k + 1 <= l + 1
  BY <1>2
<1>5. OnlyFrom(Tail(q), y)
  BY <1>3, <1>4 DEF OnlyFrom
<1>6. 1 \in DOMAIN q /\ \A k \in DOMAIN q : 1 <= k
  BY <1>2
<1>7. Head(q) = y => \A z : In(q, z) => z = y
  BY <1>1, <1>6 DEF In, OnlyFrom
<1> QED  BY <1>5, <1>7

LEMMA TailLast ==
  ASSUME NEW T, NEW q \in Seq(T), q # <<>>, Tail(q) # <<>>
  PROVE  Tail(q)[Len(Tail(q))] = q[Len(q)]
<1>1. Tail(q) \in Seq(T) /\ Len(Tail(q)) = Len(q) - 1
      /\ \A k \in 1 .. Len(Tail(q)) : Tail(q)[k] = q[k + 1]
  BY HeadTailProperties
<1>2. Len(q) \in Nat /\ Len(Tail(q)) \in Nat /\ Len(Tail(q)) # 0
  BY <1>1, LenProperties, EmptySeq
<1> QED  BY <1>1, <1>2

LEMMA MarksJobsStep ==
  ASSUME TypeOK, PhasesAgree, PlaybackProgress, MarksFollowJobs, PlaybackCounts,
         [Next]_vars
  PROVE  MarksFollowJobs'
<1> USE PipelineAssumption DEF PipelineAssumption, parentVars, cancelVars,
      queueVars, playVars, audioVars
<1> SUFFICES ASSUME Undisturbed' PROVE MarksFollowJobs'
  BY DEF MarksFollowJobs
<1>c. Stream \in Children /\ Playback \in Children /\ Workers \subseteq Children
  BY DEF Children
<1>q. ttsQueue \in Seq(Segments \cup {End}) /\ DOMAIN pc = Children
      /\ fed \in 0 .. MaxSegments
  BY DEF TypeOK
<1>s. \A i \in Segments : i # End
  BY DEF Segments
<1>1. CASE StartGroup
  <2>1. ttsQueue' = <<>>
    BY <1>1 DEF StartGroup, PhasesAgree
  <2>2. \A w \in Workers : pc'[w] # "done"
    BY <1>1, <1>c DEF StartGroup, Undisturbed
  <2> QED  BY <2>1, <2>2 DEF MarksFollowJobs, In, OnlyFrom
<1>2. ASSUME Undisturbed, throw = {}, CalmStep PROVE MarksFollowJobs'
  <2>0. /\ In(ttsQueue, End) => pc[Stream] = "done"
        /\ OnlyFrom(ttsQueue, End)
        /\ \A w \in Workers : pc[w] = "done" =>
             pc[Stream] = "done" /\ \A i \in Segments : ~In(ttsQueue, i)
    BY <1>2 DEF MarksFollowJobs
  <2>1. ASSUME ttsQueue' = ttsQueue, pc'[Stream] = pc[Stream],
               \A w \in Workers : pc'[w] = "done" => pc[w] = "done"
        PROVE  MarksFollowJobs'
    BY <2>0, <2>1 DEF MarksFollowJobs, In, OnlyFrom
  <2>2. CASE UNCHANGED vars
    BY <2>1, <2>2 DEF vars
  <2>3. CASE QueueSegment
    <3>1. fed \in Segments \cup {End} /\ ttsQueue' = Append(ttsQueue, fed)
          /\ fed # End /\ pc' = pc /\ pc[Stream] # "done"
      BY <2>3, <1>2, <1>q DEF QueueSegment, Undisturbed, Segments
    <3>2. ~In(ttsQueue, End)
      BY <2>0, <3>1
    <3>3. OnlyFrom(ttsQueue', End) /\ ~In(ttsQueue', End)
      BY <3>1, <3>2, <1>q, OnlyFromAppend, InAppend
    <3> QED  BY <2>0, <3>1, <3>3 DEF MarksFollowJobs
  <2>4. ASSUME NEW failed \in BOOLEAN, StreamEnds(failed) PROVE MarksFollowJobs'
    <3>1. /\ pc'[Stream] = "done" /\ \A w \in Workers : pc'[w] = pc[w]
      BY <2>4, <1>c, <1>q DEF StreamEnds, EndChild
    <3>2. /\ OnlyFrom(ttsQueue', End)
          /\ \A i \in Segments : In(ttsQueue', i) <=> In(ttsQueue, i)
      BY <2>4, <2>0, <1>q, MarksAdded DEF StreamEnds
    <3> QED  BY <2>0, <3>1, <3>2 DEF MarksFollowJobs
  <2>5. ASSUME NEW w \in Workers, TakeJob(w) PROVE MarksFollowJobs'
    <3>1. OnlyFrom(ttsQueue', End) /\ \A y : In(ttsQueue', y) => In(ttsQueue, y)
      BY <2>5, <2>0, <1>q, OnlyFromTail, InTail DEF TakeJob
    <3>2. pc'[Stream] = pc[Stream]
          /\ \A v \in Workers : pc'[v] = "done" => pc[v] = "done"
      BY <2>5, <1>c, <1>q DEF TakeJob
    <3> QED  BY <2>0, <3>1, <3>2 DEF MarksFollowJobs
  <2>6. ASSUME NEW w \in Workers, StopWorking(w), Head(ttsQueue) = End
        PROVE  MarksFollowJobs'
    <3>1. OnlyFrom(ttsQueue', End) /\ \A y : In(ttsQueue', y) => In(ttsQueue, y)
      BY <2>6, <2>0, <1>q, OnlyFromTail, InTail DEF StopWorking
    <3>2. \A y : In(ttsQueue, y) => y = End
      BY <2>6, <2>0, <1>q, OnlyFromTail DEF StopWorking
    <3>3. In(ttsQueue, End)
      BY <2>6, <1>q, InTail DEF StopWorking
    <3>4. pc'[Stream] = pc[Stream]
      BY <2>6, <1>c, <1>q DEF StopWorking, EndChild
    <3> QED  BY <2>0, <3>1, <3>2, <3>3, <3>4, <1>s DEF MarksFollowJobs
  <2>7. ASSUME NEW w \in Workers, NEW r \in {"ok", "failed"}, Synthesized(w, r)
        PROVE  MarksFollowJobs'
    <3>1. ttsQueue' = ttsQueue /\ pc'[Stream] = pc[Stream]
          /\ \A v \in Workers : pc'[v] = "done" => pc[v] = "done"
      BY <2>7, <1>2, <1>c, <1>q DEF Synthesized, Undisturbed
    <3> QED  BY <2>1, <3>1
  <2>8. CASE PlaybackStep
    <3>1. ChildMoves(Playback)
      BY <2>8, ChildSteps
    <3>2. pc'[Stream] = pc[Stream] /\ \A v \in Workers : pc'[v] = pc[v]
      BY <3>1, <1>c DEF ChildMoves, TypeOK
    <3>3. ttsQueue' = ttsQueue
      BY <2>8 DEF PlaybackStep, TakeAudio, PlaybackInterrupted, DiscardReturns,
                  PlayEnds, DiscardRaises
    <3> QED  BY <2>1, <3>2, <3>3
  <2> QED
    BY <2>2, <2>3, <2>4, <2>5, <2>6, <2>7, <2>8, <1>2
       DEF CalmStep, StreamStep, PlaybackStep
<1> QED  BY <1>1, <1>2, CalmSteps

LEMMA MarksResultsStep ==
  ASSUME TypeOK, PhasesAgree, JobsAreDistinct, PlaybackProgress,
         MarksFollowResults, PlaybackCounts, [Next]_vars
  PROVE  MarksFollowResults'
<1> USE PipelineAssumption DEF PipelineAssumption, parentVars, cancelVars,
      queueVars, playVars, audioVars
<1> SUFFICES ASSUME Undisturbed' PROVE MarksFollowResults'
  BY DEF MarksFollowResults
<1>c. Stream \in Children /\ Playback \in Children /\ Workers \subseteq Children
  BY DEF Children
<1>q. audioQueue \in Seq(Segments \cup Workers) /\ DOMAIN pc = Children
      /\ finished \in SUBSET Workers
  BY DEF TypeOK
<1>s. \A i \in Segments : i \notin Workers
  BY DEF Segments
<1>1. CASE StartGroup
  <2>1. audioQueue' = <<>> /\ finished' = {}
    BY <1>1 DEF StartGroup, PhasesAgree
  <2> QED  BY <2>1 DEF MarksFollowResults, In, Once
<1>2. ASSUME Undisturbed, throw = {}, CalmStep PROVE MarksFollowResults'
  <2>0. /\ \A w \in Workers :
             /\ w \in finished => pc[w] = "done" /\ ~In(audioQueue, w)
             /\ In(audioQueue, w) => pc[w] = "done"
        /\ Once(audioQueue, Workers)
        /\ audioQueue # <<>> /\ (\A w \in Workers : pc[w] = "done") =>
             audioQueue[Len(audioQueue)] \in Workers
    BY <1>2 DEF MarksFollowResults
  <2>1. ASSUME audioQueue' = audioQueue, finished' = finished,
               \A w \in Workers : pc'[w] = "done" <=> pc[w] = "done"
        PROVE  MarksFollowResults'
    BY <2>0, <2>1 DEF MarksFollowResults, In, Once
  <2>2. CASE UNCHANGED vars
    BY <2>1, <2>2 DEF vars
  <2>3. CASE StreamStep
    <3>1. /\ audioQueue' = audioQueue /\ finished' = finished
          /\ \A w \in Workers : pc'[w] = pc[w]
      BY <2>3, <1>c, <1>q DEF StreamStep, QueueSegment, StreamEnds, EndChild
    <3> QED  BY <2>1, <3>1
  <2>5. ASSUME NEW w \in Workers, TakeJob(w) PROVE MarksFollowResults'
    <3>1. /\ audioQueue' = audioQueue /\ finished' = finished
          /\ \A v \in Workers : pc'[v] = "done" <=> pc[v] = "done"
      BY <2>5, <1>c, <1>q DEF TakeJob
    <3> QED  BY <2>1, <3>1
  <2>6. ASSUME NEW w \in Workers, StopWorking(w) PROVE MarksFollowResults'
    <3>1. /\ audioQueue' = Append(audioQueue, w) /\ w \in Segments \cup Workers
          /\ finished' = finished /\ pc[w] = "get" /\ pc'[w] = "done"
          /\ \A v \in Workers : v # w => pc'[v] = pc[v]
      BY <2>6, <1>c, <1>q DEF StopWorking, EndChild
    <3>2. \A y : In(audioQueue', y) <=> In(audioQueue, y) \/ y = w
      BY <3>1, <1>q, InAppend
    <3>3. ~In(audioQueue, w)
      BY <2>0, <3>1
    <3>4. Once(audioQueue', Workers)
      BY <2>0, <3>1, <3>3, <1>q, OnceAppend
    <3>5. audioQueue'[Len(audioQueue')] = w
      BY <3>1, <1>q, AppendProperties
    <3> QED  BY <2>0, <3>1, <3>2, <3>4, <3>5 DEF MarksFollowResults
  <2>7. ASSUME NEW w \in Workers, NEW r \in {"ok", "failed"}, Synthesized(w, r)
        PROVE  MarksFollowResults'
    <3>1. /\ audioQueue' = Append(audioQueue, job[w]) /\ job[w] \in Segments
          /\ finished' = finished /\ pc[w] = "synth" /\ pc'[w] = "get"
          /\ \A v \in Workers : v # w => pc'[v] = pc[v]
      BY <2>7, <1>2, <1>c, <1>q DEF Synthesized, Undisturbed, JobsAreDistinct
    <3>2. \A y \in Workers : In(audioQueue', y) <=> In(audioQueue, y)
      BY <3>1, <1>q, <1>s, InAppend
    <3>3. Once(audioQueue', Workers)
      BY <2>0, <3>1, <1>q, <1>s, OnceAppend
    <3> QED  BY <2>0, <3>1, <3>2, <3>3 DEF MarksFollowResults
  <2>8. CASE TakeAudio
    <3>1. /\ audioQueue # <<>> /\ audioQueue' = Tail(audioQueue)
          /\ finished' \subseteq finished \cup {Head(audioQueue)}
      BY <2>8 DEF TakeAudio
    <3>2. \A v \in Workers : pc'[v] = pc[v]
      <4>1. ChildMoves(Playback)
        BY <2>8, ChildSteps DEF PlaybackStep
      <4> QED  BY <4>1, <1>c, <1>q DEF ChildMoves
    <3>3. /\ Once(audioQueue', Workers)
          /\ Head(audioQueue) \in Workers => ~In(audioQueue', Head(audioQueue))
      BY <2>0, <3>1, <1>q, OnceTail
    <3>4. \A y : In(audioQueue, y) <=> In(audioQueue', y) \/ y = Head(audioQueue)
      BY <3>1, <1>q, InTail
    <3>5. audioQueue' # <<>> =>
            audioQueue'[Len(audioQueue')] = audioQueue[Len(audioQueue)]
      BY <3>1, <1>q, TailLast
    <3>6. \A w \in Workers :
            /\ w \in finished' => pc'[w] = "done" /\ ~In(audioQueue', w)
            /\ In(audioQueue', w) => pc'[w] = "done"
      BY <2>0, <3>1, <3>2, <3>3, <3>4
    <3> QED  BY <2>0, <3>1, <3>2, <3>3, <3>5, <3>6 DEF MarksFollowResults
  <2>9. ASSUME NEW how \in {"continue", "fail"}, DiscardReturns \/ PlayEnds(how)
        PROVE  MarksFollowResults'
    <3>1. ChildMoves(Playback)
      BY <2>9, ChildSteps DEF PlaybackStep
    <3>2. \A v \in Workers : pc'[v] = pc[v]
      BY <3>1, <1>c, <1>q DEF ChildMoves
    <3>3. audioQueue' = audioQueue /\ finished' = finished
      BY <2>9 DEF DiscardReturns, PlayEnds
    <3> QED  BY <2>1, <3>2, <3>3
  <2> QED
    BY <2>2, <2>3, <2>5, <2>6, <2>7, <2>8, <2>9, <1>2 DEF CalmStep
<1> QED  BY <1>1, <1>2, CalmSteps

LEMMA CountsStep ==
  ASSUME TypeOK, PhasesAgree, PlaybackProgress, PlaybackCounts, [Next]_vars
  PROVE  PlaybackCounts'
<1> USE PipelineAssumption DEF PipelineAssumption, parentVars, cancelVars,
      queueVars, playVars, audioVars
<1> SUFFICES ASSUME Undisturbed' PROVE PlaybackCounts'
  BY DEF PlaybackCounts
<1>c. Stream \in Children /\ Playback \in Children /\ Workers \subseteq Children
  BY DEF Children
<1>q. DOMAIN pc = Children
  BY DEF TypeOK
<1>1. CASE StartGroup
  <2>1. pending' = {} /\ pc'[Playback] = "get"
    BY <1>1, <1>c DEF StartGroup, PhasesAgree, Undisturbed
  <2> QED  BY <2>1 DEF PlaybackCounts
<1>2. ASSUME Undisturbed, throw = {}, CalmStep PROVE PlaybackCounts'
  <2>1. ASSUME pc'[Playback] = pc[Playback],
               UNCHANGED pending, UNCHANGED next, UNCHANGED finished,
               UNCHANGED after
        PROVE  PlaybackCounts'
    BY <1>2, <2>1 DEF PlaybackCounts
  <2>2. CASE UNCHANGED vars
    BY <2>1, <2>2 DEF vars
  <2>3. CASE StreamStep
    <3>1. ChildMoves(Stream)
      BY <2>3, ChildSteps
    <3>2. pc'[Playback] = pc[Playback]
      BY <3>1, <1>c, <1>q DEF ChildMoves
    <3>3. UNCHANGED pending /\ UNCHANGED next /\ UNCHANGED finished
          /\ UNCHANGED after
      BY <2>3 DEF StreamStep, QueueSegment, StreamEnds
    <3> QED  BY <2>1, <3>2, <3>3
  <2>4. ASSUME NEW w \in Workers, WorkerStep(w) PROVE PlaybackCounts'
    <3>1. ChildMoves(w)
      BY <2>4, ChildSteps
    <3>2. pc'[Playback] = pc[Playback]
      BY <3>1, <1>c, <1>q DEF ChildMoves
    <3>3. UNCHANGED pending /\ UNCHANGED next /\ UNCHANGED finished
          /\ UNCHANGED after
      BY <2>4 DEF WorkerStep, TakeJob, StopWorking, WorkerRaises, Synthesized
    <3> QED  BY <2>1, <3>2, <3>3
  <2>5. ASSUME NEW p \in SUBSET Segments, NEW n \in 0 .. MaxSegments,
               Resume(p, n, finished')
        PROVE  PlaybackCounts'
    <3>1. /\ pc'[Playback] \in {"playing", "get", "done"}
          /\ pc'[Playback] = "get" => next' \notin pending'
          /\ pc'[Playback] = "done" /\ ~token =>
               finished' = Workers /\ next' \notin pending'
      BY <2>5, ResumeProperties
    <3> QED  BY <3>1, <1>2 DEF PlaybackCounts, Undisturbed
  <2>6. CASE TakeAudio
    BY <2>5, <2>6, TakeAudioResumes
  <2>7. CASE DiscardReturns /\ after = "continue"
    <3>1. /\ Resume(pending, next + 1, finished) /\ finished' = finished
          /\ next + 1 \in 0 .. MaxSegments /\ pending \in SUBSET Segments
      BY <2>7 DEF DiscardReturns, PlaybackProgress, TypeOK
    <3> QED  BY <3>1, <2>5
  <2>8. ASSUME NEW how \in {"continue", "fail"}, PlayEnds(how)
        PROVE  PlaybackCounts'
    BY <2>8, <1>c, <1>q DEF PlayEnds, PlaybackCounts
  <2> QED
    BY <2>2, <2>3, <2>4, <2>6, <2>7, <2>8, <1>2 DEF CalmStep, WorkerStep
<1> QED  BY <1>1, <1>2, CalmSteps
-----------------------------------------------------------------------------
(* The outcome of the run. *)

LEMMA JoinedHasSpoken ==
  ASSUME TypeOK, PipelineInv, PipelineAssumption, Joined, outcome' = "completed",
         audio
  PROVE  \A i \in 0 .. fed - 1 : Settled(i)
<1> USE DEF PipelineAssumption
<1>c. Stream \in Children /\ Playback \in Children /\ Workers \subseteq Children
  BY DEF Children
<1>q. audioQueue \in Seq(Segments \cup Workers)
      /\ fed \in 0 .. MaxSegments /\ next \in 0 .. MaxSegments
  BY DEF TypeOK
<1>1. run = "group" /\ ~childFailed /\ ~token /\ Live = {}
  BY DEF Joined, PipelineInv, PhasesAgree, InGroup
<1>2. Undisturbed
  BY <1>1 DEF Undisturbed
<1>3. \A c \in Children : pc[c] = "done"
  BY <1>1 DEF Live, PipelineInv, PhasesAgree, InGroup
<1>4. finished = Workers /\ next \notin pending
  BY <1>2, <1>3, <1>c DEF PipelineInv, PlaybackCounts
<1>5. audioQueue = <<>>
  <2> SUFFICES ASSUME audioQueue # <<>> PROVE FALSE
    OBVIOUS
  <2>1. audioQueue[Len(audioQueue)] \in Workers
    BY <1>2, <1>3, <1>c DEF PipelineInv, MarksFollowResults
  <2>2. Len(audioQueue) \in DOMAIN audioQueue
    BY <1>q, LenProperties, EmptySeq
  <2>3. In(audioQueue, audioQueue[Len(audioQueue)])
    BY <2>2 DEF In
  <2> QED  BY <2>1, <2>3, <1>2, <1>4 DEF PipelineInv, MarksFollowResults
<1>6. \A i \in Segments : ~In(ttsQueue, i)
  BY <1>2, <1>3, <1>c DEF PipelineInv, MarksFollowJobs
<1>7. \A i \in 0 .. fed - 1 : i \in Segments /\ (i \in pending \/ i < next)
  <2> SUFFICES ASSUME NEW i \in 0 .. fed - 1
               PROVE  i \in Segments /\ (i \in pending \/ i < next)
    OBVIOUS
  <2>1. i \in Segments
    BY <1>q DEF Segments
  <2>2. OnTheWay(i)
    BY <1>2 DEF PipelineInv, NothingIsLost
  <2>3. ~In(audioQueue, i)
    BY <1>5 DEF In
  <2> QED  BY <2>1, <2>2, <2>3, <1>3, <1>6, <1>c DEF OnTheWay
<1>8. next >= fed
  <2> SUFFICES ASSUME next < fed PROVE FALSE
    BY <1>q
  <2>1. next \in 0 .. fed - 1
    BY <1>q
  <2> QED  BY <2>1, <1>4, <1>7, <1>q
<1>9. \A i \in 0 .. fed - 1 : i \in 0 .. next - 1
  BY <1>8, <1>q
<1> QED  BY <1>9 DEF PipelineInv, PlaybackProgress

LEMMA OutcomeStep ==
  ASSUME TypeOK, PipelineInv, [Next]_vars
  PROVE  OutcomeFollows'
<1> USE PipelineAssumption DEF parentVars, cancelVars, queueVars, playVars,
      audioVars
<1> SUFFICES ASSUME outcome' = "completed" PROVE OutcomeFollows'
  BY DEF OutcomeFollows
<1>1. CASE UNCHANGED vars \/ Cancel
  BY <1>1 DEF PipelineInv, OutcomeFollows, CompletedIsSpoken, Settled, vars, Cancel
<1>2. CASE StartGroup \/ BuildFails \/ Abort
  BY <1>2 DEF StartGroup, BuildFails, Abort, PipelineInv, PhasesAgree, InGroup
<1>3. CASE StreamStep \/ PlaybackStep \/ \E w \in Workers : WorkerStep(w)
  <2>1. \E c \in Children : ChildMoves(c)
    BY <1>3, ChildSteps DEF PipelineInv, Children
  <2>2. run \in {"build", "group", "aborting"} /\ outcome = "completed"
    BY <2>1 DEF ChildMoves, PipelineInv, PhasesAgree
  <2> QED  BY <2>2 DEF PipelineInv, PhasesAgree, InGroup
<1>4. CASE Joined
  <2>1. ~childFailed' /\ ~token'
    BY <1>4 DEF Joined, PipelineInv, PhasesAgree, InGroup
  <2>2. audio => \A i \in 0 .. fed - 1 : Settled(i)
    BY <1>4, JoinedHasSpoken
  <2>3. UNCHANGED <<audio, fed, result, discarded>>
    BY <1>4 DEF Joined
  <2> QED  BY <2>1, <2>2, <2>3 DEF OutcomeFollows, CompletedIsSpoken, Settled
<1>5. CASE CleanUp
  <2>1. outcome = "completed" /\ UNCHANGED <<audio, fed, result, token, childFailed>>
        /\ discarded \subseteq discarded' /\ ~parentThrow
    BY <1>5 DEF CleanUp, Stopped, StopRaises, CleanedUp
  <2>2. ~childFailed /\ ~token /\ CompletedIsSpoken
    BY <2>1 DEF PipelineInv, OutcomeFollows
  <2> QED  BY <2>1, <2>2 DEF OutcomeFollows, CompletedIsSpoken, Settled
<1> QED  BY <1>1, <1>2, <1>3, <1>4, <1>5 DEF Next

-----------------------------------------------------------------------------
(* The invariant. *)

LEMMA InvInit ==
  ASSUME PipelineAssumption, Init
  PROVE  TypeOK /\ PipelineInv
<1> USE DEF PipelineAssumption, Init
<1>1. TypeOK
  <2>1. 0 \in 0 .. MaxSegments /\ 0 \in Nat
    OBVIOUS
  <2>2. ttsQueue \in Seq(Segments \cup {End}) /\ audioQueue \in Seq(Segments \cup Workers)
    OBVIOUS
  <2>3. pc \in [Children -> {"off", "streaming", "get", "synth", "playing",
                            "discarding", "done"}]
    OBVIOUS
  <2>4. job \in [Workers -> Nat] /\ result \in [Segments -> {"none", "ok", "failed"}]
    OBVIOUS
  <2> QED  BY <2>1, <2>2, <2>3, <2>4 DEF TypeOK
<1>2. PhasesAgree
  BY DEF PhasesAgree, InGroup, Live, Children
<1>3. JobsAreDistinct /\ AudioIsTracked /\ PlaybackProgress
  BY DEF JobsAreDistinct, AudioIsTracked, PlaybackProgress, Once, In, Settled,
         InGroup, Children, Segments
<1> QED  BY <1>1, <1>2, <1>3
         DEF PipelineInv, NothingIsLost, MarksFollowJobs, MarksFollowResults,
             PlaybackCounts, OutcomeFollows, Undisturbed

LEMMA InvStep ==
  ASSUME TypeOK, PipelineInv, [Next]_vars
  PROVE  TypeOK' /\ PipelineInv'
BY TypeStep, PhasesStep, JobsStep, ProgressStep, TrackedStep, NothingLostStep,
   MarksJobsStep, MarksResultsStep, CountsStep, OutcomeStep DEF PipelineInv

(* The variables of a run keep their types; the index of playback stays in  *)
(* range because it is only advanced from a segment that was played.       *)
THEOREM TypeCorrect == Spec => []TypeOK
<1>1. Init => TypeOK /\ PipelineInv
  BY InvInit, PipelineAssumption
<1>2. TypeOK /\ PipelineInv /\ [Next]_vars => (TypeOK /\ PipelineInv)'
  BY InvStep
<1> QED  BY <1>1, <1>2, PTL DEF Spec

(* The inductive invariant: phases of the run, jobs in one hand at most,    *)
(* results in cleanup until discarded, marks behind results.               *)
THEOREM PipelineInvCorrect == Spec => []PipelineInv
<1>1. Init => TypeOK /\ PipelineInv
  BY InvInit, PipelineAssumption
<1>2. TypeOK /\ PipelineInv /\ [Next]_vars => (TypeOK /\ PipelineInv)'
  BY InvStep
<1> QED  BY <1>1, <1>2, PTL DEF Spec

LEMMA PlayingInGroup ==
  ASSUME TypeOK, PipelineInv, pc[Playback] \notin {"off", "done"}
  PROVE  InGroup /\ audio
BY DEF TypeOK, PipelineInv, PhasesAgree, Live, Children, InGroup

(* What is played has not been discarded. *)
THEOREM AudioIsThereCorrect == Spec => []AudioIsThere
<1>1. TypeOK /\ PipelineInv => AudioIsThere
  <2> SUFFICES ASSUME TypeOK, PipelineInv, pc[Playback] = "playing",
                      next \in discarded
               PROVE  FALSE
    BY DEF AudioIsThere, Speaking
  <2>1. InGroup
    BY PlayingInGroup
  <2> QED  BY <2>1 DEF PipelineInv, PlaybackProgress, TypeOK
<1> QED  BY <1>1, TypeCorrect, PipelineInvCorrect, PTL

(* A run that is over has discarded all audio that was synthesized for it, *)
(* unless the clean-up itself was cut short.                               *)
THEOREM AudioIsDiscardedCorrect == Spec => []AudioIsDiscarded
<1>1. PipelineInv => AudioIsDiscarded
  BY DEF PipelineInv, AudioIsTracked, AudioIsDiscarded
<1> QED  BY <1>1, PipelineInvCorrect, PTL

(* A run that returns an outcome has spoken or skipped every segment.      *)
THEOREM CompletedIsSpokenCorrect == Spec => []CompletedIsSpoken
<1>1. PipelineInv => CompletedIsSpoken
  BY DEF PipelineInv, OutcomeFollows, CompletedIsSpoken
<1> QED  BY <1>1, PipelineInvCorrect, PTL

(* A run that was cancelled, or one of whose tasks failed, does not return *)
(* an outcome.                                                             *)
THEOREM OutcomeIsHonestCorrect == Spec => []OutcomeIsHonest
<1>1. TypeOK /\ PipelineInv => OutcomeIsHonest
  BY DEF TypeOK, PipelineInv, PhasesAgree, OutcomeFollows, OutcomeIsHonest
<1> QED  BY <1>1, TypeCorrect, PipelineInvCorrect, PTL

-----------------------------------------------------------------------------
(* What a step may not do. *)

(* A segment is begun by the loop of playback only, and not after a cancel. *)
LEMMA BeginsInLoop ==
  ASSUME TypeOK, PipelineInv, [Next]_vars, NEW i \in Speaking', i \notin Speaking
  PROVE  /\ i = next' /\ next' \in Segments /\ result[next'] = "ok" /\ ~token
         /\ pc'[Playback] = "playing"
         /\ TakeAudio \/ DiscardReturns
<1> USE PipelineAssumption DEF parentVars, cancelVars, queueVars, playVars,
      audioVars
<1>c. Stream \in Children /\ Playback \in Children /\ Workers \subseteq Children
  BY DEF Children
<1>0. pc'[Playback] = "playing" /\ i = next'
  BY DEF Speaking
<1>n. next' # next \/ pc[Playback] # "playing"
  BY <1>0 DEF Speaking
<1>1. ASSUME NEW p \in SUBSET Segments, NEW n \in 0 .. MaxSegments, NEW f,
             Resume(p, n, f)
      PROVE  next' \in Segments /\ result[next'] = "ok" /\ ~token
  <2>1. next' \in n .. MaxSegments /\ next' < MaxSegments
        /\ result[next'] = "ok" /\ ~token
    BY <1>0, <1>1, ResumeProperties
  <2> QED  BY <2>1 DEF Segments, PipelineAssumption
<1>2. CASE TakeAudio
  BY <1>0, <1>1, <1>2, TakeAudioResumes
<1>3. CASE DiscardReturns
  <2>1. after = "continue"
    BY <1>3, <1>0, <1>c DEF DiscardReturns, EndChild, TypeOK
  <2>2. Resume(pending, next + 1, finished)
        /\ next + 1 \in 0 .. MaxSegments /\ pending \in SUBSET Segments
    BY <1>3, <2>1, PipelineAssumption
       DEF DiscardReturns, PipelineInv, PlaybackProgress, TypeOK, PipelineAssumption
  <2> QED  BY <1>0, <1>1, <1>3, <2>2
<1>4. CASE UNCHANGED vars \/ Cancel \/ BuildFails \/ Abort \/ Joined \/ CleanUp
  BY <1>4, <1>n, <1>0 DEF vars, Cancel, BuildFails, Abort, Joined, CleanUp,
                          Stopped, StopRaises, CleanedUp
<1>5. ~StartGroup
  BY <1>0, <1>c DEF StartGroup, PipelineAssumption
<1>6. ~StreamStep
  BY <1>n, <1>0, <1>c DEF StreamStep, QueueSegment, StreamEnds, EndChild, TypeOK,
                          PipelineAssumption
<1>7. ASSUME NEW w \in Workers, WorkerStep(w) PROVE FALSE
  <2>1. pc'[Playback] = pc[Playback]
    BY <1>7, <1>c, ChildSteps DEF ChildMoves, TypeOK, PipelineInv,
                                  PipelineAssumption
  <2>2. next' = next
    BY <1>7 DEF WorkerStep, TakeJob, StopWorking, WorkerRaises, Synthesized
  <2> QED  BY <2>1, <2>2, <1>n, <1>0
<1>8. CASE PlaybackStep
  BY <1>8, <1>0, <1>c, <1>2, <1>3
     DEF PlaybackStep, PlaybackInterrupted, PlayEnds, DiscardRaises, EndChild, TypeOK
<1> QED  BY <1>2, <1>3, <1>4, <1>5, <1>6, <1>7, <1>8 DEF Next

(* Segments are spoken in their order. *)
THEOREM SpokenInOrderCorrect == Spec => SpokenInOrder
<1>1. TypeOK /\ PipelineInv /\ [Next]_vars =>
        [\A i \in Speaking' \ Speaking : \A j \in 0 .. i - 1 : Settled(j)]_vars
  <2> SUFFICES ASSUME TypeOK, PipelineInv, [Next]_vars,
                      NEW i \in Speaking', i \notin Speaking,
                      NEW j \in 0 .. i - 1
               PROVE  Settled(j)
    OBVIOUS
  <2>1. i = next' /\ (TakeAudio \/ DiscardReturns)
    BY BeginsInLoop
  <2>2. UNCHANGED <<result, discarded>>
    BY <2>1 DEF TakeAudio, DiscardReturns, queueVars, audioVars
  <2>3. Settled(j)'
    BY <2>1, InvStep DEF PipelineInv, PlaybackProgress
  <2> QED  BY <2>2, <2>3 DEF Settled
<1> QED  BY <1>1, TypeCorrect, PipelineInvCorrect, PTL DEF Spec, SpokenInOrder

(* Once the turn is cancelled no further segment is spoken. *)
THEOREM QuietAfterCancelCorrect == Spec => QuietAfterCancel
<1>1. TypeOK /\ PipelineInv /\ [Next]_vars =>
        [token => Speaking' \subseteq Speaking]_vars
  BY BeginsInLoop
<1> QED  BY <1>1, TypeCorrect, PipelineInvCorrect, PTL DEF Spec, QuietAfterCancel

-----------------------------------------------------------------------------
(* The abstract specification. *)

LEMMA ClipCases ==
  ASSUME NEW i \in Segments
  PROVE  Clip(i) = IF i \in discarded THEN "gone"
                   ELSE IF i \in Speaking THEN "playing"
                   ELSE IF result[i] = "ok" THEN "made"
                   ELSE IF result[i] = "failed" THEN "silent" ELSE "none"
BY DEF Clip

(* A clip stays what it is unless its result, playback or a discard moves. *)
LEMMA ClipsStay ==
  ASSUME result' = result, discarded' = discarded, Speaking' = Speaking
  PROVE  [i \in Segments |-> Clip(i)]' = [i \in Segments |-> Clip(i)]
BY DEF Clip

LEMMA NothingPlays ==
  ASSUME TypeOK, PipelineInv, pc[Playback] # "playing"
  PROVE  \A j \in Spoken!Segments : [i \in Segments |-> Clip(i)][j] # "playing"
BY ClipCases DEF Speaking, Spoken!Segments, Segments

(* Every step of the pipeline is a step of the abstract turn, or none. *)
LEMMA StepImplements ==
  ASSUME TypeOK, PipelineInv, [Next]_vars
  PROVE  [Spoken!Next]_(Spoken!vars)
<1> USE PipelineAssumption DEF parentVars, cancelVars, queueVars, playVars,
      audioVars
<1> DEFINE clips == [i \in Segments |-> Clip(i)]
<1>c. Stream \in Children /\ Playback \in Children /\ Workers \subseteq Children
      /\ DOMAIN pc = Children /\ Playback # Stream /\ Playback \notin Workers
  BY DEF Children, TypeOK, PipelineAssumption
<1>d. Spoken!Segments = Segments
  BY DEF Spoken!Segments, Segments
<1>i. TypeOK' /\ PipelineInv'
  BY InvStep
<1>1. ASSUME UNCHANGED clips, token' = token, (run' = "done") = (run = "done")
      PROVE  [Spoken!Next]_(Spoken!vars)
  BY <1>1 DEF Spoken!vars
<1>2. ASSUME UNCHANGED clips, token' = token, run' = "done",
             pc[Playback] # "playing"
      PROVE  [Spoken!Next]_(Spoken!vars)
  <2>1. Spoken!Conclude
    BY <1>2, NothingPlays DEF Spoken!Conclude
  <2> QED  BY <2>1 DEF Spoken!Next
<1>3. CASE UNCHANGED vars
  <2>1. UNCHANGED clips
    BY <1>3, ClipsStay DEF vars, Speaking
  <2> QED  BY <1>1, <1>3, <2>1 DEF vars
<1>4. CASE Cancel
  <2>1. UNCHANGED clips
    BY <1>4, ClipsStay DEF Cancel, Speaking
  <2>2. Spoken!Cancel
    BY <1>4, <2>1 DEF Cancel, Spoken!Cancel
  <2> QED  BY <2>2 DEF Spoken!Next
<1>5. CASE StartGroup
  <2>1. pc[Playback] # "playing" /\ pc'[Playback] # "playing"
    BY <1>5, <1>c DEF StartGroup, PipelineInv, PhasesAgree
  <2>2. UNCHANGED clips
    BY <1>5, <2>1, ClipsStay DEF StartGroup, Speaking
  <2> QED  BY <1>1, <1>5, <2>2 DEF StartGroup
<1>6. CASE BuildFails \/ StopRaises \/ CleanedUp
  <2>1. pc[Playback] # "playing"
    BY <1>6, PlayingInGroup DEF BuildFails, StopRaises, CleanedUp, InGroup
  <2>2. UNCHANGED clips
    BY <1>6, ClipsStay DEF BuildFails, StopRaises, CleanedUp, Speaking
  <2> QED  BY <1>2, <1>6, <2>1, <2>2 DEF BuildFails, StopRaises, CleanedUp
<1>7. CASE Abort
  <2>1. UNCHANGED clips
    BY <1>7, ClipsStay DEF Abort, Speaking
  <2> QED  BY <1>1, <1>7, <2>1 DEF Abort
<1>8. CASE Joined
  <2>1. pc[Playback] # "playing"
    BY <1>8, <1>c DEF Joined, Live
  <2>2. UNCHANGED clips
    BY <1>8, ClipsStay DEF Joined, Speaking
  <2>3. run # "done" /\ token' = token
    BY <1>8 DEF Joined, InGroup
  <2> QED  BY <1>1, <1>2, <2>1, <2>2, <2>3
<1>9. CASE Stopped
  <2>1. pc[Playback] # "playing" /\ Speaking = {} /\ Speaking' = {}
    BY <1>9, PlayingInGroup DEF Stopped, InGroup, Speaking
  <2>2. CASE cleanup = {}
    <3>1. UNCHANGED clips
      BY <1>9, <2>2, ClipsStay DEF Stopped, Speaking
    <3> QED  BY <1>2, <1>9, <2>1, <2>2, <3>1 DEF Stopped
  <2>3. CASE cleanup # {}
    <3>1. discarded' = discarded \cup cleanup /\ result' = result
          /\ token' = token /\ run = "stopping" /\ run' = "discarding"
      BY <1>9, <2>3 DEF Stopped
    <3>2. ASSUME NEW i \in Segments
          PROVE  Clip(i)' = IF Clip(i) = "made" THEN "gone" ELSE Clip(i)
      <4>1. result[i] = "ok" <=> i \in cleanup \cup discarded
        BY DEF PipelineInv, AudioIsTracked
      <4>2. Clip(i)' = IF i \in discarded' THEN "gone"
                       ELSE IF i \in Speaking' THEN "playing"
                       ELSE IF result'[i] = "ok" THEN "made"
                       ELSE IF result'[i] = "failed" THEN "silent" ELSE "none"
        BY DEF Clip
      <4> QED  BY <2>1, <3>1, <4>1, <4>2, ClipCases
    <3>3. clips' = [i \in Spoken!Segments |->
                      IF clips[i] = "made" THEN "gone" ELSE clips[i]]
      BY <3>2, <1>d
    <3>4. Spoken!Clear
      BY <3>1, <3>3, <2>1, NothingPlays DEF Spoken!Clear
    <3> QED  BY <3>4 DEF Spoken!Next
  <2> QED  BY <2>2, <2>3
<1>10. CASE StreamStep
  <2>1. pc'[Playback] = pc[Playback] /\ UNCHANGED <<next, result, discarded, token, run>>
    BY <1>10, <1>c DEF StreamStep, QueueSegment, StreamEnds, EndChild
  <2>2. UNCHANGED clips
    BY <2>1, ClipsStay DEF Speaking
  <2> QED  BY <1>1, <2>1, <2>2
<1>11. ASSUME NEW w \in Workers, WorkerStep(w)
       PROVE  [Spoken!Next]_(Spoken!vars)
  <2>1. pc'[Playback] = pc[Playback] /\ UNCHANGED <<next, discarded, token, run>>
    <3>1. ChildMoves(w)
      BY <1>11, ChildSteps DEF PipelineInv
    <3>2. pc'[Playback] = pc[Playback]
      BY <3>1, <1>c DEF ChildMoves
    <3> QED  BY <3>2, <1>11 DEF WorkerStep, TakeJob, StopWorking, WorkerRaises,
                                Synthesized
  <2>2. Speaking' = Speaking
    BY <2>1 DEF Speaking
  <2>3. CASE result' = result
    BY <1>1, <2>1, <2>2, <2>3, ClipsStay
  <2>4. ASSUME NEW r \in {"ok", "failed"}, Synthesized(w, r)
        PROVE  [Spoken!Next]_(Spoken!vars)
    <3> DEFINE c == IF r = "ok" THEN "made" ELSE "silent"
    <3>k. PICK k \in Segments : k = job[w]
      BY <2>4 DEF Synthesized, PipelineInv, JobsAreDistinct
    <3>1. result[k] = "none" /\ run # "done"
      BY <3>k, <2>4, <1>c DEF Synthesized, PipelineInv, JobsAreDistinct, PhasesAgree,
                              Live, InGroup
    <3>2. k \notin discarded /\ k \notin Speaking
      BY <3>1 DEF PipelineInv, AudioIsTracked, PlaybackProgress, Speaking
    <3>3. result' = [result EXCEPT ![k] = r] /\ DOMAIN result = Segments
      BY <3>k, <2>4 DEF Synthesized, TypeOK
    <3>4. Clip(k) = "none" /\ Clip(k)' = c
      BY <3>1, <3>2, <3>3, <2>1, <2>2 DEF Clip
    <3>5. \A i \in Segments : i # k => Clip(i)' = Clip(i)
      BY <3>1, <3>3, <2>1, <2>2 DEF Clip
    <3>6. clips' = [clips EXCEPT ![k] = c]
      BY <3>4, <3>5
    <3>7. Spoken!Make(k)
      BY <3>1, <3>4, <3>6, <2>1 DEF Spoken!Make
    <3> QED  BY <3>1, <3>7, <1>d DEF Spoken!Next
  <2> QED
    BY <2>3, <2>4, <1>11 DEF WorkerStep, TakeJob, StopWorking, WorkerRaises
<1>12. ASSUME TakeAudio \/ DiscardReturns PROVE [Spoken!Next]_(Spoken!vars)
  <2>1. UNCHANGED <<run, token, result, discarded>> /\ Speaking = {}
        /\ pc[Playback] \notin {"playing", "off", "done"}
    BY <1>12 DEF TakeAudio, DiscardReturns, Speaking
  <2>2. run # "done"
    BY <2>1, PlayingInGroup DEF InGroup
  <2>3. CASE Speaking' = {}
    BY <1>1, <2>1, <2>3, ClipsStay
  <2>4. CASE Speaking' # {}
    <3>1. /\ next' \in Speaking' /\ Speaking' = {next'}
          /\ next' \in Segments /\ result[next'] = "ok" /\ ~token
      <4>1. PICK i \in Speaking' : i \notin Speaking
        BY <2>1, <2>4
      <4>2. i = next' /\ next' \in Segments /\ result[next'] = "ok" /\ ~token
            /\ pc'[Playback] = "playing"
        BY <4>1, BeginsInLoop
      <4> QED  BY <4>1, <4>2 DEF Speaking
    <3>n. PICK n \in Segments : n = next'
      BY <3>1
    <3>2. n \notin discarded
      <4>1. pc'[Playback] = "playing"
        BY <3>1 DEF Speaking
      <4>2. (pc[Playback] = "playing" => next < MaxSegments)'
            /\ (InGroup => \A i \in discarded :
                  i < next \/ (i = next /\ pc[Playback] \in {"discarding", "done"}))'
        BY <1>i DEF PipelineInv, PlaybackProgress
      <4>3. InGroup'
        BY <2>1, PlayingInGroup DEF InGroup
      <4> QED  BY <4>1, <4>2, <4>3, <3>n, <2>1 DEF Segments
    <3>3. \A j \in Segments : j < n => Settled(j)
      <4>1. (\A j \in 0 .. next - 1 : Settled(j))'
        BY <1>i DEF PipelineInv, PlaybackProgress
      <4>2. \A j \in Segments : j < n => j \in 0 .. n - 1
        BY DEF Segments
      <4> QED  BY <4>1, <4>2, <3>n, <2>1 DEF Settled
    <3>4. \A j \in Segments : j < n => clips[j] \in Spoken!Settled
      BY <3>3, <2>1, ClipCases DEF Spoken!Settled, Settled
    <3>5. clips[n] = "made" /\ Clip(n)' = "playing"
      BY <3>1, <3>n, <3>2, <2>1 DEF Clip
    <3>6. \A i \in Segments : i # n => Clip(i)' = Clip(i)
      BY <3>1, <3>n, <2>1 DEF Clip
    <3>7. clips' = [clips EXCEPT ![n] = "playing"]
      BY <3>5, <3>6
    <3>8. \A j \in Segments : clips[j] # "playing"
      BY <2>1, ClipCases
    <3>9. Spoken!Begin(n)
      BY <3>1, <3>4, <3>5, <3>7, <3>8, <2>1, <2>2, <1>d DEF Spoken!Begin
    <3> QED  BY <3>9, <1>d DEF Spoken!Next
  <2> QED  BY <2>3, <2>4
<1>13. ASSUME NEW failed \in BOOLEAN, PlaybackInterrupted \/ DiscardRaises(failed)
       PROVE  [Spoken!Next]_(Spoken!vars)
  <2>1. UNCHANGED <<run, token, result, discarded>>
        /\ pc[Playback] # "playing" /\ pc'[Playback] = "done"
    BY <1>13, <1>c DEF PlaybackInterrupted, DiscardRaises, EndChild
  <2> QED  BY <1>1, <2>1, ClipsStay DEF Speaking
<1>14. ASSUME NEW how \in {"continue", "cancel", "fail"}, PlayEnds(how)
       PROVE  [Spoken!Next]_(Spoken!vars)
  <2>1. /\ UNCHANGED <<run, token, result, next>> /\ discarded' = discarded \cup {next}
        /\ Speaking = {next} /\ Speaking' = {} /\ pc[Playback] = "playing"
    BY <1>14, <1>c DEF PlayEnds, Speaking
  <2>2. next \in Segments
    BY <2>1 DEF PipelineInv, PlaybackProgress, TypeOK, Segments
  <2>3. next \notin discarded
    BY <2>1, PlayingInGroup DEF PipelineInv, PlaybackProgress, TypeOK
  <2>4. clips[next] = "playing" /\ Clip(next)' = "gone"
    BY <2>1, <2>2, <2>3 DEF Clip
  <2>5. \A i \in Segments : i # next => Clip(i)' = Clip(i)
    BY <2>1 DEF Clip
  <2>6. clips' = [clips EXCEPT ![next] = "gone"]
    BY <2>1, <2>4, <2>5
  <2>7. Spoken!Finish(next)
    BY <2>1, <2>4, <2>6 DEF Spoken!Finish
  <2> QED  BY <2>2, <2>7, <1>d DEF Spoken!Next
<1> QED
  BY <1>3, <1>4, <1>5, <1>6, <1>7, <1>8, <1>9, <1>10, <1>11, <1>12, <1>13, <1>14
     DEF Next, PlaybackStep, CleanUp

(* The pipeline implements the promise of SpokenTurn. *)
THEOREM SpokenTurnImplemented == Spec => ImplementsSpokenTurn
<1>1. Init => Spoken!Init
  BY PipelineAssumption
     DEF Init, Spoken!Init, Clip, Speaking, Spoken!Segments, Segments, Children
<1>2. TypeOK /\ PipelineInv /\ [Next]_vars => [Spoken!Next]_(Spoken!vars)
  BY StepImplements
<1> QED
  BY <1>1, <1>2, TypeCorrect, PipelineInvCorrect, PTL
     DEF Spec, ImplementsSpokenTurn, Spoken!Spec
=============================================================================
