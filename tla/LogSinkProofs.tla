--------------------------- MODULE LogSinkProofs ---------------------------
(***************************************************************************)
(* Proofs about LogSink, for any number of logs, capacity and batch size.  *)
(***************************************************************************)
EXTENDS LogSink, TLAPS

\* The elements of the queues and batches, as the loop's operations on them
\* (append, receive, insert a part of a batch) change them.
LEMMA RangeSeq ==
    ASSUME NEW S, NEW s \in Seq(S)
    PROVE  /\ Range(s) \subseteq S
           /\ \A x : x \in Range(s) <=> \E i \in 1..Len(s) : s[i] = x
  BY DEF Range

LEMMA RangeAppend ==
    ASSUME NEW S, NEW s \in Seq(S), NEW x \in S
    PROVE  Range(Append(s, x)) = Range(s) \cup {x}
<1>1. Append(s, x) \in Seq(S) /\ Len(Append(s, x)) = Len(s) + 1
  OBVIOUS
<1>2. \A i \in 1..Len(s) : Append(s, x)[i] = s[i]
  OBVIOUS
<1>3. Append(s, x)[Len(s) + 1] = x
  OBVIOUS
<1>4. \A y : (\E i \in 1..(Len(s) + 1) : Append(s, x)[i] = y) <=> (y = x \/ \E i \in 1..Len(s) : s[i] = y)
  BY <1>2, <1>3
<1>5. \A y : y \in Range(Append(s, x)) <=> \E i \in 1..Len(Append(s, x)) : Append(s, x)[i] = y
  BY <1>1, RangeSeq
<1>6. \A y : y \in Range(s) <=> \E i \in 1..Len(s) : s[i] = y
  BY RangeSeq
<1>7. \A y : y \in Range(Append(s, x)) <=> (y = x \/ y \in Range(s))
  BY <1>1, <1>4, <1>5, <1>6
<1> QED
  BY <1>7

LEMMA RangeTail ==
    ASSUME NEW S, NEW s \in Seq(S), s # <<>>
    PROVE  Range(s) = {Head(s)} \cup Range(Tail(s))
<1>1. Tail(s) \in Seq(S) /\ Len(Tail(s)) = Len(s) - 1 /\ Head(s) = s[1] /\ Len(s) >= 1
  OBVIOUS
<1>2. \A i \in 1..(Len(s) - 1) : Tail(s)[i] = s[i + 1]
  OBVIOUS
<1>3. \A y : (\E i \in 1..Len(s) : s[i] = y) <=> (y = s[1] \/ \E i \in 1..(Len(s) - 1) : Tail(s)[i] = y)
  <2>1. ASSUME NEW i \in 1..Len(s), i # 1 PROVE i - 1 \in 1..(Len(s) - 1) /\ Tail(s)[i - 1] = s[i]
    <3>1. i - 1 \in 1..(Len(s) - 1) /\ (i - 1) + 1 = i
      BY <1>1, <2>1
    <3> QED
      BY <3>1, <1>2
  <2>2. ASSUME NEW i \in 1..(Len(s) - 1) PROVE i + 1 \in 1..Len(s) /\ Tail(s)[i] = s[i + 1]
    BY <1>1, <1>2
  <2>3. 1 \in 1..Len(s)
    BY <1>1
  <2> QED
    BY <2>1, <2>2, <2>3
<1>4. \A y : y \in Range(Tail(s)) <=> \E i \in 1..Len(Tail(s)) : Tail(s)[i] = y
  BY <1>1, RangeSeq
<1>5. \A y : y \in Range(s) <=> \E i \in 1..Len(s) : s[i] = y
  BY RangeSeq
<1>6. \A y : y \in Range(s) <=> (y = Head(s) \/ y \in Range(Tail(s)))
  BY <1>1, <1>3, <1>4, <1>5
<1> QED
  BY <1>6

LEMMA RangeConcat ==
    ASSUME NEW S, NEW s \in Seq(S), NEW t \in Seq(S)
    PROVE  Range(s \o t) = Range(s) \cup Range(t)
<1>1. (s \o t) \in Seq(S) /\ Len(s \o t) = Len(s) + Len(t)
  OBVIOUS
<1>2. \A i \in 1..Len(s) : (s \o t)[i] = s[i]
  OBVIOUS
<1>3. \A i \in 1..Len(t) : (s \o t)[Len(s) + i] = t[i]
  OBVIOUS
<1>4. \A y : (\E i \in 1..(Len(s) + Len(t)) : (s \o t)[i] = y)
                <=> ((\E i \in 1..Len(s) : s[i] = y) \/ (\E i \in 1..Len(t) : t[i] = y))
  <2>1. ASSUME NEW i \in 1..(Len(s) + Len(t)), i \notin 1..Len(s)
        PROVE  i - Len(s) \in 1..Len(t) /\ (s \o t)[i] = t[i - Len(s)]
    <3>1. i - Len(s) \in 1..Len(t) /\ Len(s) + (i - Len(s)) = i
      BY <2>1
    <3> QED
      BY <3>1, <1>3
  <2>2. ASSUME NEW i \in 1..Len(t) PROVE Len(s) + i \in 1..(Len(s) + Len(t))
    OBVIOUS
  <2>3. \A i \in 1..Len(s) : i \in 1..(Len(s) + Len(t))
    OBVIOUS
  <2> QED
    BY <1>2, <1>3, <2>1, <2>2, <2>3
<1>5. \A y : y \in Range(s \o t) <=> \E i \in 1..(Len(s) + Len(t)) : (s \o t)[i] = y
  BY <1>1, RangeSeq
<1>6. ASSUME NEW y PROVE y \in Range(s \o t) <=> (y \in Range(s) \/ y \in Range(t))
  <2>1. y \in Range(s \o t) <=> \E i \in 1..(Len(s) + Len(t)) : (s \o t)[i] = y
    BY <1>5
  <2>2. (\E i \in 1..(Len(s) + Len(t)) : (s \o t)[i] = y)
           <=> ((\E i \in 1..Len(s) : s[i] = y) \/ (\E i \in 1..Len(t) : t[i] = y))
    BY <1>4
  <2>3. y \in Range(s) <=> \E i \in 1..Len(s) : s[i] = y
    BY RangeSeq
  <2>4. y \in Range(t) <=> \E i \in 1..Len(t) : t[i] = y
    BY RangeSeq
  <2> QED
    BY <2>1, <2>2, <2>3, <2>4
<1> QED
  BY <1>6

LEMMA PrefixFacts ==
    ASSUME NEW S, NEW s \in Seq(S), NEW n \in 0..Len(s)
    PROVE  /\ SubSeq(s, 1, n) \in Seq(S)
           /\ Len(SubSeq(s, 1, n)) = n
           /\ \A i \in 1..n : SubSeq(s, 1, n)[i] = s[i]
  OBVIOUS

LEMMA RangePrefix ==
    ASSUME NEW S, NEW s \in Seq(S), NEW n \in 0..Len(s)
    PROVE  Range(s) = Range(SubSeq(s, 1, n)) \cup {s[i] : i \in (n + 1)..Len(s)}
<1>1. \A y : (\E i \in 1..Len(s) : s[i] = y)
                <=> ((\E i \in 1..n : s[i] = y) \/ (\E i \in (n + 1)..Len(s) : s[i] = y))
  OBVIOUS
<1>2. \A y : y \in Range(SubSeq(s, 1, n)) <=> \E i \in 1..n : s[i] = y
  <2>1. SubSeq(s, 1, n) \in Seq(S) /\ Len(SubSeq(s, 1, n)) = n
    BY PrefixFacts
  <2>2. \A y : y \in Range(SubSeq(s, 1, n)) <=>
                \E i \in 1..Len(SubSeq(s, 1, n)) : SubSeq(s, 1, n)[i] = y
    BY <2>1, RangeSeq
  <2> QED
    BY <2>1, <2>2, PrefixFacts
<1>3. \A y : y \in Range(s) <=> \E i \in 1..Len(s) : s[i] = y
  BY RangeSeq
<1>4. \A y : y \in {s[i] : i \in (n + 1)..Len(s)} <=> \E i \in (n + 1)..Len(s) : s[i] = y
  OBVIOUS
<1>5. \A y : y \in Range(s) <=>
            (y \in Range(SubSeq(s, 1, n)) \/ y \in {s[i] : i \in (n + 1)..Len(s)})
  BY <1>1, <1>2, <1>3, <1>4
<1> QED
  BY <1>5

LEMMA SeqMonotone ==
    ASSUME NEW S, NEW T, S \subseteq T, NEW s \in Seq(S)
    PROVE  s \in Seq(T)
  OBVIOUS

LEMMA SeqFunction ==
    ASSUME NEW S, NEW s \in Seq(S)
    PROVE  s \in [1..Len(s) -> S]
  OBVIOUS

LEMMA AppendFacts ==
    ASSUME NEW S, NEW s \in Seq(S), NEW x \in S
    PROVE  /\ Append(s, x) \in Seq(S) /\ Len(Append(s, x)) = Len(s) + 1
           /\ \A i \in 1..Len(s) : Append(s, x)[i] = s[i]
           /\ Append(s, x)[Len(s) + 1] = x
  OBVIOUS

LEMMA AppendArmed ==
    ASSUME NEW s \in Seq({"armed", "fired", "off"})
    PROVE  /\ Append(s, "armed")[Len(s) + 1] = "armed"
           /\ \A i \in 1..Len(s) : Append(s, "armed")[i] = s[i]
  BY AppendFacts

LEMMA UpdateFacts ==
    ASSUME NEW S, NEW s \in Seq(S), NEW k \in 1..Len(s), NEW x \in S
    PROVE  /\ [s EXCEPT ![k] = x] \in Seq(S) /\ Len([s EXCEPT ![k] = x]) = Len(s)
           /\ \A i \in 1..Len(s) : [s EXCEPT ![k] = x][i] = IF i = k THEN x ELSE s[i]
  OBVIOUS

\* What an insertion adds to the collection: a part of the batch, in order.
LEMMA SaveFacts ==
    ASSUME TypeOK, NEW b \in 1..Len(batch), saveJobLogs(b)
    PROVE  \E n \in 0..Len(batch[b]) :
              /\ SubSeq(batch[b], 1, n) \in Seq(Log)
              /\ store' = store \o SubSeq(batch[b], 1, n)
              /\ lost' = lost \cup {batch[b][i] : i \in (n + 1)..Len(batch[b])}
              /\ store' \in Seq(Log) /\ lost' \in SUBSET Log
<1>1. batch[b] \in Seq(Log)
  BY DEF TypeOK
<1>2. PICK n \in 0..Len(batch[b]) :
         /\ store' = store \o SubSeq(batch[b], 1, n)
         /\ lost' = lost \cup {batch[b][i] : i \in (n + 1)..Len(batch[b])}
  BY DEF saveJobLogs
<1>3. SubSeq(batch[b], 1, n) \in Seq(Log)
  BY <1>1, PrefixFacts
<1>4. store' \in Seq(Log)
  BY <1>2, <1>3 DEF TypeOK
<1>5. lost' \in SUBSET Log
  BY <1>1, <1>2 DEF TypeOK
<1> QED
  BY <1>2, <1>3, <1>4, <1>5

-----------------------------------------------------------------------------
\* Types, and the commit that is underway for every open batch, are kept by
\* every step of Append, writeLoop and the timers.
LEMMA TypeStep ==
    ASSUME TypeOK, CommitUnderway, [Next]_vars
    PROVE  TypeOK'
<1> USE SinkAssumption DEF TypeOK, loopVars, mongoVars
<1>1. CASE LogAppend
  <2>1. offered + 1 \in Log
    BY <1>1 DEF LogAppend, Log
  <2>2. logChan' \in Seq(Log) /\ Len(logChan') <= ChanCap
    <3>1. CASE Len(logChan) < ChanCap /\ logChan' = Append(logChan, offered + 1)
      BY <3>1, <2>1, AppendFacts
    <3>2. CASE UNCHANGED logChan
      BY <3>2
    <3> QED
      BY <1>1, <3>1, <3>2 DEF LogAppend
  <2>3. dropped' \in SUBSET Log /\ offered' \in 0..MaxLogs
    BY <1>1, <2>1 DEF LogAppend
  <2> QED
    BY <1>1, <2>2, <2>3 DEF LogAppend
<1>2. CASE Receive
  <2>1. /\ Head(logChan) \in Log /\ logChan' \in Seq(Log) /\ Len(logChan') <= ChanCap
        /\ UNCHANGED <<offered, dropped, timeoutBatch, autoCommitChan, store, lost>>
    BY <1>2 DEF Receive
  <2>2. pc' \in {"select", "full", "timeout"}
    BY <1>2 DEF Receive
  <2>3. CASE jobLogBatch = 0
    <3>1. OpenBatch(Head(logChan))
      BY <1>2, <2>3 DEF Receive
    <3>2. <<Head(logChan)>> \in Seq(Log)
      BY <2>1
    <3>3. batch' \in Seq(Seq(Log)) /\ Len(batch') = Len(batch) + 1
      BY <3>1, <3>2 DEF OpenBatch
    <3>4. timer' \in Seq({"armed", "fired", "off"}) /\ Len(timer') = Len(timer) + 1
      BY <3>1 DEF OpenBatch
    <3>5. jobLogBatch' \in 0..Len(batch') /\ timeoutBatch' \in 0..Len(batch')
      BY <3>1, <3>3, <2>1 DEF OpenBatch
    <3>6. autoCommitChan' \in Seq(1..Len(batch'))
      BY <2>1, <3>3, SeqMonotone
    <3> QED
      BY <2>1, <2>2, <3>3, <3>4, <3>5, <3>6
  <2>4. CASE jobLogBatch # 0
    <3>1. ExtendBatch(Head(logChan))
      BY <1>2, <2>4 DEF Receive
    <3>2. Append(batch[jobLogBatch], Head(logChan)) \in Seq(Log)
      BY <2>1, <2>4
    <3>3. batch' \in Seq(Seq(Log)) /\ Len(batch') = Len(batch)
      <4>1. jobLogBatch \in 1..Len(batch)
        BY <2>4
      <4>2. batch' = [batch EXCEPT ![jobLogBatch] = Append(batch[jobLogBatch], Head(logChan))]
        BY <3>1 DEF ExtendBatch
      <4> QED
        BY <3>2, <4>1, <4>2, UpdateFacts
    <3> QED
      BY <2>1, <2>2, <3>1, <3>3 DEF ExtendBatch
  <2> QED
    BY <2>3, <2>4
<1>3. CASE SaveFull
  <2>1. jobLogBatch \in 1..Len(batch)
    BY <1>3 DEF SaveFull, CommitUnderway
  <2>2. store' \in Seq(Log) /\ lost' \in SUBSET Log
    BY <1>3, <2>1, SaveFacts DEF SaveFull
  <2>3. timer' \in Seq({"armed", "fired", "off"}) /\ Len(timer') = Len(timer)
    BY <1>3, <2>1 DEF SaveFull
  <2> QED
    BY <1>3, <2>2, <2>3 DEF SaveFull
<1>4. CASE Timeout
  <2>1. Head(autoCommitChan) \in 1..Len(batch) /\ autoCommitChan' \in Seq(1..Len(batch))
    BY <1>4 DEF Timeout
  <2>2. Len(autoCommitChan') <= 1
    BY <1>4 DEF Timeout
  <2> QED
    BY <1>4, <2>1, <2>2 DEF Timeout
<1>5. CASE SaveTimeout
  <2>1. timeoutBatch \in 1..Len(batch)
    BY <1>5 DEF SaveTimeout, CommitUnderway
  <2>2. store' \in Seq(Log) /\ lost' \in SUBSET Log
    BY <1>5, <2>1, SaveFacts DEF SaveTimeout
  <2> QED
    BY <1>5, <2>2 DEF SaveTimeout
<1>6. ASSUME NEW b \in 1..Len(batch), Fire(b) PROVE TypeOK'
  BY <1>6 DEF Fire
<1>7. ASSUME NEW b \in 1..Len(batch), Callback(b) PROVE TypeOK'
  <2>1. autoCommitChan' \in Seq(1..Len(batch)) /\ Len(autoCommitChan') <= 1
    BY <1>7 DEF Callback
  <2>2. timer' \in Seq({"armed", "fired", "off"}) /\ Len(timer') = Len(timer)
    BY <1>7, UpdateFacts DEF Callback
  <2>3. UNCHANGED <<offered, dropped, logChan, batch, jobLogBatch, timeoutBatch, pc, store, lost>>
    BY <1>7 DEF Callback
  <2> QED
    BY <2>1, <2>2, <2>3
<1>8. CASE UNCHANGED vars
  BY <1>8 DEF vars
<1> QED
  BY <1>1, <1>2, <1>3, <1>4, <1>5, <1>6, <1>7, <1>8 DEF Next, writeLoop

LEMMA CommitStep ==
    ASSUME TypeOK, TypeOK', CommitUnderway, [Next]_vars
    PROVE  CommitUnderway'
<1>0. /\ timer \in Seq({"armed", "fired", "off"}) /\ Len(timer) = Len(batch) /\ Len(batch) \in Nat
      /\ jobLogBatch \in 0..Len(batch) /\ timeoutBatch \in 0..Len(batch)
      /\ autoCommitChan \in Seq(1..Len(batch)) /\ Len(autoCommitChan) <= 1
      /\ pc \in {"select", "full", "timeout"}
  BY DEF TypeOK
<1> USE <1>0 DEF CommitUnderway, loopVars, mongoVars
<1>1. CASE LogAppend
  BY <1>1 DEF LogAppend
<1>2. CASE Receive
  <2>1. CASE jobLogBatch = 0
    <3>1. /\ timer' = Append(timer, "armed") /\ jobLogBatch' = Len(batch) + 1
          /\ Len(batch') = Len(batch) + 1 /\ pc = "select"
          /\ pc' \in {"select", "full"} /\ UNCHANGED <<timeoutBatch, autoCommitChan>>
      <4>1. OpenBatch(Head(logChan)) /\ pc = "select" /\ UNCHANGED <<timeoutBatch, autoCommitChan>>
        BY <1>2, <2>1 DEF Receive
      <4>2. pc' \in {"select", "full"}
        BY <1>2 DEF Receive
      <4>3. Len(batch') = Len(timer')
        BY DEF TypeOK
      <4> QED
        BY <4>1, <4>2, <4>3 DEF OpenBatch
    <3>2. /\ timer'[Len(batch) + 1] = "armed"
          /\ \A b \in 1..Len(batch) : timer'[b] = timer[b] /\ timer[b] # "armed"
      <4>1. timer \in Seq({"armed", "fired", "off"}) /\ Len(timer) = Len(batch)
        OBVIOUS
      <4>2. /\ timer'[Len(batch) + 1] = "armed"
            /\ \A b \in 1..Len(batch) : timer'[b] = timer[b]
        BY <3>1, <4>1, AppendArmed
      <4>3. \A b \in 1..Len(batch) : b # 0
        OBVIOUS
      <4>4. \A b \in 1..Len(batch) : timer[b] # "armed"
        BY <2>1, <4>3
      <4> QED
        BY <4>2, <4>4
    <3>3. \A b \in Range(autoCommitChan) : b \in 1..Len(batch)
      BY RangeSeq
    <3> QED
      BY <3>1, <3>2, <3>3
  <2>2. CASE jobLogBatch # 0
    BY <1>2, <2>2 DEF Receive, ExtendBatch
  <2> QED
    BY <2>1, <2>2
<1>3. CASE SaveFull
  BY <1>3 DEF SaveFull
<1>4. CASE Timeout
  BY <1>4 DEF Timeout, Range
<1>5. CASE SaveTimeout
  BY <1>5 DEF SaveTimeout
<1>6. ASSUME NEW b \in 1..Len(batch), Fire(b) PROVE CommitUnderway'
  BY <1>6 DEF Fire, Range
<1>7. ASSUME NEW b \in 1..Len(batch), Callback(b) PROVE CommitUnderway'
  <2>1. Range(autoCommitChan') = Range(autoCommitChan) \cup {b}
    BY <1>7, RangeAppend DEF Callback
  <2>2. timer' = [timer EXCEPT ![b] = "off"] /\ timer \in [1..Len(batch) -> {"armed", "fired", "off"}]
    <3>1. timer \in [1..Len(timer) -> {"armed", "fired", "off"}]
      BY SeqFunction
    <3> QED
      BY <1>7, <3>1 DEF Callback
  <2>3. /\ UNCHANGED <<batch, jobLogBatch, timeoutBatch, pc>> /\ timer[b] = "fired"
        /\ Range(autoCommitChan) \subseteq 1..Len(batch)
    BY <1>7, RangeSeq DEF Callback
  <2>4. \A c \in 1..Len(batch) : c # b => timer'[c] = timer[c]
    BY <2>2
  <2>5. timer'[b] = "off"
    BY <2>2
  <2>6. pc' = "select" /\ jobLogBatch' # 0 =>
           timer'[jobLogBatch'] \in {"armed", "fired"} \/ jobLogBatch' \in Range(autoCommitChan')
    BY <2>1, <2>3, <2>4
  <2>7. \A c \in 1..Len(batch') : timer'[c] = "armed" => c = jobLogBatch'
    BY <2>3, <2>4, <2>5
  <2>8. \A c \in Range(autoCommitChan') : timer'[c] = "off"
    BY <2>1, <2>3, <2>4, <2>5
  <2>9. pc' = "timeout" => timeoutBatch' = jobLogBatch' /\ timer'[jobLogBatch'] = "off"
    BY <2>3, <2>4
  <2> QED
    BY <2>3, <2>6, <2>7, <2>8, <2>9
<1>8. CASE UNCHANGED vars
  BY <1>8 DEF vars
<1> QED
  BY <1>1, <1>2, <1>3, <1>4, <1>5, <1>6, <1>7, <1>8 DEF Next, writeLoop

\* Every variable keeps its type; batches being saved exist.
THEOREM TypeCorrect == Spec => []TypeOK
<1>1. Init => TypeOK /\ CommitUnderway
  BY SinkAssumption DEF Init, TypeOK, CommitUnderway, Range
<1>2. TypeOK /\ CommitUnderway /\ [Next]_vars => TypeOK' /\ CommitUnderway'
  BY TypeStep, CommitStep
<1> QED
  BY <1>1, <1>2, PTL DEF Spec

\* A batch that waits for more logs always has its commit underway.
THEOREM CommitUnderwayTheorem == Spec => []CommitUnderway
<1>1. Init => CommitUnderway
  BY DEF Init, CommitUnderway, Range
<1>2. TypeOK /\ TypeOK' /\ CommitUnderway /\ [Next]_vars => CommitUnderway'
  BY CommitStep
<1> QED
  BY <1>1, <1>2, TypeCorrect, PTL DEF Spec

-----------------------------------------------------------------------------
\* The steps as moves of logs between the queue, the current batch and the
\* collection.
Accept == /\ offered' = offered + 1 /\ logChan' = Append(logChan, offered + 1)
          /\ Current' = Current /\ UNCHANGED <<dropped, lost, store>>
Drop == /\ offered' = offered + 1 /\ dropped' = dropped \cup {offered + 1}
        /\ Current' = Current /\ UNCHANGED <<logChan, lost, store>>
Move == /\ logChan # <<>> /\ logChan' = Tail(logChan)
        /\ Current' = Append(Current, Head(logChan))
        /\ UNCHANGED <<offered, dropped, lost, store>>
Save(n) == /\ store' = store \o SubSeq(Current, 1, n)
           /\ lost' = lost \cup {Current[i] : i \in (n + 1)..Len(Current)}
           /\ Current' = <<>> /\ UNCHANGED <<offered, dropped, logChan>>
Idle == Current' = Current /\ UNCHANGED <<offered, dropped, logChan, lost, store>>

LEMMA SinkTypes ==
    ASSUME TypeOK
    PROVE  /\ logChan \in Seq(Log) /\ store \in Seq(Log) /\ Current \in Seq(Log)
           /\ offered \in Nat /\ Log \subseteq Nat
<1>1. Current \in Seq(Log)
  BY DEF Current, TypeOK
<1>2. offered \in Nat /\ Log \subseteq Nat
  BY SinkAssumption DEF TypeOK, Log
<1> QED
  BY <1>1, <1>2 DEF TypeOK

LEMMA SinkSteps ==
    ASSUME TypeOK, TypeOK', CommitUnderway, [Next]_vars
    PROVE  /\ Current \in Seq(Log)
           /\ Accept \/ Drop \/ Move \/ (\E n \in 0..Len(Current) : Save(n)) \/ Idle
<1> USE DEF loopVars, mongoVars
<1>0. Current \in Seq(Log)
  BY DEF Current, TypeOK
<1>1. CASE LogAppend
  <2>1. Current' = Current
    BY <1>1 DEF LogAppend, Current
  <2>2. Accept \/ Drop
    BY <1>1, <2>1 DEF LogAppend, Accept, Drop
  <2> QED
    BY <1>0, <2>2
<1>2. CASE Receive
  <2>1. logChan # <<>> /\ logChan' = Tail(logChan) /\ UNCHANGED <<offered, dropped, lost, store>>
    BY <1>2 DEF Receive
  <2>2. CASE jobLogBatch = 0
    <3>1. batch' = Append(batch, <<Head(logChan)>>) /\ jobLogBatch' = Len(batch) + 1
      BY <1>2, <2>2 DEF Receive, OpenBatch
    <3>2. Head(logChan) \in Log /\ <<Head(logChan)>> \in Seq(Log)
      BY <2>1 DEF TypeOK
    <3>3. batch'[Len(batch) + 1] = <<Head(logChan)>> /\ Len(batch) + 1 # 0
      <4>1. batch \in Seq(Seq(Log))
        BY DEF TypeOK
      <4>2. Append(batch, <<Head(logChan)>>)[Len(batch) + 1] = <<Head(logChan)>> /\ Len(batch) \in Nat
        BY <3>2, <4>1, AppendFacts
      <4> QED
        BY <3>1, <4>2
    <3>4. Current = <<>> /\ Current' = <<Head(logChan)>>
      BY <2>2, <3>1, <3>3 DEF Current
    <3>5. Append(<<>>, Head(logChan)) = <<Head(logChan)>>
      BY <3>2
    <3> QED
      BY <1>0, <2>1, <3>4, <3>5 DEF Move
  <2>3. CASE jobLogBatch # 0
    <3>1. /\ batch' = [batch EXCEPT ![jobLogBatch] = Append(batch[jobLogBatch], Head(logChan))]
          /\ jobLogBatch' = jobLogBatch
      BY <1>2, <2>3 DEF Receive, ExtendBatch
    <3>2. batch \in [1..Len(batch) -> Seq(Log)] /\ jobLogBatch \in 1..Len(batch)
      BY <2>3, SeqFunction DEF TypeOK
    <3>3. Current' = Append(Current, Head(logChan))
      BY <2>3, <3>1, <3>2 DEF Current
    <3> QED
      BY <1>0, <2>1, <3>3 DEF Move
  <2> QED
    BY <2>2, <2>3
<1>3. CASE SaveFull
  BY <1>0, <1>3 DEF SaveFull, saveJobLogs, Save, Current, CommitUnderway
<1>4. CASE Timeout
  BY <1>0, <1>4 DEF Timeout, Idle, Current
<1>5. CASE SaveTimeout
  BY <1>0, <1>5 DEF SaveTimeout, saveJobLogs, Save, Current, CommitUnderway
<1>6. ASSUME NEW b \in 1..Len(batch), Fire(b) \/ Callback(b) PROVE Idle
  BY <1>6 DEF Fire, Callback, Idle, Current
<1>7. CASE UNCHANGED vars
  <2>1. Current' = Current
    BY <1>7 DEF vars, Current
  <2> QED
    BY <1>0, <1>7, <2>1 DEF vars, Idle
<1> QED
  BY <1>0, <1>1, <1>2, <1>3, <1>4, <1>5, <1>6, <1>7 DEF Next, writeLoop

\* Order is kept when a later log is appended, when the first is taken away,
\* when later logs are added, and by a prefix.
LEMMA IncreasingAppend ==
    ASSUME NEW s \in Seq(Nat), NEW x \in Nat, Increasing(s), \A y \in Range(s) : y < x
    PROVE  Increasing(Append(s, x))
<1>1. \A i \in 1..Len(s) : s[i] < x
  BY RangeSeq
<1>2. /\ Len(Append(s, x)) = Len(s) + 1
      /\ \A i \in 1..Len(s) : Append(s, x)[i] = s[i]
      /\ Append(s, x)[Len(s) + 1] = x
  BY AppendFacts
<1> DEFINE t == Append(s, x)
<1> HIDE DEF t
<1>3. /\ Len(t) = Len(s) + 1 /\ t[Len(s) + 1] = x
      /\ \A i \in 1..Len(s) : t[i] = s[i]
  BY <1>2 DEF t
<1>4. ASSUME NEW i \in 1..Len(t), NEW k \in 1..Len(t), i < k PROVE t[i] < t[k]
  <2>1. i \in 1..Len(s)
    BY <1>3, <1>4
  <2>2. CASE k \in 1..Len(s)
    BY <1>3, <1>4, <2>1, <2>2 DEF Increasing
  <2>3. CASE k = Len(s) + 1
    BY <1>1, <1>3, <2>1, <2>3
  <2> QED
    BY <1>3, <2>2, <2>3
<1> QED
  BY <1>4 DEF Increasing, t

LEMMA IncreasingTail ==
    ASSUME NEW s \in Seq(Nat), s # <<>>, Increasing(s)
    PROVE  Increasing(Tail(s)) /\ \A y \in Range(Tail(s)) : Head(s) < y
<1> DEFINE t == Tail(s)
<1>1. /\ t \in Seq(Nat) /\ Len(t) = Len(s) - 1 /\ Head(s) = s[1] /\ Len(s) >= 1
      /\ \A i \in 1..(Len(s) - 1) : t[i] = s[i + 1]
  OBVIOUS
<1> HIDE DEF t
<1>2. ASSUME NEW i \in 1..Len(t) PROVE i + 1 \in 1..Len(s) /\ 1 < i + 1 /\ t[i] = s[i + 1]
  BY <1>1
<1>3. ASSUME NEW i \in 1..Len(t), NEW k \in 1..Len(t), i < k PROVE t[i] < t[k]
  <2>1. i + 1 < k + 1
    BY <1>3
  <2> QED
    BY <1>2, <2>1 DEF Increasing
<1>4. \A i \in 1..Len(t) : Head(s) < t[i]
  <2>1. 1 \in 1..Len(s)
    BY <1>1
  <2> QED
    BY <1>1, <1>2, <2>1 DEF Increasing
<1>5. ASSUME NEW y \in Range(t) PROVE Head(s) < y
  <2>1. PICK i \in 1..Len(t) : t[i] = y
    BY <1>1, RangeSeq
  <2> QED
    BY <1>4, <2>1
<1>6. Increasing(t)
  BY <1>3 DEF Increasing
<1> QED
  BY <1>5, <1>6 DEF t

LEMMA IncreasingConcat ==
    ASSUME NEW s \in Seq(Nat), NEW t \in Seq(Nat), Increasing(s), Increasing(t), Before(s, t)
    PROVE  Increasing(s \o t)
<1> DEFINE u == s \o t
<1>1. /\ Len(u) = Len(s) + Len(t)
      /\ \A i \in 1..Len(s) : u[i] = s[i]
      /\ \A i \in 1..Len(t) : u[Len(s) + i] = t[i]
  OBVIOUS
<1>2. \A i \in 1..Len(s), k \in 1..Len(t) : s[i] < t[k]
  BY RangeSeq DEF Before
<1> HIDE DEF u
<1>3. ASSUME NEW i \in 1..Len(u), i \notin 1..Len(s)
      PROVE  i - Len(s) \in 1..Len(t) /\ u[i] = t[i - Len(s)]
  <2>1. i - Len(s) \in 1..Len(t) /\ Len(s) + (i - Len(s)) = i
    BY <1>1, <1>3
  <2> QED
    BY <1>1, <2>1
<1>4. ASSUME NEW i \in 1..Len(u), NEW k \in 1..Len(u), i < k PROVE u[i] < u[k]
  <2>1. CASE k \in 1..Len(s)
    <3>1. i \in 1..Len(s)
      BY <1>4, <2>1
    <3> QED
      BY <1>1, <1>4, <2>1, <3>1 DEF Increasing
  <2>2. CASE i \in 1..Len(s) /\ k \notin 1..Len(s)
    BY <1>1, <1>2, <1>3, <2>2
  <2>3. CASE i \notin 1..Len(s) /\ k \notin 1..Len(s)
    <3>1. i - Len(s) < k - Len(s)
      BY <1>4
    <3> QED
      BY <1>3, <2>3, <3>1 DEF Increasing
  <2>4. ~(i \notin 1..Len(s) /\ k \in 1..Len(s))
    BY <1>4
  <2> QED
    BY <2>1, <2>2, <2>3, <2>4
<1> QED
  BY <1>4 DEF Increasing, u

LEMMA IncreasingPrefix ==
    ASSUME NEW s \in Seq(Nat), NEW n \in 0..Len(s), Increasing(s)
    PROVE  /\ Increasing(SubSeq(s, 1, n))
           /\ \A i \in (n + 1)..Len(s) : s[i] \notin Range(SubSeq(s, 1, n))
<1> DEFINE p == SubSeq(s, 1, n)
<1>1. p \in Seq(Nat) /\ Len(p) = n /\ \A i \in 1..n : p[i] = s[i]
  BY PrefixFacts
<1> HIDE DEF p
<1>2. Increasing(p)
  <2>1. \A i \in 1..n : i \in 1..Len(s)
    OBVIOUS
  <2> QED
    BY <1>1, <2>1 DEF Increasing
<1>3. \A x \in Range(p) : \E k \in 1..n : x = s[k]
  BY <1>1, RangeSeq
<1>4. ASSUME NEW i \in (n + 1)..Len(s), NEW k \in 1..n PROVE s[k] < s[i] /\ s[i] \in Nat
  BY DEF Increasing
<1>5. ASSUME NEW i \in (n + 1)..Len(s), s[i] \in Range(p) PROVE FALSE
  <2>1. PICK k \in 1..n : s[i] = s[k]
    BY <1>3, <1>5
  <2> QED
    BY <1>4, <2>1
<1> QED
  BY <1>2, <1>5 DEF p

-----------------------------------------------------------------------------
\* The logs are kept in order by every move.
LEMMA OrderStep ==
    ASSUME TypeOK, TypeOK', CommitUnderway, Accounted, InOrder, [Next]_vars
    PROVE  InOrder'
<1>1. logChan \in Seq(Nat) /\ store \in Seq(Nat) /\ Current \in Seq(Nat) /\ offered \in Nat
  <2>1. Log \subseteq Nat
    BY SinkAssumption DEF Log
  <2>2. logChan \in Seq(Log) /\ store \in Seq(Log) /\ Current \in Seq(Log)
    BY SinkSteps DEF TypeOK
  <2>3. offered \in Nat
    BY SinkAssumption DEF TypeOK
  <2>4. \A s : s \in Seq(Log) => s \in Seq(Nat)
    BY <2>1, SeqMonotone
  <2> QED
    BY <2>2, <2>3, <2>4
<1>2. CASE Accept
  <2>1. \A x \in Range(logChan) \cup Range(store) \cup Range(Current) : x < offered + 1
    BY <1>1 DEF Accounted
  <2>2. Range(logChan') = Range(logChan) \cup {offered + 1}
    <3> DEFINE x == offered + 1
    <3>1. x \in Nat /\ logChan' = Append(logChan, x)
      BY <1>1, <1>2 DEF Accept
    <3> HIDE DEF x
    <3>2. Range(Append(logChan, x)) = Range(logChan) \cup {x}
      BY <1>1, <3>1, RangeAppend
    <3> QED
      BY <3>1, <3>2 DEF x
  <2>3. Increasing(logChan')
    BY <1>1, <1>2, <2>1, IncreasingAppend DEF Accept, InOrder
  <2>4. Before(store, logChan') /\ Before(Current, logChan')
    BY <2>1, <2>2 DEF InOrder, Before
  <2> QED
    BY <1>2, <2>3, <2>4 DEF InOrder, Accept
<1>3. CASE Drop \/ Idle
  BY <1>3 DEF Drop, Idle, InOrder
<1>4. CASE Move
  <2>1. Head(logChan) \in Nat /\ Range(logChan) = {Head(logChan)} \cup Range(logChan')
    BY <1>1, <1>4, RangeTail DEF Move
  <2>2. Range(Current') = Range(Current) \cup {Head(logChan)}
    BY <1>1, <1>4, <2>1, RangeAppend DEF Move
  <2>3. Increasing(logChan') /\ \A y \in Range(logChan') : Head(logChan) < y
    BY <1>1, <1>4, IncreasingTail DEF Move, InOrder
  <2>4. Increasing(Current')
    BY <1>1, <1>4, <2>1, IncreasingAppend DEF Move, InOrder, Before
  <2>5. Before(store, Current') /\ Before(store, logChan') /\ Before(Current', logChan')
    BY <2>1, <2>2, <2>3 DEF InOrder, Before
  <2> QED
    BY <1>4, <2>3, <2>4, <2>5 DEF InOrder, Move
<1>5. ASSUME NEW n \in 0..Len(Current), Save(n) PROVE InOrder'
  <2> DEFINE p == SubSeq(Current, 1, n)
  <2>1. p \in Seq(Nat) /\ Increasing(p) /\ Range(p) \subseteq Range(Current)
    <3>1. p \in Seq(Nat)
      BY <1>1, PrefixFacts
    <3>2. Increasing(Current)
      BY DEF InOrder
    <3>3. Increasing(p)
      BY <1>1, <3>2, IncreasingPrefix
    <3>4. Range(p) \subseteq Range(Current)
      BY <1>1, RangePrefix
    <3> QED
      BY <3>1, <3>3, <3>4
  <2>2. store' = store \o p /\ UNCHANGED logChan /\ Current' = <<>>
    BY <1>5 DEF Save
  <2> HIDE DEF p
  <2>3. Increasing(store')
    BY <1>1, <2>1, <2>2, IncreasingConcat DEF InOrder, Before
  <2>4. Before(store', logChan')
    <3>1. Range(store \o p) = Range(store) \cup Range(p)
      BY <1>1, <2>1, RangeConcat
    <3> QED
      BY <2>1, <2>2, <3>1 DEF InOrder, Before
  <2>5. Increasing(Current') /\ Before(store', Current') /\ Before(Current', logChan')
    BY <2>2 DEF Increasing, Before, Range
  <2> QED
    BY <2>2, <2>3, <2>4, <2>5 DEF InOrder
<1> QED
  BY <1>2, <1>3, <1>4, <1>5, SinkSteps

\* No move loses or duplicates a log.
LEMMA AccountStep ==
    ASSUME TypeOK, TypeOK', CommitUnderway, Accounted, InOrder, [Next]_vars
    PROVE  Accounted'
<1>1. logChan \in Seq(Log) /\ store \in Seq(Log) /\ Current \in Seq(Log) /\ offered \in Nat /\ Log \subseteq Nat
  BY SinkTypes
<1>2. ASSUME NEW x \in Nat, x = offered + 1
      PROVE  /\ 1..x = (1..offered) \cup {x}
             /\ x \notin Range(logChan) \cup Range(Current) \cup Range(store) \cup dropped \cup lost
  <2>1. x \notin 1..offered
    BY <1>1, <1>2
  <2>2. 1..x = (1..offered) \cup {x}
    BY <1>1, <1>2
  <2> QED
    BY <2>1, <2>2 DEF Accounted
<1>3. CASE Accept
  <2> DEFINE x == offered + 1
  <2>1. x \in Nat /\ x \in Log /\ offered' = x /\ logChan' = Append(logChan, x)
    BY <1>1, <1>3, SinkAssumption DEF Accept, TypeOK, Log
  <2>2. /\ 1..x = (1..offered) \cup {x}
        /\ x \notin Range(logChan) \cup Range(Current) \cup Range(store) \cup dropped \cup lost
    BY <1>1, <1>2
  <2> HIDE DEF x
  <2>3. Range(logChan') = Range(logChan) \cup {x}
    BY <1>1, <2>1, RangeAppend
  <2> QED
    BY <1>3, <2>1, <2>2, <2>3 DEF Accounted, Accept
<1>4. CASE Drop
  <2> DEFINE x == offered + 1
  <2>1. /\ offered' = x /\ dropped' = dropped \cup {x}
        /\ 1..x = (1..offered) \cup {x}
        /\ x \notin Range(logChan) \cup Range(Current) \cup Range(store) \cup dropped \cup lost
    BY <1>1, <1>2, <1>4 DEF Drop
  <2> HIDE DEF x
  <2> QED
    BY <1>4, <2>1 DEF Accounted, Drop
<1>5. CASE Move
  <2>1. Head(logChan) \in Log /\ Range(logChan) = {Head(logChan)} \cup Range(logChan')
    BY <1>1, <1>5, RangeTail DEF Move
  <2>2. Range(Current') = Range(Current) \cup {Head(logChan)}
    BY <1>1, <1>5, <2>1, RangeAppend DEF Move
  <2> QED
    BY <1>5, <2>1, <2>2 DEF Accounted, Move
<1>6. ASSUME NEW n \in 0..Len(Current), Save(n) PROVE Accounted'
  <2> DEFINE p == SubSeq(Current, 1, n)
             rest == {Current[i] : i \in (n + 1)..Len(Current)}
  <2>1. p \in Seq(Log) /\ Range(Current) = Range(p) \cup rest
    BY <1>1, PrefixFacts, RangePrefix
  <2>2. rest \cap Range(p) = {}
    <3>1. Current \in Seq(Nat)
      BY <1>1, SeqMonotone
    <3> QED
      BY <3>1, IncreasingPrefix DEF InOrder
  <2>3. store' = store \o p /\ lost' = lost \cup rest /\ Current' = <<>>
        /\ UNCHANGED <<offered, dropped, logChan>>
    BY <1>6 DEF Save
  <2> HIDE DEF p, rest
  <2>4. Range(store') = Range(store) \cup Range(p)
    BY <1>1, <2>1, <2>3, RangeConcat
  <2>5. Range(Current') = {}
    BY <2>3 DEF Range
  <2>6. rest \cap Range(store) = {} /\ rest \cap Range(logChan) = {}
    <3>1. \A x \in Range(store) \cup Range(logChan) \cup Range(Current) : x \in Nat
      BY <1>1, RangeSeq
    <3> QED
      BY <2>1, <3>1 DEF InOrder, Before
  <2> QED
    BY <2>1, <2>2, <2>3, <2>4, <2>5, <2>6 DEF Accounted
<1>7. CASE Idle
  BY <1>7 DEF Idle, Accounted
<1> QED
  BY <1>3, <1>4, <1>5, <1>6, <1>7, SinkSteps

-----------------------------------------------------------------------------
\* The invariant behind the log sink: order and account together, since a log
\* is saved once only because the batch is in order, and in order only because
\* every number handed out is accounted for.
LEMMA SinkInvariant == Spec => [](InOrder /\ Accounted)
<1>1. Init => InOrder /\ Accounted
  BY DEF Init, InOrder, Accounted, Current, Increasing, Before, Range
<1>2. /\ TypeOK /\ TypeOK' /\ CommitUnderway /\ InOrder /\ Accounted /\ [Next]_vars
      => InOrder' /\ Accounted'
  BY OrderStep, AccountStep
<1> QED
  BY <1>1, <1>2, TypeCorrect, CommitUnderwayTheorem, PTL DEF Spec

\* Logs are stored in the order of the Append calls and never twice, however
\* full batches, commit timers and failing insertions interleave.
THEOREM InOrderTheorem == Spec => []InOrder
  BY SinkInvariant, PTL

\* No log that was handed over disappears unaccounted for.
THEOREM AccountedTheorem == Spec => []Accounted
  BY SinkInvariant, PTL

\* The collection, as writeLoop fills it, implements the abstract log table.
THEOREM ImplementsTable == Spec => TableSpec
<1>1. Init => Table!Init
  BY DEF Init, Table!Init
<1>2. TypeOK /\ TypeOK' /\ CommitUnderway /\ InOrder /\ Accounted /\ [Next]_vars
      => [Table!Next]_(Table!vars)
  <2> SUFFICES ASSUME TypeOK, TypeOK', CommitUnderway, InOrder, Accounted, [Next]_vars
               PROVE  [Table!Next]_(Table!vars)
    OBVIOUS
  <2>1. logChan \in Seq(Log) /\ store \in Seq(Log) /\ Current \in Seq(Log) /\ offered \in Nat /\ Log \subseteq Nat
    BY SinkTypes
  <2>2. CASE Accept \/ Drop
    BY <2>2 DEF Accept, Drop, Table!Next, Table!Offer
  <2>3. CASE Move \/ Idle
    BY <2>3 DEF Move, Idle, Table!vars
  <2>4. ASSUME NEW n \in 0..Len(Current), Save(n) PROVE Table!Next
    <3> DEFINE p == SubSeq(Current, 1, n)
    <3>1. p \in Seq(Log) /\ Range(p) \subseteq Range(Current) /\ Increasing(p)
      <4>1. Current \in Seq(Nat)
        BY <2>1, SeqMonotone
      <4> QED
        BY <2>1, <4>1, PrefixFacts, RangePrefix, IncreasingPrefix DEF InOrder
    <3>2. store' = store \o p /\ UNCHANGED offered
      BY <2>4 DEF Save
    <3> HIDE DEF p
    <3>3. SubSeq(store', Len(store) + 1, Len(store')) = p
      BY <2>1, <3>1, <3>2
    <3>4. \A i \in 1..Len(p) : p[i] \in Range(Current)
      BY <3>1, RangeSeq
    <3>5. \A i \in 1..Len(p) : p[i] <= offered
      BY <2>1, <3>4 DEF Accounted
    <3>6. \A k \in 1..Len(store) : store[k] \in Range(store)
      BY <2>1, RangeSeq
    <3>7. \A i \in 1..Len(p), k \in 1..Len(store) : store[k] < p[i]
      BY <3>4, <3>6 DEF InOrder, Before
    <3>8. Table!Insert(p)
      BY <3>1, <3>2, <3>5, <3>7 DEF Table!Insert, Increasing
    <3> QED
      BY <3>3, <3>8 DEF Table!Next
  <2> QED
    BY <2>2, <2>3, <2>4, SinkSteps
<1> QED
  BY <1>1, <1>2, TypeCorrect, CommitUnderwayTheorem, SinkInvariant, PTL DEF Spec, TableSpec, Table!Spec
=============================================================================
