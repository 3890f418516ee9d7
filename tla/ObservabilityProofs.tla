------------------------- MODULE ObservabilityProofs -------------------------
(***************************************************************************)
(* What holds of the observability queues for any runs and incidents, any  *)
(* callers of flush(), and any batch size, number of retries and restarts: *)
(* no queued record is forgotten, stored incidents obey their rules, and   *)
(* stored chains are broken only where default ids clash; with an          *)
(* idFactory both services implement DurableLog.                           *)
(*                                                                         *)
(* The inductive invariant has two layers.  ControlInv says who drains:    *)
(* the mutex, the scheduled flush and the batch under way agree.  DataInv  *)
(* says what is known (stored or queued) under each key: numbers without   *)
(* gaps, linked and legal, in order in the queue, the stored ones first,   *)
(* wherever no id of another key was in the way (Clash).  A write then     *)
(* stores the front of the queue but for such records (InsertIsFront), and *)
(* every step is an append, such a write, a restart or quiet (StepKinds).  *)
(***************************************************************************)
EXTENDS ObservabilityQueue, WellFoundedInduction, TLAPS

\* Only the holder of the mutex drains, and whoever waits has a holder to
\* wait for.
MutexSound ==
    /\ \A f \in Flushers : holder = f <=> pc[f] \in {"drain", "writing"}
    /\ holder = Nobody => waiters = <<>>
    /\ \A i \in 1 .. Len(waiters) : pc[waiters[i]] = "waiting"
    /\ \A i, j \in 1 .. Len(waiters) : waiters[i] = waiters[j] => i = j

\* The flag says where the scheduled flush is.  One that failed has left its
\* batch in the queue, and the error is still kept or was cleared over it.
ScheduleSound ==
    /\ scheduledFlushActive <=> pc[AutoFlush] # "idle"
    /\ pc[AutoFlush] = "failed" => queue # <<>> /\ (lastError \/ cleared)

\* The batch under way is still the front of the queue.
BatchSound ==
    \A f \in Flushers :
        /\ Len(batch[f]) <= Len(queue)
        /\ \A i \in 1 .. Len(batch[f]) : batch[f][i] = queue[i]
        /\ pc[f] = "writing" <=> batch[f] # <<>>

Known == rows \union Range(queue)

\* The rows whose id a new record may repeat: default ids name no key.
Blocking(stored) == IF hasIdFactory THEN {} ELSE stored

\* A row of another key with this number may have had the id of record n of
\* key k, so that skipDuplicates dropped the record.
Clash(blocking, k, n) == \E y \in blocking : y.key # k /\ y.sequence = n

\* The ids are what the constructor's choice makes them.
IdsSound(t, factory) ==
    \A r \in t : \/ factory /\ r.id = Hash(r)
                 \/ ~factory /\ \E c \in Times : r.id = <<c, r.sequence>>

\* The records of a key are numbered 1, 2, ... without repetitions, up to the
\* number in memory; a gap is a clash.
Numbering(t, s, blocking) ==
    /\ \A r \in t : r.sequence <= s[r.key]
    /\ \A k \in Keys : \A n \in 1 .. s[k] :
          \/ Clash(blocking, k, n)
          \/ \E r \in t : r.key = k /\ r.sequence = n
    /\ \A r, x \in t : r.key = x.key /\ r.sequence = x.sequence => r = x

\* Every record names its predecessor, and memory the last one.
Linking(t, s, h, blocking) ==
    /\ \A r \in t :
          \/ r.sequence = 1 /\ r.previousHash \in {NoHash, EmptyHash}
          \/ Clash(blocking, r.key, r.sequence - 1)
          \/ \E x \in t : /\ x.key = r.key /\ x.sequence + 1 = r.sequence
                          /\ r.previousHash = Hash(x)
    /\ \A k \in Keys :
          \/ s[k] = 0 /\ h[k] \in {NoHash, EmptyHash}
          \/ Clash(blocking, k, s[k])
          \/ \E x \in t : x.key = k /\ x.sequence = s[k] /\ h[k] = Hash(x)

\* The queue keeps the order of the numbers,
InOrder(q) ==
    \A i, j \in 1 .. Len(q) :
        i < j /\ q[i].key = q[j].key => q[i].sequence < q[j].sequence

\* and what is stored precedes what is not.
StoredFirst(stored, t, blocking) ==
    \A r \in stored, x \in t :
        r.key = x.key /\ x.sequence < r.sequence =>
            x \in stored \/ Clash(blocking, x.key, x.sequence)

\* An incident begins with OPEN, and what does not open it goes on from the
\* event before it; memory has the last state.
History(t, s, e) ==
    /\ \A r \in t : /\ r.state \in IncidentStates
                    /\ r.state # "OPEN" => r.sequence # 1
    /\ \A r, x \in t :
          r.key = x.key /\ r.sequence + 1 = x.sequence /\ x.state # "OPEN" =>
              MayFollow(r.state, x.state)
    /\ \A r \in t : r.sequence = s[r.key] => e[r.key] = r.state
    /\ \A k \in Keys : s[k] = 0 => e[k] = "none"

ControlInv ==
    TypeOK /\ MutexSound /\ ScheduleSound /\ BatchSound /\ NoRecordForgotten

DataInv ==
    /\ IdsSound(Known, hasIdFactory)
    /\ Numbering(Known, seqs, Blocking(rows))
    /\ Linking(Known, seqs, lastHashes, Blocking(rows))
    /\ InOrder(queue) /\ StoredFirst(rows, Known, Blocking(rows))
    /\ service = "incidents" => History(Known, seqs, eventsProj)

IInv == ControlInv /\ DataInv

------------------------------------------------------------------------------
(* Sequences: the front of a queue, what is behind it, and its tail.       *)

\* The first m elements.
LEMMA FrontOf ==
    ASSUME NEW S, NEW q \in Seq(S), NEW m \in 0 .. Len(q)
    PROVE  /\ SubSeq(q, 1, m) \in Seq(S) /\ Len(SubSeq(q, 1, m)) = m
           /\ \A i \in 1 .. m : SubSeq(q, 1, m)[i] = q[i]
OBVIOUS

\* What is behind them.
LEMMA BehindOf ==
    ASSUME NEW S, NEW q \in Seq(S), NEW m \in 0 .. Len(q)
    PROVE  /\ SubSeq(q, m + 1, Len(q)) \in Seq(S)
           /\ Len(SubSeq(q, m + 1, Len(q))) = Len(q) - m
           /\ \A i \in 1 .. Len(q) - m : SubSeq(q, m + 1, Len(q))[i] = q[m + i]
OBVIOUS

\* Head and tail.
LEMMA TailOf ==
    ASSUME NEW S, NEW q \in Seq(S), q # <<>>
    PROVE  /\ Head(q) = q[1] /\ q[1] \in S
           /\ Tail(q) \in Seq(S) /\ Len(Tail(q)) = Len(q) - 1
           /\ \A i \in 1 .. Len(q) - 1 : Tail(q)[i] = q[i + 1]
OBVIOUS

\* One element more.
LEMMA AppendOf ==
    ASSUME NEW S, NEW q \in Seq(S), NEW x \in S
    PROVE  /\ Append(q, x) \in Seq(S) /\ Len(Append(q, x)) = Len(q) + 1
           /\ \A i \in 1 .. Len(q) : Append(q, x)[i] = q[i]
           /\ Append(q, x)[Len(q) + 1] = x
           /\ Append(q, x) # <<>>
OBVIOUS

\* The elements of a sequence.
LEMMA RangeOf ==
    ASSUME NEW S, NEW q \in Seq(S)
    PROVE  /\ Range(q) = {q[i] : i \in 1 .. Len(q)}
           /\ Range(q) \subseteq S
BY DEF Range

------------------------------------------------------------------------------
(* The mutex                                                               *)

\* f stops draining: it goes to a place outside the critical section and the
\* first waiter, if there is one, enters it.
LEMMA ReleaseKeeps ==
    ASSUME TypeOK, MutexSound, NEW f \in Flushers, pc[f] \in {"drain", "writing"},
           NEW end \in {"idle", "done", "failed"}, Release(f, end)
    PROVE  /\ MutexSound'
           /\ holder' \in Flushers \union {Nobody} /\ waiters' \in Seq(Flushers)
           /\ pc' \in [Flushers -> {"idle", "start", "waiting", "drain", "writing",
                                    "done", "failed"}]
           /\ pc'[f] = end
           /\ \A g \in Flushers : /\ (pc'[g] = "writing") <=> (g # f /\ pc[g] = "writing")
                                  /\ g # f => (pc'[g] = "idle") <=> (pc[g] = "idle")
                                  /\ g # f => (pc'[g] = "failed") <=> (pc[g] = "failed")
<1>0. holder = f /\ f # Nobody
  BY QueueConstants DEF MutexSound
<1>1. CASE waiters = <<>>
  <2>1. holder' = Nobody /\ waiters' = <<>> /\ pc' = [pc EXCEPT ![f] = end]
    BY <1>1 DEF Release
  <2> QED
    BY <1>0, <1>1, <2>1, QueueConstants DEF MutexSound, TypeOK
<1>2. CASE waiters # <<>>
  <2> DEFINE h == Head(waiters)
  <2>1. /\ holder' = h /\ waiters' = Tail(waiters)
        /\ pc' = [pc EXCEPT ![f] = end, ![h] = "drain"]
    BY <1>2 DEF Release
  <2>2. /\ h = waiters[1] /\ h \in Flushers
        /\ Tail(waiters) \in Seq(Flushers) /\ Len(Tail(waiters)) = Len(waiters) - 1
        /\ \A i \in 1 .. Len(waiters) - 1 : Tail(waiters)[i] = waiters[i + 1]
    BY <1>2, TailOf DEF TypeOK
  <2>3. Len(waiters) \in Nat /\ Len(waiters) >= 1
    BY <1>2 DEF TypeOK
  <2>4. pc[h] = "waiting" /\ h # f
    BY <2>2, <2>3 DEF MutexSound
  <2> HIDE DEF h
  <2>5. pc'[h] = "drain" /\ pc'[f] = end
        /\ \A g \in Flushers : g # h /\ g # f => pc'[g] = pc[g]
    BY <2>1, <2>2, <2>4 DEF TypeOK
  <2>6. \A i \in 1 .. Len(waiters) - 1 :
           /\ waiters[i + 1] \in Flushers
           /\ waiters[i + 1] # h /\ pc[waiters[i + 1]] = "waiting"
    BY <2>2, <2>3 DEF MutexSound, TypeOK
  <2>7. \A i \in 1 .. Len(waiters') : pc'[waiters'[i]] = "waiting"
    <3> SUFFICES ASSUME NEW i \in 1 .. Len(waiters') PROVE pc'[waiters'[i]] = "waiting"
      OBVIOUS
    <3>1. i \in 1 .. Len(waiters) - 1 /\ waiters'[i] = waiters[i + 1]
      BY <2>1, <2>2
    <3>2. waiters[i + 1] # f
      BY <3>1, <2>6
    <3> QED BY <3>1, <3>2, <2>5, <2>6
  <2>8. \A i, j \in 1 .. Len(waiters') : waiters'[i] = waiters'[j] => i = j
    BY <2>1, <2>2, <2>3 DEF MutexSound
  <2>9. \A g \in Flushers : holder' = g <=> pc'[g] \in {"drain", "writing"}
    BY <2>1, <2>2, <2>4, <2>5, <1>0 DEF MutexSound
  <2>10. holder' # Nobody
    BY <2>1, <2>2, QueueConstants
  <2>11. MutexSound'
    BY <2>7, <2>8, <2>9, <2>10 DEF MutexSound
  <2>12. pc' \in [Flushers -> {"idle", "start", "waiting", "drain", "writing",
                              "done", "failed"}]
    BY <2>1, <2>2 DEF TypeOK
  <2> QED
    BY <2>1, <2>2, <2>4, <2>5, <2>11, <2>12, <1>0 DEF MutexSound
<1> QED BY <1>1, <1>2

\* f asks for the mutex: it holds it or waits, and the mutex is held.
LEMMA AcquireKeeps ==
    ASSUME TypeOK, MutexSound, NEW f \in Flushers, pc[f] \in {"idle", "start"}, Acquire(f)
    PROVE  /\ MutexSound'
           /\ holder' \in Flushers /\ waiters' \in Seq(Flushers)
           /\ pc' \in [Flushers -> {"idle", "start", "waiting", "drain", "writing",
                                    "done", "failed"}]
           /\ pc'[f] \in {"drain", "waiting"}
           /\ \A g \in Flushers : g # f => pc'[g] = pc[g]
<1>1. CASE ~isLocked
  <2>1. holder' = f /\ waiters' = waiters /\ pc' = [pc EXCEPT ![f] = "drain"]
    BY <1>1 DEF Acquire
  <2> QED
    BY <1>1, <2>1, QueueConstants DEF MutexSound, TypeOK, isLocked
<1>2. CASE isLocked
  <2>1. /\ holder' = holder /\ waiters' = Append(waiters, f)
        /\ pc' = [pc EXCEPT ![f] = "waiting"]
    BY <1>2 DEF Acquire
  <2>2. holder \in Flushers /\ holder # Nobody
    BY <1>2 DEF isLocked, TypeOK
  <2>3. /\ pc'[f] = "waiting" /\ \A g \in Flushers : g # f => pc'[g] = pc[g]
        /\ pc' \in [Flushers -> {"idle", "start", "waiting", "drain", "writing",
                                 "done", "failed"}]
    BY <2>1 DEF TypeOK
  <2>4. /\ waiters' \in Seq(Flushers) /\ Len(waiters') = Len(waiters) + 1
        /\ \A i \in 1 .. Len(waiters) : waiters'[i] = waiters[i]
        /\ waiters'[Len(waiters) + 1] = f
        /\ Len(waiters) \in Nat
    BY <2>1, AppendOf DEF TypeOK
  <2>5. \A i \in 1 .. Len(waiters) :
           waiters[i] \in Flushers /\ waiters[i] # f /\ pc[waiters[i]] = "waiting"
    BY SMTT(40) DEF MutexSound, TypeOK
  <2>6. \A i \in 1 .. Len(waiters') : pc'[waiters'[i]] = "waiting"
    BY <2>3, <2>4, <2>5
  <2>7. \A i, j \in 1 .. Len(waiters') : waiters'[i] = waiters'[j] => i = j
    BY <2>4, <2>5 DEF MutexSound
  <2>8. \A g \in Flushers : holder' = g <=> pc'[g] \in {"drain", "writing"}
    BY <2>1, <2>3 DEF MutexSound
  <2> QED BY <2>1, <2>2, <2>3, <2>4, <2>6, <2>7, <2>8 DEF MutexSound
<1> QED BY <1>1, <1>2

------------------------------------------------------------------------------
(* The control of the flushes                                              *)

\* The record that AppendRecord queues carries what memory says.
LEMMA NewRecordIsOne ==
    ASSUME TypeOK, NEW k \in Keys, NEW s \in IncidentStates \union {"LOG"},
           seqs[k] < MaxSequence, NEW id \in NewIds(k)
    PROVE  /\ NewRecord(k, s, id) \in Record
           /\ Hash(NewRecord(k, s, id)) \in Hashes
           /\ NewRecord(k, s, id).key = k
           /\ NewRecord(k, s, id).sequence = seqs[k] + 1
           /\ NewRecord(k, s, id).previousHash = lastHashes[k]
           /\ NewRecord(k, s, id).state = s
           /\ \/ hasIdFactory /\ NewRecord(k, s, id).id = Hash(NewRecord(k, s, id))
              \/ ~hasIdFactory /\ \E c \in Times :
                     NewRecord(k, s, id).id = <<c, NewRecord(k, s, id).sequence>>
<1>1. seqs[k] + 1 \in 1 .. MaxSequence
  BY QueueConstants DEF TypeOK
<1>2. life \in 1 .. MaxLives /\ lastHashes[k] \in Hashes \union {NoHash, EmptyHash}
  BY DEF TypeOK
<1>3. <<k, seqs[k] + 1, life>> \in Hashes
  BY <1>1, <1>2 DEF Hashes
<1>4. /\ id \in Ids
      /\ \/ hasIdFactory /\ id = <<k, seqs[k] + 1, life>>
         \/ ~hasIdFactory /\ \E c \in Times : id = <<c, seqs[k] + 1>>
  BY <1>1, <1>3 DEF NewIds, Ids
<1> QED BY <1>1, <1>2, <1>3, <1>4 DEF NewRecord, Record, Hash

\* log() and appendEvent: the record has a flush coming or an error is kept.
LEMMA AppendKeepsControl ==
    ASSUME ControlInv, NEW k \in Keys, NEW s \in IncidentStates \union {"LOG"},
           AppendRecord(k, s),
           UNCHANGED <<options, rows, mutex, batch, attempt, lastError, life>>,
           eventsProj' \in [Keys -> IncidentStates \union {"none"}]
    PROVE  ControlInv'
<1> USE DEF ControlInv, options
<1>0. PICK id \in NewIds(k) :
        /\ seqs[k] < MaxSequence
        /\ seqs' = [seqs EXCEPT ![k] = seqs[k] + 1]
        /\ lastHashes' = [lastHashes EXCEPT ![k] = Hash(NewRecord(k, s, id))]
        /\ queue' = Append(queue, NewRecord(k, s, id))
        /\ ScheduleFlush(queue', lastError)
  BY DEF AppendRecord
<1> DEFINE r == NewRecord(k, s, id)
<1>1. /\ seqs[k] < MaxSequence
      /\ seqs' = [seqs EXCEPT ![k] = seqs[k] + 1]
      /\ lastHashes' = [lastHashes EXCEPT ![k] = Hash(r)]
      /\ queue' = Append(queue, r)
      /\ ScheduleFlush(queue', lastError)
  BY <1>0
<1>2. r \in Record /\ Hash(r) \in Hashes
  BY <1>1, NewRecordIsOne
<1> HIDE DEF r
<1>3. /\ queue' \in Seq(Record) /\ queue' # <<>> /\ Len(queue') = Len(queue) + 1
      /\ \A i \in 1 .. Len(queue) : queue'[i] = queue[i]
      /\ Len(queue) \in Nat
  BY <1>1, <1>2, AppendOf DEF TypeOK
<1>4. /\ seqs' \in [Keys -> 0 .. MaxSequence]
      /\ lastHashes' \in [Keys -> Hashes \union {NoHash, EmptyHash}]
  BY <1>1, <1>2, QueueConstants DEF TypeOK
<1>5. /\ holder' = holder /\ waiters' = waiters /\ batch' = batch /\ lastError' = lastError
      /\ rows' = rows /\ service' = service /\ hasIdFactory' = hasIdFactory
      /\ attempt' = attempt /\ life' = life
  BY DEF mutex
<1>6. AutoFlush \in Flushers
  BY DEF Flushers
<1>7. CASE scheduledFlushActive \/ lastError
  <2>1. UNCHANGED <<scheduledFlushActive, pc, cleared>>
    BY <1>1, <1>7 DEF ScheduleFlush
  <2>2. TypeOK'
    BY <1>3, <1>4, <1>5, <2>1 DEF TypeOK
  <2>3. MutexSound' /\ ScheduleSound' /\ NoRecordForgotten'
    BY <1>3, <1>5, <1>7, <2>1 DEF MutexSound, ScheduleSound, NoRecordForgotten
  <2>4. BatchSound'
    BY <1>3, <1>5, <2>1 DEF BatchSound, TypeOK
  <2> QED BY <2>2, <2>3, <2>4
<1>8. CASE ~(scheduledFlushActive \/ lastError)
  <2>1. /\ scheduledFlushActive' = TRUE /\ cleared' = FALSE
        /\ pc' = [pc EXCEPT ![AutoFlush] = "start"]
    BY <1>1, <1>3, <1>8 DEF ScheduleFlush
  <2>2. pc[AutoFlush] = "idle" /\ pc'[AutoFlush] = "start"
        /\ \A g \in Flushers : g # AutoFlush => pc'[g] = pc[g]
    BY <1>6, <1>8, <2>1 DEF ScheduleSound, TypeOK
  <2>3. TypeOK'
    BY <1>3, <1>4, <1>5, <2>1 DEF TypeOK
  <2>4. \A i \in 1 .. Len(waiters) : waiters[i] \in Flushers /\ pc'[waiters[i]] = "waiting"
    BY <2>2, SMTT(40) DEF MutexSound, TypeOK
  <2>5. MutexSound'
    BY <1>5, <2>2, <2>4 DEF MutexSound
  <2>6. ScheduleSound' /\ NoRecordForgotten'
    BY <2>1, <2>2 DEF ScheduleSound, NoRecordForgotten
  <2>7. BatchSound'
    BY <1>3, <1>5, <2>2 DEF BatchSound, TypeOK
  <2> QED BY <2>3, <2>5, <2>6, <2>7
<1> QED BY <1>7, <1>8

\* flush() is called, or the scheduled one begins.
LEMMA StartKeepsControl ==
    ASSUME ControlInv, NEW f \in Flushers, StartFlush(f)
    PROVE  ControlInv'
<1> USE DEF ControlInv, options
<1>1. /\ Acquire(f) /\ pc[f] \in {"idle", "start"}
      /\ f = AutoFlush => pc[f] = "start"
      /\ UNCHANGED <<options, rows, memory, batch, attempt, flags>>
  BY QueueConstants DEF StartFlush
<1>2. /\ MutexSound'
      /\ holder' \in Flushers /\ waiters' \in Seq(Flushers)
      /\ pc' \in [Flushers -> {"idle", "start", "waiting", "drain", "writing",
                               "done", "failed"}]
      /\ pc'[f] \in {"drain", "waiting"}
      /\ \A g \in Flushers : g # f => pc'[g] = pc[g]
  BY <1>1, AcquireKeeps
<1>3. TypeOK'
  BY <1>1, <1>2 DEF TypeOK, memory, flags
<1>4. AutoFlush \in Flushers
  BY DEF Flushers
<1>5. ScheduleSound'
  BY <1>1, <1>2, <1>4 DEF ScheduleSound, memory, flags
<1>6. BatchSound'
  BY <1>1, <1>2 DEF BatchSound, memory
<1>7. NoRecordForgotten'
  BY <1>2, QueueConstants DEF NoRecordForgotten, isLocked
<1> QED BY <1>2, <1>3, <1>5, <1>6, <1>7

\* The drain loop takes a batch, or leaves when nothing is queued.
LEMMA NextBatchKeepsControl ==
    ASSUME ControlInv, NEW f \in Flushers, NextBatch(f)
    PROVE  ControlInv'
<1> USE DEF ControlInv, options
<1>1. pc[f] = "drain" /\ UNCHANGED <<options, rows, memory, attempt, flags>>
  BY DEF NextBatch
<1>2. holder = f /\ batch[f] = <<>> /\ isLocked
  BY <1>1, QueueConstants DEF MutexSound, BatchSound, isLocked
<1>3. AutoFlush \in Flushers
  BY DEF Flushers
<1>4. CASE queue # <<>>
  <2> DEFINE m == IF Len(queue) < BatchSize THEN Len(queue) ELSE BatchSize
             b == SubSeq(queue, 1, m)
  <2>1. /\ batch' = [batch EXCEPT ![f] = b] /\ pc' = [pc EXCEPT ![f] = "writing"]
        /\ UNCHANGED mutex
    BY <1>4 DEF NextBatch
  <2>2. m \in 0 .. Len(queue) /\ m >= 1 /\ Len(queue) \in Nat
    BY <1>4, QueueConstants DEF TypeOK
  <2> HIDE DEF m
  <2>3. b \in Seq(Record) /\ Len(b) = m /\ \A i \in 1 .. m : b[i] = queue[i]
    BY <2>2, FrontOf DEF TypeOK
  <2>4. b # <<>>
    BY <2>2, <2>3
  <2> HIDE DEF b
  <2>5. /\ batch'[f] = b /\ pc'[f] = "writing"
        /\ \A g \in Flushers : g # f => pc'[g] = pc[g] /\ batch'[g] = batch[g]
    BY <2>1 DEF TypeOK
  <2>6. TypeOK'
    BY <1>1, <2>1, <2>3 DEF TypeOK, memory, flags, mutex
  <2>7. \A i \in 1 .. Len(waiters) : waiters[i] \in Flushers /\ waiters[i] # f
    BY <1>1 DEF MutexSound, TypeOK
  <2>8. MutexSound'
    BY <1>2, <2>1, <2>5, <2>7 DEF MutexSound, mutex
  <2>9. ScheduleSound'
    BY <1>1, <1>3, <2>5 DEF ScheduleSound, memory, flags
  <2>10. BatchSound'
    BY <1>1, <2>2, <2>3, <2>4, <2>5 DEF BatchSound, memory
  <2>11. NoRecordForgotten'
    BY <1>2, <2>1 DEF NoRecordForgotten, mutex, isLocked
  <2> QED BY <2>6, <2>8, <2>9, <2>10, <2>11
<1>5. CASE queue = <<>>
  <2>1. Release(f, Ended(f, "done")) /\ UNCHANGED batch
    BY <1>5 DEF NextBatch
  <2> DEFINE end == Ended(f, "done")
  <2>2. /\ end \in {"idle", "done", "failed"}
        /\ f = AutoFlush => end = "done"
    BY DEF Ended
  <2> HIDE DEF end
  <2>3. /\ MutexSound'
        /\ holder' \in Flushers \union {Nobody} /\ waiters' \in Seq(Flushers)
        /\ pc' \in [Flushers -> {"idle", "start", "waiting", "drain", "writing",
                                 "done", "failed"}]
        /\ pc'[f] = end
        /\ \A g \in Flushers : /\ (pc'[g] = "writing") <=> (g # f /\ pc[g] = "writing")
                               /\ g # f => (pc'[g] = "idle") <=> (pc[g] = "idle")
                               /\ g # f => (pc'[g] = "failed") <=> (pc[g] = "failed")
    BY <1>1, <2>1, <2>2, ReleaseKeeps DEF end
  <2>4. TypeOK'
    BY <1>1, <2>1, <2>3 DEF TypeOK, memory, flags
  <2>5. /\ (pc'[AutoFlush] = "idle") <=> (pc[AutoFlush] = "idle")
        /\ (pc'[AutoFlush] = "failed") <=> (pc[AutoFlush] = "failed")
    BY <1>1, <1>3, <2>2, <2>3
  <2>6. ScheduleSound' /\ BatchSound'
    <3>1. ScheduleSound'
      BY <1>1, <2>5 DEF ScheduleSound, memory, flags
    <3>2. \A g \in Flushers : (pc'[g] = "writing") <=> (pc[g] = "writing")
      BY <1>1, <2>3
    <3>3. BatchSound'
      BY <1>1, <2>1, <3>2 DEF BatchSound, memory
    <3> QED BY <3>1, <3>3
  <2>7. NoRecordForgotten'
    BY <1>1, <1>5 DEF NoRecordForgotten, memory
  <2> QED BY <2>3, <2>4, <2>6, <2>7
<1> QED BY <1>4, <1>5

\* createMany stores records of the batch and takes none away.
LEMMA InsertIsRecords ==
    ASSUME TypeOK, NEW f \in Flushers
    PROVE  Insert(batch[f]) \subseteq Record
<1>1. batch[f] \in Seq(Record)
  BY DEF TypeOK
<1>2. \A i \in DOMAIN batch[f] : batch[f][i] \in Record
  BY <1>1
<1> QED BY <1>2 DEF Insert, TypeOK

\* The batch leaves the queue and the flush stays in its loop. The scheduled
\* flush is not between its failure and its finally block (MicrotasksDone).
LEMMA WriteSucceedsKeepsControl ==
    ASSUME ControlInv, NEW f \in Flushers, WriteSucceeds(f)
    PROVE  ControlInv'
<1> USE DEF ControlInv, options
<1>1. /\ pc[f] = "writing" /\ MicrotasksDone
      /\ rows' = Insert(batch[f])
      /\ queue' = SubSeq(queue, Len(batch[f]) + 1, Len(queue))
      /\ lastError' = FALSE
      /\ pc' = [pc EXCEPT ![f] = "drain"]
      /\ batch' = [batch EXCEPT ![f] = <<>>]
      /\ attempt' = [attempt EXCEPT ![f] = 0]
      /\ cleared' = (cleared /\ queue' # <<>>)
      /\ UNCHANGED <<options, seqs, lastHashes, eventsProj, life, mutex,
                     scheduledFlushActive>>
  BY DEF WriteSucceeds
<1>2. holder = f /\ f # Nobody /\ holder' = holder /\ waiters' = waiters
  BY <1>1, QueueConstants DEF MutexSound, mutex
<1>3. AutoFlush \in Flushers /\ pc[AutoFlush] # "failed"
  BY <1>1 DEF Flushers, MicrotasksDone
<1>4. /\ pc'[f] = "drain" /\ batch'[f] = <<>>
      /\ \A g \in Flushers : g # f => pc'[g] = pc[g] /\ batch'[g] = batch[g]
  BY <1>1 DEF TypeOK
<1>5. \A g \in Flushers : g # f => pc[g] # "writing" /\ batch[g] = <<>>
  BY <1>2 DEF MutexSound, BatchSound
<1>6. queue' \in Seq(Record)
  <2>1. Len(batch[f]) \in 0 .. Len(queue)
    BY DEF BatchSound, TypeOK
  <2> QED BY <1>1, <2>1, BehindOf DEF TypeOK
<1>7. TypeOK'
  <2>1. rows' \subseteq Record
    BY <1>1, InsertIsRecords
  <2>2. cleared' \in BOOLEAN
    BY <1>1
  <2>3. <<>> \in Seq(Record) /\ 0 \in 0 .. MaxRetries
    BY QueueConstants
  <2>4. /\ batch' \in [Flushers -> Seq(Record)] /\ attempt' \in [Flushers -> 0 .. MaxRetries]
        /\ pc' \in [Flushers -> {"idle", "start", "waiting", "drain", "writing",
                                 "done", "failed"}]
    BY <1>1, <2>3 DEF TypeOK
  <2> QED BY <1>1, <1>2, <1>6, <2>1, <2>2, <2>4 DEF TypeOK
<1>8. \A i \in 1 .. Len(waiters) : waiters[i] \in Flushers /\ waiters[i] # f
  BY <1>1 DEF MutexSound, TypeOK
<1>9. MutexSound'
  BY <1>2, <1>4, <1>8 DEF MutexSound
<1>10. ScheduleSound'
  BY <1>1, <1>3, <1>4 DEF ScheduleSound
<1>11. BatchSound'
  <2>1. \A g \in Flushers : batch'[g] = <<>> /\ pc'[g] # "writing"
    BY <1>4, <1>5
  <2>2. Len(queue') \in Nat
    BY <1>6
  <2> QED BY <2>1, <2>2 DEF BatchSound
<1>12. NoRecordForgotten'
  BY <1>2 DEF NoRecordForgotten, isLocked
<1> QED BY <1>7, <1>9, <1>10, <1>11, <1>12

\* A failed write is tried again, or the error is kept over the queue.
LEMMA WriteFailsKeepsControl ==
    ASSUME ControlInv, NEW f \in Flushers, NEW lands \in BOOLEAN, WriteFails(f, lands)
    PROVE  ControlInv'
<1> USE DEF ControlInv, options
<1>1. /\ pc[f] = "writing" /\ MicrotasksDone
      /\ rows' = IF lands THEN Insert(batch[f]) ELSE rows
      /\ UNCHANGED <<options, memory, scheduledFlushActive, cleared>>
  BY DEF WriteFails
<1>2. rows' \subseteq Record
  BY <1>1, InsertIsRecords DEF TypeOK
<1>3. holder = f /\ f # Nobody
  BY <1>1, QueueConstants DEF MutexSound
<1>4. AutoFlush \in Flushers
  BY DEF Flushers
<1>5. CASE /\ attempt[f] < MaxRetries
           /\ attempt' = [attempt EXCEPT ![f] = @ + 1]
           /\ UNCHANGED <<mutex, pc, batch, lastError>>
  <2>1. attempt' \in [Flushers -> 0 .. MaxRetries]
    BY <1>5, QueueConstants DEF TypeOK
  <2>2. TypeOK'
    BY <1>1, <1>2, <1>5, <2>1 DEF TypeOK, memory, mutex
  <2>3. MutexSound' /\ ScheduleSound' /\ BatchSound'
    BY <1>1, <1>5 DEF MutexSound, ScheduleSound, BatchSound, memory, mutex
  <2>4. NoRecordForgotten'
    BY <1>3, <1>5 DEF NoRecordForgotten, isLocked, mutex
  <2> QED BY <2>2, <2>3, <2>4
<1>6. CASE /\ lastError' = TRUE
           /\ attempt' = [attempt EXCEPT ![f] = 0]
           /\ batch' = [batch EXCEPT ![f] = <<>>]
           /\ Release(f, Ended(f, "failed"))
  <2> DEFINE end == Ended(f, "failed")
  <2>1. /\ end \in {"idle", "done", "failed"}
        /\ f = AutoFlush => end = "failed"
    BY DEF Ended
  <2>2. Release(f, end)
    BY <1>6
  <2> HIDE DEF end
  <2>3. /\ MutexSound'
        /\ holder' \in Flushers \union {Nobody} /\ waiters' \in Seq(Flushers)
        /\ pc' \in [Flushers -> {"idle", "start", "waiting", "drain", "writing",
                                 "done", "failed"}]
        /\ pc'[f] = end
        /\ \A g \in Flushers : /\ (pc'[g] = "writing") <=> (g # f /\ pc[g] = "writing")
                               /\ g # f => (pc'[g] = "idle") <=> (pc[g] = "idle")
    BY <1>1, <2>1, <2>2, ReleaseKeeps
  <2>4. /\ batch'[f] = <<>>
        /\ \A g \in Flushers : g # f => batch'[g] = batch[g]
    BY <1>6 DEF TypeOK
  <2>5. TypeOK'
    <3>1. <<>> \in Seq(Record) /\ 0 \in 0 .. MaxRetries
      BY QueueConstants
    <3>2. batch' \in [Flushers -> Seq(Record)] /\ attempt' \in [Flushers -> 0 .. MaxRetries]
      BY <1>6, <3>1 DEF TypeOK
    <3> QED BY <1>1, <1>2, <1>6, <2>3, <3>2 DEF TypeOK, memory
  <2>6. queue' = queue /\ queue # <<>>
    <3>1. batch[f] # <<>> /\ batch[f] \in Seq(Record) /\ Len(batch[f]) <= Len(queue)
      BY <1>1 DEF BatchSound, TypeOK
    <3>2. Len(batch[f]) > 0
      BY <3>1
    <3> QED BY <1>1, <3>1, <3>2 DEF memory, TypeOK
  <2>7. (pc'[AutoFlush] = "idle") <=> (pc[AutoFlush] = "idle")
    BY <1>1, <1>4, <2>1, <2>3
  <2>8. ScheduleSound' /\ NoRecordForgotten'
    BY <1>1, <1>6, <2>6, <2>7 DEF ScheduleSound, NoRecordForgotten
  <2>9. BatchSound'
    <3> SUFFICES ASSUME NEW g \in Flushers
                 PROVE  /\ Len(batch'[g]) <= Len(queue')
                        /\ \A i \in 1 .. Len(batch'[g]) : batch'[g][i] = queue'[i]
                        /\ pc'[g] = "writing" <=> batch'[g] # <<>>
      BY DEF BatchSound
    <3>1. CASE g = f
      BY <3>1, <2>1, <2>3, <2>4, <2>6 DEF TypeOK
    <3>2. CASE g # f
      BY <3>2, <2>3, <2>4, <2>6 DEF BatchSound
    <3> QED BY <3>1, <3>2
  <2> QED BY <2>3, <2>5, <2>8, <2>9
<1> QED BY <1>5, <1>6 DEF WriteFails

\* The finally block of scheduleFlush.
LEMMA FinishKeepsControl ==
    ASSUME ControlInv, AutoFinishes
    PROVE  ControlInv'
<1> USE DEF ControlInv, options
<1>1. /\ pc[AutoFlush] \in {"done", "failed"}
      /\ UNCHANGED <<options, rows, memory, mutex, batch, attempt, lastError>>
  BY DEF AutoFinishes
<1>2. PICK to \in {"start", "idle"} : pc' = [pc EXCEPT ![AutoFlush] = to]
  BY DEF AutoFinishes
<1>3. AutoFlush \in Flushers
  BY DEF Flushers
<1>4. /\ pc'[AutoFlush] = to
      /\ \A g \in Flushers : g # AutoFlush => pc'[g] = pc[g]
  BY <1>2, <1>3 DEF TypeOK
<1>5. /\ cleared' \in BOOLEAN /\ scheduledFlushActive' \in BOOLEAN
      /\ pc' \in [Flushers -> {"idle", "start", "waiting", "drain", "writing",
                               "done", "failed"}]
  BY <1>2 DEF AutoFinishes, TypeOK
<1>6. TypeOK'
  BY <1>1, <1>5 DEF TypeOK, memory, mutex
<1>7. \A i \in 1 .. Len(waiters) : waiters[i] \in Flushers /\ waiters[i] # AutoFlush
  BY <1>1, SMTT(40) DEF MutexSound, TypeOK
<1>8. MutexSound'
  BY <1>1, <1>3, <1>4, <1>7 DEF MutexSound, mutex
<1>9. BatchSound'
  BY <1>1, <1>3, <1>4 DEF BatchSound, memory
<1>10. ScheduleSound' /\ NoRecordForgotten'
  <2>1. CASE pc[AutoFlush] = "done" /\ queue # <<>> /\ ~isLocked /\ ~lastError
    <3>1. /\ pc' = [pc EXCEPT ![AutoFlush] = "start"]
          /\ scheduledFlushActive' = scheduledFlushActive
      BY <2>1 DEF AutoFinishes
    <3>2. scheduledFlushActive /\ pc'[AutoFlush] = "start"
      BY <1>1, <1>3, <3>1 DEF ScheduleSound, TypeOK
    <3> QED BY <3>1, <3>2 DEF ScheduleSound, NoRecordForgotten
  <2>2. CASE ~(pc[AutoFlush] = "done" /\ queue # <<>> /\ ~isLocked /\ ~lastError)
    <3>1. /\ pc' = [pc EXCEPT ![AutoFlush] = "idle"]
          /\ scheduledFlushActive' = FALSE /\ cleared' = cleared
      BY <2>2 DEF AutoFinishes
    <3>2. pc'[AutoFlush] = "idle"
      BY <1>3, <3>1 DEF TypeOK
    <3>3. queue # <<>> => isLocked \/ lastError \/ cleared
      BY <1>1, <2>2 DEF ScheduleSound
    <3> QED
      BY <1>1, <3>1, <3>2, <3>3
      DEF ScheduleSound, NoRecordForgotten, memory, mutex, isLocked
  <2> QED BY <2>1, <2>2
<1> QED BY <1>6, <1>8, <1>9, <1>10

\* clearLastError: the queue is left without a flush, and cleared says so.
LEMMA ClearKeepsControl ==
    ASSUME ControlInv, ClearLastError
    PROVE  ControlInv'
<1> USE DEF ControlInv, options
<1>1. /\ lastError' = FALSE /\ cleared' = (queue # <<>>)
      /\ UNCHANGED <<options, rows, memory, mutex, flush, scheduledFlushActive>>
  BY DEF ClearLastError
<1>2. cleared' \in BOOLEAN
  BY <1>1
<1>3. TypeOK'
  BY <1>1, <1>2 DEF TypeOK, memory, mutex, flush
<1>4. MutexSound' /\ BatchSound'
  BY <1>1 DEF MutexSound, BatchSound, memory, mutex, flush
<1>5. ScheduleSound' /\ NoRecordForgotten'
  BY <1>1 DEF ScheduleSound, NoRecordForgotten, memory, flush
<1> QED BY <1>3, <1>4, <1>5

------------------------------------------------------------------------------
(* The records                                                             *)

\* Bounded numbers have a largest one.
LEMMA LargestExists ==
    ASSUME NEW N \in Nat, NEW S, S \subseteq 0 .. N, S # {}
    PROVE  \E m \in S : \A x \in S : x <= m
<1> DEFINE Less == {ij \in Nat \X Nat : ij[1] < ij[2]}
           D == {N - x : x \in S}
<1>1. IsWellFoundedOn(Less, Nat)
  BY NatLessThanWellFounded, Zenon DEF OpToRel
<1>2. D \subseteq Nat /\ D # {}
  <2>1. \A x \in S : N - x \in Nat
    OBVIOUS
  <2> QED BY <2>1
<1>3. \A y, z \in Nat : y < z => <<y, z>> \in Less
  OBVIOUS
<1> HIDE DEF Less
<1>4. PICK d \in D : \A e \in D : ~(<<e, d>> \in Less)
  BY <1>1, <1>2, WFMin
<1>5. PICK m \in S : d = N - m
  OBVIOUS
<1>6. ASSUME NEW x \in S PROVE x <= m
  <2>1. N - x \in D /\ N - x \in Nat /\ d \in Nat
    BY <1>2
  <2>2. ~(N - x < d)
    BY <1>3, <1>4, <2>1
  <2> QED BY <1>5, <2>2
<1> QED BY <1>6

\* Numbers have a smallest one.
LEMMA SmallestExists ==
    ASSUME NEW S, S \subseteq Nat, S # {}
    PROVE  \E m \in S : \A x \in S : m <= x
<1> DEFINE Less == {ij \in Nat \X Nat : ij[1] < ij[2]}
<1>1. IsWellFoundedOn(Less, Nat)
  BY NatLessThanWellFounded, Zenon DEF OpToRel
<1>2. \A y, z \in Nat : y < z => <<y, z>> \in Less
  OBVIOUS
<1> HIDE DEF Less
<1>3. PICK m \in S : \A x \in S : ~(<<x, m>> \in Less)
  BY <1>1, WFMin
<1>4. ASSUME NEW x \in S PROVE m <= x
  <2>1. x \in Nat /\ m \in Nat
    OBVIOUS
  <2>2. ~(x < m)
    BY <1>2, <1>3, <2>1
  <2> QED BY <2>1, <2>2
<1> QED BY <1>4

\* findFirst finds the row with the highest number.
LEMMA LatestRowIsLatest ==
    ASSUME NEW t, t \subseteq Record, NEW k, RowsOf(t, k) # {}
    PROVE  /\ LatestRow(t, k) \in t /\ LatestRow(t, k).key = k
           /\ \A x \in t : x.key = k => x.sequence <= LatestRow(t, k).sequence
<1> DEFINE S == {r.sequence : r \in RowsOf(t, k)}
<1>1. \A r \in Record : r.sequence \in 1 .. MaxSequence
  BY DEF Record
<1>2. S \subseteq 0 .. MaxSequence /\ S # {}
  BY <1>1, QueueConstants DEF RowsOf
<1>3. PICK m \in S : \A x \in S : x <= m
  BY <1>2, LargestExists, QueueConstants
<1>4. PICK r \in RowsOf(t, k) : m = r.sequence
  OBVIOUS
<1>5. \A x \in RowsOf(t, k) : x.sequence <= r.sequence
  BY <1>3, <1>4
<1>6. /\ LatestRow(t, k) \in RowsOf(t, k)
      /\ \A x \in RowsOf(t, k) : x.sequence <= LatestRow(t, k).sequence
  BY <1>5 DEF LatestRow
<1> QED BY <1>6 DEF RowsOf

\* Two known records with one id are one record, or clash.
LEMMA SameId ==
    ASSUME TypeOK, DataInv, NEW r \in Known, NEW y \in Known, r.id = y.id
    PROVE  \/ r = y
           \/ ~hasIdFactory /\ y.key # r.key /\ y.sequence = r.sequence
<1>1. r = y \/ y.key # r.key \/ y.sequence # r.sequence
  BY DEF DataInv, Numbering
<1>2. CASE hasIdFactory
  <2>1. r.id = Hash(r) /\ y.id = Hash(y)
    BY <1>2 DEF DataInv, IdsSound
  <2>2. <<r.key, r.sequence, r.life>> = <<y.key, y.sequence, y.life>>
    BY <2>1 DEF Hash
  <2>3. r.key = y.key /\ r.sequence = y.sequence
    BY <2>2, Zenon
  <2> QED BY <1>1, <2>3
<1>3. CASE ~hasIdFactory
  <2>1. PICK c : r.id = <<c, r.sequence>>
    BY <1>3 DEF DataInv, IdsSound
  <2>2. PICK d : y.id = <<d, y.sequence>>
    BY <1>3 DEF DataInv, IdsSound
  <2>3. <<c, r.sequence>> = <<d, y.sequence>>
    BY <2>1, <2>2
  <2>4. r.sequence = y.sequence
    BY <2>3, Zenon
  <2> QED BY <1>1, <1>3, <2>4
<1> QED BY <1>2, <1>3

\* t is the table with the first m queued records added, but for those whose
\* id a row of another key has.
StoresFront(m, t) ==
    /\ rows \subseteq t
    /\ t \subseteq rows \union {queue[i] : i \in 1 .. m}
    /\ \A i \in 1 .. m :
          queue[i] \in t \/ Clash(Blocking(t), queue[i].key, queue[i].sequence)

\* createMany does that with the batch.
LEMMA InsertIsFront ==
    ASSUME TypeOK, BatchSound, DataInv, NEW f \in Flushers
    PROVE  /\ Len(batch[f]) \in 0 .. Len(queue)
           /\ StoresFront(Len(batch[f]), Insert(batch[f]))
<1> DEFINE b == batch[f]
           t == Insert(b)
           New(i) == /\ \A x \in rows : x.id # b[i].id
                     /\ \A j \in 1 .. i - 1 : b[j].id # b[i].id
<1>1. b \in Seq(Record) /\ queue \in Seq(Record)
  BY DEF TypeOK
<1>2. /\ Len(b) <= Len(queue) /\ \A i \in 1 .. Len(b) : b[i] = queue[i]
      /\ Len(b) \in Nat /\ Len(queue) \in Nat /\ DOMAIN b = 1 .. Len(b)
  BY <1>1 DEF BatchSound
<1>3. t = rows \union {b[i] : i \in {i \in 1 .. Len(b) : New(i)}}
  BY <1>2 DEF Insert
<1>4. rows \subseteq t /\ t \subseteq rows \union {queue[i] : i \in 1 .. Len(b)}
  BY <1>2, <1>3
<1>5. \A i \in 1 .. Len(b) : b[i] \in Known
  <2>1. Range(queue) = {queue[i] : i \in 1 .. Len(queue)}
    BY <1>1, RangeOf
  <2>2. \A i \in 1 .. Len(b) : i \in 1 .. Len(queue)
    BY <1>2
  <2> QED BY <1>2, <2>1, <2>2 DEF Known
<1>6. t \subseteq Known
  BY <1>3, <1>5 DEF Known
<1>7. ASSUME NEW i \in 1 .. Len(b)
      PROVE  b[i] \in t \/ Clash(Blocking(t), b[i].key, b[i].sequence)
  <2> DEFINE S == {j \in 1 .. Len(b) : b[j].id = b[i].id}
  <2>1. S \subseteq Nat /\ S # {}
    BY <1>2
  <2>2. PICK j \in S : \A l \in S : j <= l
    BY <2>1, SmallestExists
  <2>3. \A l \in 1 .. j - 1 : b[l].id # b[j].id
    BY <1>2, <2>2
  <2>4. PICK y \in t : y.id = b[i].id
    <3>1. CASE New(j)
      BY <1>3, <2>2, <3>1
    <3>2. CASE ~New(j)
      BY <1>4, <2>2, <2>3, <3>2
    <3> QED BY <3>1, <3>2
  <2> HIDE DEF t, b
  <2>5. \/ b[i] = y
        \/ ~hasIdFactory /\ y.key # b[i].key /\ y.sequence = b[i].sequence
    BY <1>5, <1>6, <2>4, SameId
  <2> QED BY <2>4, <2>5 DEF Clash, Blocking
<1> HIDE DEF t
<1>8. StoresFront(Len(b), t)
  BY <1>2, <1>4, <1>7 DEF StoresFront
<1> QED BY <1>2, <1>8 DEF t

\* With the front of the queue stored, what is known and its order are the
\* same but for clashes, whether or not the front has left the queue.
LEMMA FrontIsStoredFirst ==
    ASSUME TypeOK, DataInv, NEW m \in 0 .. Len(queue), NEW t, StoresFront(m, t),
           NEW q \in {queue, SubSeq(queue, m + 1, Len(queue))}
    PROVE  /\ t \subseteq Known
           /\ t \union Range(q) \subseteq Known
           /\ \A r \in Known : \/ r \in t \union Range(q)
                               \/ Clash(Blocking(t), r.key, r.sequence)
           /\ \A k, n : Clash(Blocking(rows), k, n) => Clash(Blocking(t), k, n)
           /\ StoredFirst(t, Known, Blocking(t))
           /\ InOrder(q)
<1>1. queue \in Seq(Record) /\ Len(queue) \in Nat /\ m \in Nat /\ m <= Len(queue)
  BY DEF TypeOK
<1>2. /\ q \in Seq(Record)
      /\ \/ q = queue
         \/ /\ Len(q) = Len(queue) - m
            /\ \A i \in 1 .. Len(queue) - m : q[i] = queue[m + i]
  BY <1>1, BehindOf
<1>3. /\ Range(queue) = {queue[i] : i \in 1 .. Len(queue)}
      /\ Range(q) = {q[i] : i \in 1 .. Len(q)}
  BY <1>1, <1>2, RangeOf
<1>4. t \subseteq Known
  <2>1. \A i \in 1 .. m : queue[i] \in Range(queue)
    BY <1>1, <1>3
  <2> QED BY <2>1 DEF Known, StoresFront
<1>5. Range(q) \subseteq Range(queue)
  BY <1>1, <1>2, <1>3
<1>6. \A x \in Range(queue) : x \in {queue[i] : i \in 1 .. m} \/ x \in Range(q)
  <2>1. CASE q = queue
    BY <2>1
  <2>2. CASE /\ Len(q) = Len(queue) - m
             /\ \A i \in 1 .. Len(queue) - m : q[i] = queue[m + i]
    <3> SUFFICES ASSUME NEW i \in 1 .. Len(queue), i > m
                 PROVE  queue[i] \in Range(q)
      BY <1>1, <1>3
    <3>1. i - m \in 1 .. Len(queue) - m /\ q[i - m] = queue[i]
      BY <1>1, <2>2
    <3> QED BY <1>3, <2>2, <3>1
  <2> QED BY <1>2, <2>1, <2>2
<1>7. \A r \in Known : \/ r \in t \union Range(q)
                      \/ Clash(Blocking(t), r.key, r.sequence)
  BY <1>6 DEF Known, StoresFront
<1>8. \A k, n : Clash(Blocking(rows), k, n) => Clash(Blocking(t), k, n)
  BY DEF Clash, Blocking, StoresFront
<1>9. InOrder(q)
  <2>1. CASE q = queue
    BY <2>1 DEF DataInv
  <2>2. CASE /\ Len(q) = Len(queue) - m
             /\ \A i \in 1 .. Len(queue) - m : q[i] = queue[m + i]
    <3> SUFFICES ASSUME NEW i \in 1 .. Len(q), NEW j \in 1 .. Len(q), i < j,
                        q[i].key = q[j].key
                 PROVE  q[i].sequence < q[j].sequence
      BY DEF InOrder
    <3>1. /\ m + i \in 1 .. Len(queue) /\ m + j \in 1 .. Len(queue) /\ m + i < m + j
          /\ q[i] = queue[m + i] /\ q[j] = queue[m + j]
      BY <1>1, <2>2
    <3> QED BY <3>1 DEF DataInv, InOrder
  <2> QED BY <1>2, <2>1, <2>2
<1>10. StoredFirst(t, Known, Blocking(t))
  <2> SUFFICES ASSUME NEW r \in t, NEW x \in Known, r.key = x.key,
                      x.sequence < r.sequence, x \notin rows
               PROVE  x \in t \/ Clash(Blocking(t), x.key, x.sequence)
    BY DEF StoredFirst, StoresFront
  <2>1. CASE r \in rows
    BY <1>8, <2>1 DEF DataInv, StoredFirst
  <2>2. CASE r \notin rows
    <3>1. PICK i \in 1 .. m : r = queue[i]
      BY <2>2 DEF StoresFront
    <3>2. PICK j \in 1 .. Len(queue) : x = queue[j]
      BY <1>3 DEF Known
    <3>3. queue[i].sequence \in Int /\ queue[j].sequence \in Int
      <4>1. i \in 1 .. Len(queue)
        BY <1>1, <3>1
      <4>2. queue[i] \in Record /\ queue[j] \in Record
        BY <1>1, <3>2, <4>1
      <4> QED BY <4>2 DEF Record
    <3>4. ~(i < j) /\ i # j
      BY <1>1, <3>1, <3>2, <3>3 DEF DataInv, InOrder
    <3>5. j \in 1 .. m
      BY <1>1, <3>1, <3>2, <3>4
    <3> QED BY <3>2, <3>5 DEF StoresFront
  <2> QED BY <2>1, <2>2
<1> QED BY <1>4, <1>5, <1>7, <1>8, <1>9, <1>10 DEF Known

\* Stored and queued values are records.
LEMMA KnownIsRecords ==
    ASSUME TypeOK
    PROVE  /\ Known \subseteq Record
           /\ \A r \in Known : /\ r.key \in Keys /\ r.sequence \in 1 .. MaxSequence
                               /\ Hash(r) \in Hashes
<1>1. Range(queue) \subseteq Record
  BY RangeOf DEF TypeOK
<1>2. Known \subseteq Record
  BY <1>1 DEF Known, TypeOK
<1>3. \A r \in Record : /\ r.key \in Keys /\ r.sequence \in 1 .. MaxSequence
                        /\ Hash(r) \in Hashes
  BY DEF Record, Hash, Hashes
<1> QED BY <1>2, <1>3

\* Nothing known changes.
LEMMA QuietKeepsData ==
    ASSUME DataInv, UNCHANGED <<options, rows, queue, seqs, lastHashes, eventsProj>>
    PROVE  DataInv' /\ Known' = Known
<1>1. Known' = Known /\ Blocking(rows)' = Blocking(rows)
  BY DEF Known, Blocking, options
<1> QED BY <1>1 DEF DataInv, options

\* Records that are no longer known because of a clash leave the rest numbered
\* and linked.
LEMMA ThinnedStaysLinked ==
    ASSUME NEW all, all \subseteq Record, NEW t, t \subseteq all, NEW s, NEW h,
           NEW old, NEW new, \A k, n : Clash(old, k, n) => Clash(new, k, n),
           \A r \in all : r \in t \/ Clash(new, r.key, r.sequence),
           Numbering(all, s, old), Linking(all, s, h, old)
    PROVE  Numbering(t, s, new) /\ Linking(t, s, h, new)
<1>1. \A r \in all : r.sequence \in Int
  BY DEF Record
<1>2. Numbering(t, s, new)
  BY DEF Numbering
<1>3. ASSUME NEW r \in t
      PROVE  \/ r.sequence = 1 /\ r.previousHash \in {NoHash, EmptyHash}
             \/ Clash(new, r.key, r.sequence - 1)
             \/ \E x \in t : /\ x.key = r.key /\ x.sequence + 1 = r.sequence
                             /\ r.previousHash = Hash(x)
  <2>1. CASE \E x \in all : /\ x.key = r.key /\ x.sequence + 1 = r.sequence
                            /\ r.previousHash = Hash(x)
    <3>1. PICK x \in all : /\ x.key = r.key /\ x.sequence + 1 = r.sequence
                           /\ r.previousHash = Hash(x)
      BY <2>1
    <3>2. x.sequence = r.sequence - 1
      BY <1>1, <3>1
    <3> QED BY <3>1, <3>2
  <2> QED BY <2>1 DEF Linking
<1>4. ASSUME NEW k \in Keys
      PROVE  \/ s[k] = 0 /\ h[k] \in {NoHash, EmptyHash}
             \/ Clash(new, k, s[k])
             \/ \E x \in t : x.key = k /\ x.sequence = s[k] /\ h[k] = Hash(x)
  BY DEF Linking
<1> QED BY <1>2, <1>3, <1>4 DEF Linking

\* A write, with the batch still in the queue or not.
LEMMA WriteKeepsData ==
    ASSUME TypeOK, DataInv, NEW m \in 0 .. Len(queue), StoresFront(m, rows'),
           queue' \in {queue, SubSeq(queue, m + 1, Len(queue))},
           UNCHANGED <<options, seqs, lastHashes, eventsProj>>
    PROVE  DataInv' /\ (hasIdFactory => Known' = Known)
<1>1. PICK t : t = rows'
  OBVIOUS
<1>2. PICK q : q = queue'
  OBVIOUS
<1>3. /\ t \union Range(q) \subseteq Known
      /\ \A r \in Known : \/ r \in t \union Range(q)
                          \/ Clash(Blocking(t), r.key, r.sequence)
      /\ \A k, n : Clash(Blocking(rows), k, n) => Clash(Blocking(t), k, n)
      /\ StoredFirst(t, Known, Blocking(t))
      /\ InOrder(q)
  BY <1>1, <1>2, FrontIsStoredFirst
<1>4. PICK all : all = Known
  OBVIOUS
<1>5. PICK kept : kept = Known'
  OBVIOUS
<1>6. PICK new : new = Blocking(t)
  OBVIOUS
<1>7. PICK old : old = Blocking(rows)
  OBVIOUS
<1>8. kept = t \union Range(q)
  BY <1>1, <1>2, <1>5 DEF Known
<1>9. Blocking(rows)' = new
  BY <1>1, <1>6 DEF Blocking, options
<1>10. /\ kept \subseteq all /\ all \subseteq Record
       /\ \A r \in all : r \in kept \/ Clash(new, r.key, r.sequence)
       /\ \A k, n : Clash(old, k, n) => Clash(new, k, n)
  BY <1>3, <1>4, <1>6, <1>7, <1>8, KnownIsRecords
<1>11. /\ Numbering(all, seqs, old) /\ Linking(all, seqs, lastHashes, old)
       /\ IdsSound(all, hasIdFactory)
       /\ service = "incidents" => History(all, seqs, eventsProj)
  BY <1>4, <1>7 DEF DataInv
<1>12. Numbering(kept, seqs, new) /\ Linking(kept, seqs, lastHashes, new)
  BY <1>10, <1>11, ThinnedStaysLinked
<1>13. IdsSound(kept, hasIdFactory)
  BY <1>10, <1>11 DEF IdsSound
<1>14. service = "incidents" => History(kept, seqs, eventsProj)
  BY <1>10, <1>11 DEF History
<1>15. StoredFirst(t, kept, new)
  BY <1>3, <1>4, <1>6, <1>10 DEF StoredFirst
<1>16. DataInv'
  BY <1>1, <1>2, <1>3, <1>5, <1>9, <1>12, <1>13, <1>14, <1>15 DEF DataInv, options
<1>17. hasIdFactory => Known' = Known
  <2>1. hasIdFactory => new = {}
    BY <1>6 DEF Blocking
  <2> QED BY <1>4, <1>5, <1>10, <2>1 DEF Clash
<1> QED BY <1>16, <1>17

\* A new record: its number is the next one, and what transitionIncident
\* compared its state with is the state of the record before it.
LEMMA AppendKeepsData ==
    ASSUME TypeOK, DataInv, NEW k \in Keys, NEW s \in IncidentStates \union {"LOG"},
           AppendRecord(k, s), UNCHANGED <<options, rows>>,
           service = "incidents" =>
               /\ eventsProj' = [eventsProj EXCEPT ![k] = s] /\ s \in IncidentStates
               /\ s # "OPEN" => eventsProj[k] # "none" /\ MayFollow(eventsProj[k], s)
    PROVE  /\ DataInv'
           /\ \E r \in Record : /\ Hash(r) \in Hashes /\ r.key = k
                               /\ r.sequence = seqs[k] + 1
                               /\ r.previousHash = lastHashes[k]
                               /\ Known' = Known \union {r}
<1>0. PICK id \in NewIds(k) :
        /\ seqs[k] < MaxSequence
        /\ seqs' = [seqs EXCEPT ![k] = seqs[k] + 1]
        /\ lastHashes' = [lastHashes EXCEPT ![k] = Hash(NewRecord(k, s, id))]
        /\ queue' = Append(queue, NewRecord(k, s, id))
  BY DEF AppendRecord
<1> DEFINE r == NewRecord(k, s, id)
<1>1. /\ seqs' = [seqs EXCEPT ![k] = seqs[k] + 1]
      /\ lastHashes' = [lastHashes EXCEPT ![k] = Hash(r)]
      /\ queue' = Append(queue, r)
  BY <1>0
<1>2. /\ r \in Record /\ Hash(r) \in Hashes
      /\ r.key = k /\ r.sequence = seqs[k] + 1
      /\ r.previousHash = lastHashes[k] /\ r.state = s
      /\ \/ hasIdFactory /\ r.id = Hash(r)
         \/ ~hasIdFactory /\ \E c \in Times : r.id = <<c, r.sequence>>
  BY <1>0, NewRecordIsOne, SMTT(40)
<1> HIDE DEF r
<1>b. PICK c : c = Blocking(rows)
  OBVIOUS
<1>c. /\ Blocking(rows)' = c /\ hasIdFactory' = hasIdFactory /\ service' = service
      /\ rows' = rows
  BY <1>b DEF Blocking, options
<1>d. /\ Numbering(Known, seqs, c) /\ Linking(Known, seqs, lastHashes, c)
      /\ InOrder(queue) /\ StoredFirst(rows, Known, c) /\ IdsSound(Known, hasIdFactory)
  BY <1>b DEF DataInv
<1>3. /\ queue' \in Seq(Record) /\ Len(queue') = Len(queue) + 1
      /\ \A i \in 1 .. Len(queue) : queue'[i] = queue[i]
      /\ queue'[Len(queue) + 1] = r
      /\ Len(queue) \in Nat
  BY <1>1, <1>2, AppendOf DEF TypeOK
<1>4. Range(queue') = Range(queue) \union {r}
  <2>0. queue \in Seq(Record)
    BY DEF TypeOK
  <2>1. Range(queue) = {queue[i] : i \in 1 .. Len(queue)}
    BY <2>0, RangeOf
  <2>2. Range(queue') = {queue'[i] : i \in 1 .. Len(queue')}
    BY <1>3, RangeOf
  <2> QED BY <1>3, <2>1, <2>2
<1>5. Known' = Known \union {r}
  BY <1>4, <1>c DEF Known
<1>6. /\ seqs'[k] = seqs[k] + 1 /\ \A j \in Keys : j # k => seqs'[j] = seqs[j]
      /\ lastHashes'[k] = Hash(r) /\ \A j \in Keys : j # k => lastHashes'[j] = lastHashes[j]
      /\ \A j \in Keys : seqs[j] \in Nat
  BY <1>1, QueueConstants DEF TypeOK
<1>7. \A x \in Known : x.key \in Keys /\ x.sequence \in Nat /\ x.sequence >= 1
  BY KnownIsRecords, QueueConstants
<1>8. \A x \in Known : x.sequence <= seqs[x.key] /\ (x.key = k => x.sequence < r.sequence)
  BY <1>2, <1>6, <1>7, <1>d DEF Numbering
<1>9. Numbering(Known', seqs', c)
  <2>1. \A x \in Known' : x.sequence <= seqs'[x.key]
    BY <1>2, <1>5, <1>6, <1>7, <1>8
  <2>2. ASSUME NEW j \in Keys, NEW n \in 1 .. seqs'[j]
        PROVE  Clash(c, j, n) \/ \E x \in Known' : x.key = j /\ x.sequence = n
    <3>1. CASE n \in 1 .. seqs[j]
      BY <1>5, <1>d, <3>1 DEF Numbering
    <3>2. CASE n \notin 1 .. seqs[j]
      <4>1. j = k /\ n = seqs[k] + 1
        BY <1>6, <3>2
      <4> QED BY <1>2, <1>5, <4>1
    <3> QED BY <3>1, <3>2
  <2>3. \A x, y \in Known' : x.key = y.key /\ x.sequence = y.sequence => x = y
    <3>1. \A x, y \in Known : x.key = y.key /\ x.sequence = y.sequence => x = y
      BY <1>d DEF Numbering
    <3> QED BY <1>2, <1>5, <1>6, <1>7, <1>8, <3>1
  <2> QED BY <2>1, <2>2, <2>3 DEF Numbering
<1>10. Linking(Known', seqs', lastHashes', c)
  <2>1. ASSUME NEW y \in Known'
        PROVE  \/ y.sequence = 1 /\ y.previousHash \in {NoHash, EmptyHash}
               \/ Clash(c, y.key, y.sequence - 1)
               \/ \E x \in Known' : /\ x.key = y.key /\ x.sequence + 1 = y.sequence
                                    /\ y.previousHash = Hash(x)
    <3>1. CASE y \in Known
      BY <1>5, <1>d, <3>1 DEF Linking
    <3>2. CASE y = r
      <4>0. CASE Clash(c, k, seqs[k])
        <5>1. y.key = k /\ y.sequence - 1 = seqs[k]
          BY <1>2, <1>6, <3>2
        <5> QED BY <4>0, <5>1
      <4>1. CASE seqs[k] = 0 /\ lastHashes[k] \in {NoHash, EmptyHash}
        BY <1>2, <3>2, <4>1
      <4>2. CASE \E x \in Known : x.key = k /\ x.sequence = seqs[k] /\ lastHashes[k] = Hash(x)
        <5>1. PICK x \in Known : x.key = k /\ x.sequence = seqs[k] /\ lastHashes[k] = Hash(x)
          BY <4>2
        <5>2. x \in Known' /\ x.key = y.key /\ x.sequence + 1 = y.sequence
              /\ y.previousHash = Hash(x)
          BY <1>2, <1>5, <3>2, <5>1
        <5> QED BY <5>2
      <4> QED BY <1>d, <4>0, <4>1, <4>2 DEF Linking
    <3> QED BY <1>5, <3>1, <3>2
  <2>2. ASSUME NEW j \in Keys
        PROVE  \/ seqs'[j] = 0 /\ lastHashes'[j] \in {NoHash, EmptyHash}
               \/ Clash(c, j, seqs'[j])
               \/ \E x \in Known' : /\ x.key = j /\ x.sequence = seqs'[j]
                                    /\ lastHashes'[j] = Hash(x)
    <3>1. CASE j = k
      BY <1>2, <1>5, <1>6, <3>1
    <3>2. CASE j # k
      BY <1>5, <1>6, <1>d, <3>2 DEF Linking
    <3> QED BY <3>1, <3>2
  <2> QED BY <2>1, <2>2 DEF Linking
<1>11. InOrder(queue')
  <2> SUFFICES ASSUME NEW i \in 1 .. Len(queue'), NEW j \in 1 .. Len(queue'), i < j,
                      queue'[i].key = queue'[j].key
               PROVE  queue'[i].sequence < queue'[j].sequence
    BY DEF InOrder
  <2>1. i \in 1 .. Len(queue) /\ queue'[i] = queue[i]
    BY <1>3
  <2>2. CASE j \in 1 .. Len(queue)
    BY <1>3, <1>d, <2>1, <2>2 DEF InOrder
  <2>3. CASE j = Len(queue) + 1
    <3>1. queue[i] \in Known
      BY <2>1, RangeOf DEF Known, TypeOK
    <3> QED BY <1>2, <1>3, <1>8, <2>1, <2>3, <3>1
  <2> QED BY <1>3, <2>2, <2>3
<1>12. StoredFirst(rows, Known', c)
  <2> SUFFICES ASSUME NEW y \in rows, NEW x \in Known', y.key = x.key,
                      x.sequence < y.sequence
               PROVE  x \in rows \/ Clash(c, x.key, x.sequence)
    BY DEF StoredFirst
  <2>1. y \in Known
    BY DEF Known
  <2>2. x \in Known
    BY <1>2, <1>5, <1>6, <1>7, <1>8, <2>1
  <2> QED BY <1>d, <2>2 DEF StoredFirst
<1>13. service = "incidents" => History(Known', seqs', eventsProj')
  <2> SUFFICES ASSUME service = "incidents" PROVE History(Known', seqs', eventsProj')
    OBVIOUS
  <2>1. History(Known, seqs, eventsProj)
    BY DEF DataInv
  <2>2. /\ eventsProj'[k] = s /\ \A j \in Keys : j # k => eventsProj'[j] = eventsProj[j]
        /\ s \in IncidentStates
        /\ s # "OPEN" => eventsProj[k] # "none" /\ MayFollow(eventsProj[k], s)
    BY DEF TypeOK
  <2>3. /\ r.state \in IncidentStates
        /\ r.state # "OPEN" => r.sequence # 1
    BY <1>2, <1>6, <2>1, <2>2 DEF History
  <2>4. \A y \in Known' : /\ y.state \in IncidentStates
                          /\ y.state # "OPEN" => y.sequence # 1
    BY <1>5, <2>1, <2>3 DEF History
  <2>5. ASSUME NEW x \in Known', NEW y \in Known', x.key = y.key,
               x.sequence + 1 = y.sequence, y.state # "OPEN"
        PROVE  MayFollow(x.state, y.state)
    <3>1. x \in Known
      BY <1>2, <1>5, <1>6, <1>7, <1>8, <2>5
    <3>2. CASE y \in Known
      BY <2>1, <2>5, <3>1, <3>2 DEF History
    <3>3. CASE y = r
      <4>1. x.key = k /\ x.sequence = seqs[k]
        BY <1>2, <1>6, <1>7, <2>5, <3>1, <3>3
      <4>2. eventsProj[k] = x.state
        BY <2>1, <3>1, <4>1 DEF History
      <4> QED BY <1>2, <2>2, <2>5, <3>3, <4>2
    <3> QED BY <1>5, <3>2, <3>3
  <2>6. ASSUME NEW x \in Known', x.sequence = seqs'[x.key]
        PROVE  eventsProj'[x.key] = x.state
    <3>1. CASE x.key = k
      <4>1. x = r
        BY <1>2, <1>5, <1>6, <1>7, <1>8, <2>6, <3>1
      <4> QED BY <1>2, <2>2, <4>1
    <3>2. CASE x.key # k
      <4>1. x \in Known /\ x.key \in Keys
        BY <1>2, <1>5, <1>7, <3>2
      <4> QED BY <1>6, <2>1, <2>2, <2>6, <3>2, <4>1 DEF History
    <3> QED BY <3>1, <3>2
  <2>7. \A j \in Keys : seqs'[j] = 0 => eventsProj'[j] = "none"
    BY <1>6, <2>1, <2>2 DEF History
  <2> QED BY <2>4, <2>5, <2>6, <2>7 DEF History
<1>14. IdsSound(Known', hasIdFactory)
  BY <1>2, <1>5, <1>d DEF IdsSound
<1>15. DataInv'
  BY <1>9, <1>10, <1>11, <1>12, <1>13, <1>14, <1>c DEF DataInv
<1> QED BY <1>2, <1>5, <1>15

\* A write under way when the process dies has stored the front of the queue
\* or nothing.
LEMMA RestartStoresFront ==
    ASSUME IInv, NEW lands \in BOOLEAN, Restart(lands)
    PROVE  \E m \in 0 .. Len(queue) : StoresFront(m, rows')
<1> USE DEF IInv, ControlInv
<1>1. rows' = IF lands /\ isLocked THEN Insert(batch[holder]) ELSE rows
  BY DEF Restart
<1>2. CASE lands /\ isLocked
  <2>1. holder \in Flushers
    BY <1>2 DEF isLocked, TypeOK
  <2>2. /\ Len(batch[holder]) \in 0 .. Len(queue)
        /\ StoresFront(Len(batch[holder]), Insert(batch[holder]))
    BY <2>1, InsertIsFront
  <2> QED BY <1>1, <1>2, <2>2
<1>3. CASE ~(lands /\ isLocked)
  <2>1. 0 \in 0 .. Len(queue) /\ StoresFront(0, rows)
    BY DEF TypeOK, StoresFront
  <2> QED BY <1>1, <1>3, <2>1
<1> QED BY <1>2, <1>3

\* What initialize() makes of a table, key by key.
Remembers(t, k, s, h, e) ==
    \/ /\ \A x \in t : x.key # k
       /\ s = 0 /\ h \in {NoHash, EmptyHash} /\ e = "none"
    \/ \E x \in t : /\ x.key = k /\ \A y \in t : y.key = k => y.sequence <= x.sequence
                    /\ s = x.sequence /\ h = Hash(x)
                    /\ e = x.state \/ e = "none"
                    /\ service = "incidents" => e = x.state

\* Both initialize() methods do.
LEMMA InitializeRemembers ==
    ASSUME NEW t, t \subseteq Record,
           \/ service = "logger" /\ LoggerInitialize(t)
           \/ service = "incidents" /\ IncidentInitialize(t),
           NEW k \in Keys
    PROVE  Remembers(t, k, seqs'[k], lastHashes'[k], eventsProj'[k])
<1>1. CASE RowsOf(t, k) = {}
  <2>1. \A x \in t : x.key # k
    BY <1>1 DEF RowsOf
  <2>2. seqs'[k] = 0 /\ lastHashes'[k] \in {NoHash, EmptyHash} /\ eventsProj'[k] = "none"
    BY <1>1 DEF LoggerInitialize, IncidentInitialize
  <2> QED BY <2>1, <2>2 DEF Remembers
<1>2. CASE RowsOf(t, k) # {}
  <2> DEFINE x == LatestRow(t, k)
  <2>1. /\ x \in t /\ x.key = k
        /\ \A y \in t : y.key = k => y.sequence <= x.sequence
    BY <1>2, LatestRowIsLatest
  <2>2. /\ seqs'[k] = x.sequence /\ lastHashes'[k] = Hash(x)
        /\ eventsProj'[k] = x.state \/ eventsProj'[k] = "none"
        /\ service = "incidents" => eventsProj'[k] = x.state
    BY <1>2 DEF LoggerInitialize, IncidentInitialize
  <2> HIDE DEF x
  <2> QED BY <2>1, <2>2 DEF Remembers
<1> QED BY <1>1, <1>2

\* The new process goes on where the table ends.
LEMMA RestartKeeps ==
    ASSUME IInv, NEW lands \in BOOLEAN, Restart(lands)
    PROVE  IInv'
<1> USE DEF IInv, ControlInv, options
<1>1. PICK m \in 0 .. Len(queue) : StoresFront(m, rows')
  BY RestartStoresFront
<1>2. PICK t : t = rows'
  OBVIOUS
<1>a. PICK c : c = Blocking(t)
  OBVIOUS
<1>b. PICK old : old = Blocking(rows)
  OBVIOUS
<1>3. /\ t \subseteq Known /\ StoredFirst(t, Known, c)
      /\ \A k, n : Clash(old, k, n) => Clash(c, k, n)
  BY <1>1, <1>2, <1>a, <1>b, FrontIsStoredFirst
<1>c. /\ Numbering(Known, seqs, old) /\ Linking(Known, seqs, lastHashes, old)
      /\ IdsSound(Known, hasIdFactory)
  BY <1>b DEF DataInv
<1>4. /\ \A r \in Known : /\ r.key \in Keys /\ r.sequence \in 1 .. MaxSequence
                          /\ Hash(r) \in Hashes
      /\ t \subseteq Record
  BY <1>3, KnownIsRecords
<1>5. \/ service = "logger" /\ LoggerInitialize(t)
      \/ service = "incidents" /\ IncidentInitialize(t)
  BY <1>2 DEF Restart
<1>6. \A k \in Keys : Remembers(t, k, seqs'[k], lastHashes'[k], eventsProj'[k])
  BY <1>4, <1>5, InitializeRemembers
<1>7. /\ life < MaxLives /\ life' = life + 1 /\ queue' = <<>>
      /\ service' = service /\ hasIdFactory' = hasIdFactory
      /\ scheduledFlushActive' = FALSE /\ lastError' = FALSE /\ cleared' = FALSE
      /\ holder' = Nobody /\ waiters' = <<>>
      /\ pc' = [f \in Flushers |-> "idle"]
      /\ batch' = [f \in Flushers |-> <<>>]
      /\ attempt' = [f \in Flushers |-> 0]
  BY DEF Restart, options
<1>8. Known' = t
  <2>1. Range(queue') = {}
    BY <1>7 DEF Range
  <2> QED BY <1>2, <2>1 DEF Known
<1>9. service = "incidents" => History(Known, seqs, eventsProj)
  BY DEF DataInv
<1>10. TypeOK'
  <2>1. /\ \A k \in Keys : /\ seqs'[k] \in 0 .. MaxSequence
                           /\ lastHashes'[k] \in Hashes \union {NoHash, EmptyHash}
    BY <1>3, <1>4, <1>6, QueueConstants DEF Remembers
  <2>2. \A k \in Keys : eventsProj'[k] \in IncidentStates \union {"none"}
    <3> SUFFICES ASSUME NEW k \in Keys
                 PROVE  eventsProj'[k] \in IncidentStates \union {"none"}
      OBVIOUS
    <3>1. CASE service = "logger"
      BY <1>5, <3>1 DEF LoggerInitialize
    <3>2. CASE service = "incidents"
      BY <1>3, <1>6, <1>9, <3>2 DEF Remembers, History
    <3> QED BY <1>5, <3>1, <3>2
  <2>3. /\ seqs' = [k \in Keys |-> seqs'[k]]
        /\ lastHashes' = [k \in Keys |-> lastHashes'[k]]
        /\ eventsProj' = [k \in Keys |-> eventsProj'[k]]
    BY <1>5 DEF LoggerInitialize, IncidentInitialize
  <2>4. /\ seqs' \in [Keys -> 0 .. MaxSequence]
        /\ lastHashes' \in [Keys -> Hashes \union {NoHash, EmptyHash}]
        /\ eventsProj' \in [Keys -> IncidentStates \union {"none"}]
    BY <2>1, <2>2, <2>3
  <2>5. life' \in 1 .. MaxLives
    BY <1>7, QueueConstants DEF TypeOK
  <2>6. /\ <<>> \in Seq(Record) /\ <<>> \in Seq(Flushers) /\ 0 \in 0 .. MaxRetries
    BY QueueConstants
  <2> QED BY <1>2, <1>4, <1>7, <2>4, <2>5, <2>6 DEF TypeOK
<1>11. MutexSound' /\ ScheduleSound' /\ BatchSound' /\ NoRecordForgotten'
  <2>1. AutoFlush \in Flushers
    BY DEF Flushers
  <2> QED
    BY <1>7, <2>1, QueueConstants
    DEF MutexSound, ScheduleSound, BatchSound, NoRecordForgotten
<1>12. \A r \in Known : r.sequence <= seqs[r.key]
  BY <1>c DEF Numbering
<1>13. \A k \in Keys : seqs[k] \in Nat
  BY QueueConstants DEF TypeOK
<1>14. Numbering(t, seqs', c)
  <2>1. ASSUME NEW r \in t PROVE r.sequence <= seqs'[r.key]
    BY <1>3, <1>4, <1>6 DEF Remembers
  <2>2. ASSUME NEW k \in Keys, NEW n \in 1 .. seqs'[k]
        PROVE  Clash(c, k, n) \/ \E r \in t : r.key = k /\ r.sequence = n
    <3>1. PICK x \in t : x.key = k /\ seqs'[k] = x.sequence
      BY <1>6, <2>2 DEF Remembers
    <3>2. n \in 1 .. seqs[k]
      BY <1>3, <1>4, <1>12, <1>13, <3>1
    <3> SUFFICES ASSUME ~Clash(c, k, n)
                 PROVE  \E r \in t : r.key = k /\ r.sequence = n
      OBVIOUS
    <3>3. PICK r \in Known : r.key = k /\ r.sequence = n
      BY <1>3, <1>c, <3>2 DEF Numbering
    <3>4. CASE n = x.sequence
      BY <3>1, <3>4
    <3>5. CASE n # x.sequence
      <4>1. r.sequence < x.sequence
        BY <1>3, <1>4, <3>1, <3>3, <3>5
      <4>2. r \in t
        BY <1>3, <3>1, <3>3, <4>1 DEF StoredFirst
      <4> QED BY <3>3, <4>2
    <3> QED BY <3>4, <3>5
  <2>3. \A r, x \in t : r.key = x.key /\ r.sequence = x.sequence => r = x
    BY <1>3, <1>c DEF Numbering
  <2> QED BY <2>1, <2>2, <2>3 DEF Numbering
<1>15. Linking(t, seqs', lastHashes', c)
  <2>1. ASSUME NEW r \in t
        PROVE  \/ r.sequence = 1 /\ r.previousHash \in {NoHash, EmptyHash}
               \/ Clash(c, r.key, r.sequence - 1)
               \/ \E x \in t : /\ x.key = r.key /\ x.sequence + 1 = r.sequence
                               /\ r.previousHash = Hash(x)
    <3>1. CASE r.sequence = 1 /\ r.previousHash \in {NoHash, EmptyHash}
      BY <3>1
    <3>2. CASE \E x \in Known : /\ x.key = r.key /\ x.sequence + 1 = r.sequence
                                /\ r.previousHash = Hash(x)
      <4>1. PICK x \in Known : /\ x.key = r.key /\ x.sequence + 1 = r.sequence
                               /\ r.previousHash = Hash(x)
        BY <3>2
      <4>2. x.sequence < r.sequence /\ x.sequence = r.sequence - 1
        BY <1>3, <1>4, <4>1
      <4>3. x \in t \/ Clash(c, r.key, r.sequence - 1)
        BY <1>3, <4>1, <4>2 DEF StoredFirst
      <4> QED BY <4>1, <4>3
    <3> QED BY <1>3, <1>c, <3>1, <3>2 DEF Linking
  <2>2. \A k \in Keys :
           \/ seqs'[k] = 0 /\ lastHashes'[k] \in {NoHash, EmptyHash}
           \/ \E x \in t : x.key = k /\ x.sequence = seqs'[k] /\ lastHashes'[k] = Hash(x)
    BY <1>6 DEF Remembers
  <2> QED BY <2>1, <2>2 DEF Linking
<1>16. service = "incidents" => History(t, seqs', eventsProj')
  <2> SUFFICES ASSUME service = "incidents" PROVE History(t, seqs', eventsProj')
    OBVIOUS
  <2>1. History(Known, seqs, eventsProj)
    BY <1>9
  <2>2. /\ \A r \in t : /\ r.state \in IncidentStates
                        /\ r.state # "OPEN" => r.sequence # 1
        /\ \A r, x \in t :
              r.key = x.key /\ r.sequence + 1 = x.sequence /\ x.state # "OPEN"
                  => MayFollow(r.state, x.state)
    BY <1>3, <2>1 DEF History
  <2>3. ASSUME NEW r \in t, r.sequence = seqs'[r.key]
        PROVE  eventsProj'[r.key] = r.state
    <3>1. PICK x \in t : /\ x.key = r.key /\ seqs'[r.key] = x.sequence
                         /\ eventsProj'[r.key] = x.state
      BY <1>3, <1>4, <1>6 DEF Remembers
    <3>2. r = x
      BY <2>3, <3>1, <1>14 DEF Numbering
    <3> QED BY <3>1, <3>2
  <2>4. ASSUME NEW k \in Keys, seqs'[k] = 0 PROVE eventsProj'[k] = "none"
    BY <1>3, <1>4, <1>6, <2>4 DEF Remembers
  <2> QED BY <2>2, <2>3, <2>4 DEF History
<1>17. InOrder(queue')
  BY <1>7 DEF InOrder
<1>18. StoredFirst(t, t, c) /\ IdsSound(t, hasIdFactory)
  BY <1>3, <1>c DEF StoredFirst, IdsSound
<1>19. Blocking(rows)' = c
  BY <1>2, <1>7, <1>a DEF Blocking
<1>20. DataInv'
  BY <1>2, <1>7, <1>8, <1>14, <1>15, <1>16, <1>17, <1>18, <1>19 DEF DataInv
<1> QED BY <1>10, <1>11, <1>20

------------------------------------------------------------------------------
(* The inductive invariant                                                 *)

\* A fresh process over an empty table.
LEMMA InitHolds ==
    ASSUME Init
    PROVE  IInv
<1>1. AutoFlush \in Flushers
  BY DEF Flushers
<1>2. TypeOK
  <2>1. /\ <<>> \in Seq(Record) /\ <<>> \in Seq(Flushers) /\ 0 \in 0 .. MaxRetries
        /\ 0 \in 0 .. MaxSequence /\ 1 \in 1 .. MaxLives
    BY QueueConstants
  <2>2. lastHashes \in [Keys -> Hashes \union {NoHash, EmptyHash}]
    BY DEF Init
  <2> QED BY <2>1, <2>2 DEF Init, TypeOK
<1>3. MutexSound /\ ScheduleSound /\ BatchSound /\ NoRecordForgotten
  BY <1>1, QueueConstants
  DEF Init, MutexSound, ScheduleSound, BatchSound, NoRecordForgotten
<1>4. Known = {}
  BY DEF Init, Known, Range
<1>5. \A k \in Keys : /\ seqs[k] = 0 /\ lastHashes[k] \in {NoHash, EmptyHash}
                      /\ eventsProj[k] = "none"
  BY DEF Init
<1>6. /\ Numbering(Known, seqs, Blocking(rows))
      /\ Linking(Known, seqs, lastHashes, Blocking(rows))
  BY <1>4, <1>5 DEF Numbering, Linking
<1>7. /\ InOrder(queue) /\ StoredFirst(rows, Known, Blocking(rows))
      /\ IdsSound(Known, hasIdFactory) /\ History(Known, seqs, eventsProj)
  BY <1>4, <1>5 DEF InOrder, StoredFirst, IdsSound, History, Init
<1> QED BY <1>2, <1>3, <1>6, <1>7 DEF IInv, ControlInv, DataInv

\* An accepted record of either service.
Appends(k, s) ==
    /\ AppendRecord(k, s)
    /\ UNCHANGED <<options, rows, mutex, batch, attempt, lastError, life>>
    /\ eventsProj' \in [Keys -> IncidentStates \union {"none"}]
    /\ service = "incidents" =>
           /\ eventsProj' = [eventsProj EXCEPT ![k] = s] /\ s \in IncidentStates
           /\ s # "OPEN" => eventsProj[k] # "none" /\ MayFollow(eventsProj[k], s)

\* An accepted record keeps both layers.
LEMMA AppendsKeeps ==
    ASSUME IInv, NEW k \in Keys, NEW s \in IncidentStates \union {"LOG"}, Appends(k, s)
    PROVE  IInv'
<1>1. ControlInv'
  BY AppendKeepsControl DEF IInv, Appends
<1>2. DataInv'
  BY AppendKeepsData DEF IInv, ControlInv, Appends
<1> QED BY <1>1, <1>2 DEF IInv

\* Every step appends a record, writes the front of the queue, restarts, or
\* leaves table and memory alone.
Quiet == UNCHANGED <<options, rows, queue, seqs, lastHashes, eventsProj>>
Writes ==
    \E m \in 0 .. Len(queue) :
        /\ StoresFront(m, rows')
        /\ queue' \in {queue, SubSeq(queue, m + 1, Len(queue))}
        /\ UNCHANGED <<options, seqs, lastHashes, eventsProj>>
Turns == Quiet \/ Writes

\* Without clashes neither a write nor a quiet step changes what is known.
LEMMA TurnsKeepData ==
    ASSUME IInv, Turns
    PROVE  DataInv' /\ (hasIdFactory => Known' = Known)
<1>1. CASE Quiet
  BY <1>1, QuietKeepsData DEF IInv, Quiet
<1>2. CASE Writes
  BY <1>2, WriteKeepsData DEF IInv, ControlInv, Writes
<1> QED BY <1>1, <1>2 DEF Turns

\* The steps of a flush that holds the mutex.
LEMMA FlushTurns ==
    ASSUME IInv, NEW f \in Flushers, Flush(f)
    PROVE  ControlInv' /\ Turns
<1> USE DEF IInv
<1>1. CASE NextBatch(f)
  BY <1>1, NextBatchKeepsControl DEF NextBatch, memory, Turns, Quiet
<1>2. /\ Len(batch[f]) \in 0 .. Len(queue)
      /\ StoresFront(Len(batch[f]), Insert(batch[f]))
  BY InsertIsFront DEF ControlInv
<1>3. CASE WriteSucceeds(f)
  <2>1. ControlInv'
    BY <1>3, WriteSucceedsKeepsControl
  <2>2. Writes
    BY <1>2, <1>3 DEF WriteSucceeds, Writes
  <2> QED BY <2>1, <2>2 DEF Turns
<1>4. ASSUME NEW lands \in BOOLEAN, WriteFails(f, lands)
      PROVE  ControlInv' /\ Turns
  <2>1. ControlInv'
    BY <1>4, WriteFailsKeepsControl
  <2>2. CASE lands
    <3>1. Writes
      BY <1>2, <1>4, <2>2 DEF WriteFails, Writes, memory
    <3> QED BY <2>1, <3>1 DEF Turns
  <2>3. CASE ~lands
    BY <1>4, <2>1, <2>3 DEF WriteFails, Turns, Quiet, memory
  <2> QED BY <2>2, <2>3
<1> QED BY <1>1, <1>3, <1>4 DEF Flush

\* The start of a flush.
LEMMA StartTurns ==
    ASSUME IInv, NEW f \in Flushers, StartFlush(f)
    PROVE  ControlInv' /\ Turns
BY StartKeepsControl DEF IInv, StartFlush, memory, Turns, Quiet

\* The end of the scheduled flush.
LEMMA FinishTurns ==
    ASSUME IInv, AutoFinishes
    PROVE  ControlInv' /\ Turns
BY FinishKeepsControl DEF IInv, AutoFinishes, memory, Turns, Quiet

\* clearLastError.
LEMMA ClearTurns ==
    ASSUME IInv, ClearLastError
    PROVE  ControlInv' /\ Turns
BY ClearKeepsControl DEF IInv, ClearLastError, memory, Turns, Quiet

\* There are no other kinds of steps.
LEMMA StepKinds ==
    ASSUME IInv, Next
    PROVE  \/ \E k \in Keys, s \in IncidentStates \union {"LOG"} : Appends(k, s)
           \/ ControlInv' /\ Turns
           \/ \E lands \in BOOLEAN : Restart(lands)
<1> USE DEF IInv, ControlInv, options
<1>1. ASSUME NEW k \in Keys, LoggerLog(k) PROVE Appends(k, "LOG")
  <2>1. service # "incidents"
    BY <1>1 DEF LoggerLog
  <2>2. eventsProj' \in [Keys -> IncidentStates \union {"none"}]
    BY <1>1 DEF LoggerLog, TypeOK
  <2> QED BY <1>1, <2>1, <2>2 DEF LoggerLog, Appends
<1>2. ASSUME NEW k \in Keys, NEW s \in IncidentStates, IncidentAppendEvent(k, s),
             s # "OPEN" => eventsProj[k] # "none" /\ MayFollow(eventsProj[k], s)
      PROVE  Appends(k, s)
  <2>1. eventsProj' \in [Keys -> IncidentStates \union {"none"}]
    BY <1>2 DEF IncidentAppendEvent, TypeOK
  <2> QED BY <1>2, <2>1 DEF IncidentAppendEvent, Appends
<1>3. ASSUME NEW k \in Keys, OpenIncident(k) PROVE Appends(k, "OPEN")
  BY <1>2, <1>3 DEF OpenIncident, IncidentStates
<1>4. ASSUME NEW k \in Keys, NEW s \in {"MITIGATED", "RESOLVED"}, TransitionIncident(k, s)
      PROVE  Appends(k, s)
  BY <1>2, <1>4 DEF TransitionIncident, IncidentStates
<1>5. AutoFlush \in Flushers /\ Callers \subseteq Flushers
  BY DEF Flushers
<1>6. ASSUME Scheduled PROVE ControlInv' /\ Turns
  BY <1>5, <1>6, StartTurns, FinishTurns DEF Scheduled
<1>7. CASE \E k \in Keys : LoggerLog(k) \/ OpenIncident(k)
  BY <1>1, <1>3, <1>7 DEF IncidentStates
<1>8. CASE \E k \in Keys, s \in {"MITIGATED", "RESOLVED"} : TransitionIncident(k, s)
  BY <1>4, <1>8 DEF IncidentStates
<1>9. CASE LoggerScheduleFlush \/ IncidentScheduleFlush
  BY <1>6, <1>9 DEF LoggerScheduleFlush, IncidentScheduleFlush
<1>10. CASE \E f \in Flushers : LoggerFlush(f) \/ IncidentFlush(f)
  BY <1>10, FlushTurns DEF LoggerFlush, IncidentFlush
<1>11. CASE \E f \in Callers : StartFlush(f)
  BY <1>5, <1>11, StartTurns
<1>12. CASE ClearLastError
  BY <1>12, ClearTurns
<1>13. CASE \E lands \in BOOLEAN : Restart(lands)
  BY <1>13
<1> QED BY <1>7, <1>8, <1>9, <1>10, <1>11, <1>12, <1>13 DEF Next

\* The invariant is inductive.
LEMMA NextKeeps ==
    ASSUME IInv, [Next]_vars
    PROVE  IInv'
<1>1. CASE UNCHANGED vars
  <2>1. UNCHANGED <<options, rows, queue, seqs, lastHashes, eventsProj,
                    scheduledFlushActive, lastError, holder, waiters, pc, batch,
                    attempt, life, cleared>>
    BY <1>1 DEF vars, memory, mutex, flush, flags
  <2>2. DataInv'
    BY <2>1, QuietKeepsData DEF IInv
  <2>3. ControlInv'
    BY <2>1 DEF IInv, ControlInv, TypeOK, MutexSound, ScheduleSound, BatchSound,
                NoRecordForgotten, isLocked, options
  <2> QED BY <2>2, <2>3 DEF IInv
<1>2. CASE Next
  <2>1. CASE \E k \in Keys, s \in IncidentStates \union {"LOG"} : Appends(k, s)
    BY <2>1, AppendsKeeps
  <2>2. CASE ControlInv' /\ Turns
    BY <2>2, TurnsKeepData DEF IInv
  <2>3. CASE \E lands \in BOOLEAN : Restart(lands)
    BY <2>3, RestartKeeps
  <2> QED BY <1>2, <2>1, <2>2, <2>3, StepKinds
<1> QED BY <1>1, <1>2

\* It holds of every behaviour.
LEMMA Invariance == Spec => []IInv
BY InitHolds, NextKeeps, PTL DEF Spec

------------------------------------------------------------------------------
(* What follows                                                            *)

\* Queue, mutex and memory keep their types for any number of keys, callers,
\* retries and restarts.
THEOREM QueueTypeCorrect == Spec => []TypeOK
<1>1. IInv => TypeOK
  BY DEF IInv, ControlInv
<1> QED BY <1>1, Invariance, PTL

\* No wakeup is lost: whenever a record is queued, a flush is scheduled or
\* holds the mutex, or an error is kept, or one was cleared over the queue.
THEOREM NoWakeupIsLost == Spec => []NoRecordForgotten
<1>1. IInv => NoRecordForgotten
  BY DEF IInv, ControlInv
<1> QED BY <1>1, Invariance, PTL

\* Whatever ids the records have, the stored events of an incident obey
\* transitionIncident across flushes, failed and repeated writes, incident
\* ids used again and restarts that lose what was queued.
THEOREM StoredHistoriesAreLegal == Spec => []StoredTransitionsAreLegal
<1>1. ASSUME IInv PROVE StoredTransitionsAreLegal
  <2> SUFFICES ASSUME service = "incidents", NEW x \in rows, x.state # "OPEN"
               PROVE  /\ x.sequence # 1
                      /\ \A r \in rows :
                            (r.key = x.key /\ r.sequence + 1 = x.sequence) =>
                                r.state # "RESOLVED" /\ r.state # x.state
    BY DEF StoredTransitionsAreLegal
  <2>1. History(Known, seqs, eventsProj) /\ rows \subseteq Known
    BY <1>1 DEF IInv, DataInv, Known
  <2>2. x.sequence # 1
    BY <2>1 DEF History
  <2>3. ASSUME NEW r \in rows, r.key = x.key, r.sequence + 1 = x.sequence
        PROVE  r.state # "RESOLVED" /\ r.state # x.state
    <3>1. MayFollow(r.state, x.state)
      BY <2>1, <2>3 DEF History
    <3> QED BY <3>1 DEF MayFollow
  <2> QED BY <2>2, <2>3
<1> QED BY <1>1, Invariance, PTL

\* A stored record that is not the first of its key has its predecessor in
\* the table and carries its hash, or ids are the default ones and a row of
\* another key has the predecessor's number.  No two stored records of a key
\* share a number.
StoredChainIsWhole ==
    \A r \in rows :
        /\ \/ r.sequence = 1 /\ r.previousHash \in {NoHash, EmptyHash}
           \/ \E x \in rows : /\ x.key = r.key /\ x.sequence + 1 = r.sequence
                               /\ r.previousHash = Hash(x)
           \/ /\ ~hasIdFactory
              /\ \E y \in rows : y.key # r.key /\ y.sequence = r.sequence - 1
        /\ \A x \in rows : x.key = r.key /\ x.sequence = r.sequence => x = r

\* The links between stored records that IntegrityVerifier.verifyLogs and
\* IncidentIntegrityVerifier compare are never broken by the queue itself,
\* however often writes are repeated or interrupted, except by a default id
\* (`log-${time}-${seq}`) that another run's record of that number had first.
THEOREM StoredChainsAreWhole == Spec => []StoredChainIsWhole
<1>1. ASSUME IInv, NEW r \in rows
      PROVE  /\ \/ r.sequence = 1 /\ r.previousHash \in {NoHash, EmptyHash}
                \/ \E x \in rows : /\ x.key = r.key /\ x.sequence + 1 = r.sequence
                                    /\ r.previousHash = Hash(x)
                \/ /\ ~hasIdFactory
                   /\ \E y \in rows : y.key # r.key /\ y.sequence = r.sequence - 1
             /\ \A x \in rows : x.key = r.key /\ x.sequence = r.sequence => x = r
  <2>1. /\ r \in Known /\ rows \subseteq Known
        /\ Numbering(Known, seqs, Blocking(rows))
        /\ Linking(Known, seqs, lastHashes, Blocking(rows))
        /\ StoredFirst(rows, Known, Blocking(rows))
    BY <1>1 DEF IInv, DataInv, Known
  <2>2. \A x \in rows : x.key = r.key /\ x.sequence = r.sequence => x = r
    BY <2>1 DEF Numbering
  <2>3. ASSUME Clash(Blocking(rows), r.key, r.sequence - 1)
        PROVE  ~hasIdFactory /\ \E y \in rows : y.key # r.key /\ y.sequence = r.sequence - 1
    BY <2>3 DEF Clash, Blocking
  <2>4. ASSUME NEW x \in Known, x.key = r.key, x.sequence + 1 = r.sequence
        PROVE  x \in rows \/ Clash(Blocking(rows), r.key, r.sequence - 1)
    <3>1. x.sequence < r.sequence /\ x.sequence = r.sequence - 1
      BY <1>1, <2>1, <2>4, KnownIsRecords DEF IInv, ControlInv
    <3> QED BY <2>1, <2>4, <3>1 DEF StoredFirst
  <2> QED BY <2>1, <2>2, <2>3, <2>4 DEF Linking
<1>2. IInv => StoredChainIsWhole
  BY <1>1 DEF StoredChainIsWhole
<1> QED BY <1>2, Invariance, PTL

------------------------------------------------------------------------------
(* The refinement of DurableLog                                            *)

Entries == {AsEntry(r) : r \in Record}

\* Equal lengths and equal elements make equal sequences.
LEMMA SameSequence ==
    ASSUME NEW S, NEW p \in Seq(S), NEW q \in Seq(S), Len(p) = Len(q),
           \A i \in 1 .. Len(p) : p[i] = q[i]
    PROVE  p = q
OBVIOUS

\* A sequence that agrees with a longer one is its front.
LEMMA SamePrefix ==
    ASSUME NEW S, NEW p \in Seq(S), NEW q \in Seq(S), Len(p) <= Len(q),
           \A i \in 1 .. Len(p) : p[i] = q[i]
    PROVE  p = SubSeq(q, 1, Len(p))
<1>1. Len(p) \in 0 .. Len(q)
  OBVIOUS
<1>2. /\ SubSeq(q, 1, Len(p)) \in Seq(S) /\ Len(SubSeq(q, 1, Len(p))) = Len(p)
      /\ \A i \in 1 .. Len(p) : SubSeq(q, 1, Len(p))[i] = q[i]
  BY <1>1, FrontOf
<1> QED BY <1>2, SameSequence

\* When records are numbered without gaps, the chain is their sequence.
LEMMA ChainIsTheRecords ==
    ASSUME NEW t, t \subseteq Record, NEW s, Numbering(t, s, {}), NEW k \in Keys,
           s[k] \in 0 .. MaxSequence
    PROVE  /\ ChainOf(t, k) \in Seq(Entries) /\ Len(ChainOf(t, k)) = s[k]
           /\ \A r \in t : r.key = k => ChainOf(t, k)[r.sequence] = AsEntry(r)
<1> DEFINE D == {m \in 1 .. MaxSequence : Numbered(t, k, m) # {}}
<1>1. \A r \in t : r.sequence \in 1 .. MaxSequence
  BY DEF Record
<1>2. D = 1 .. s[k]
  <2>1. ASSUME NEW m \in D PROVE m \in 1 .. s[k]
    <3>1. PICK r \in t : r.key = k /\ r.sequence = m
      BY DEF Numbered
    <3>2. r.sequence <= s[k]
      BY <3>1 DEF Numbering
    <3> QED BY <1>1, <3>1, <3>2
  <2>2. ASSUME NEW m \in 1 .. s[k] PROVE m \in D
    <3>1. m \in 1 .. MaxSequence
      BY QueueConstants
    <3>2. \E r \in t : r.key = k /\ r.sequence = m
      BY <2>2 DEF Numbering, Clash
    <3> QED BY <3>1, <3>2 DEF Numbered
  <2> QED BY <2>1, <2>2
<1>3. ASSUME NEW m \in D
      PROVE  (CHOOSE r \in Numbered(t, k, m) : TRUE) \in Numbered(t, k, m)
  BY <1>3
<1>4. \A m \in D : AsEntry(CHOOSE r \in Numbered(t, k, m) : TRUE) \in Entries
  BY <1>3 DEF Entries, Numbered
<1>5. ChainOf(t, k) = [m \in 1 .. s[k] |-> AsEntry(CHOOSE r \in Numbered(t, k, m) : TRUE)]
  BY <1>2 DEF ChainOf
<1>6. ChainOf(t, k) \in Seq(Entries) /\ Len(ChainOf(t, k)) = s[k]
  <2>1. \A m \in 1 .. s[k] : AsEntry(CHOOSE r \in Numbered(t, k, m) : TRUE) \in Entries
    BY <1>2, <1>4
  <2>2. ChainOf(t, k) \in [1 .. s[k] -> Entries]
    BY <1>5, <2>1
  <2>3. s[k] \in Nat
    BY QueueConstants
  <2> QED BY <2>2, <2>3
<1>7. ASSUME NEW r \in t, r.key = k
      PROVE  ChainOf(t, k)[r.sequence] = AsEntry(r)
  <2>1. r.sequence \in 1 .. MaxSequence /\ r \in Numbered(t, k, r.sequence)
    BY <1>1, <1>7 DEF Numbered
  <2>2. r.sequence \in D
    BY <2>1
  <2>3. \A x \in Numbered(t, k, r.sequence) : x = r
    BY <1>7 DEF Numbered, Numbering
  <2>4. (CHOOSE x \in Numbered(t, k, r.sequence) : TRUE) = r
    BY <1>3, <2>2, <2>3
  <2> QED BY <1>2, <1>5, <2>2, <2>4
<1> QED BY <1>6, <1>7

\* What a chain holds, and the sets of records whose chains it describes.
ChainIs(c, t, k, m) == /\ c \in Seq(Entries) /\ Len(c) = m
                       /\ \A r \in t : r.key = k => c[r.sequence] = AsEntry(r)
Gapless(t, s) == /\ t \subseteq Record /\ Numbering(t, s, {})
                 /\ \A k \in Keys : s[k] \in 0 .. MaxSequence

\* A gapless set of records has a whole chain under every key.
LEMMA GaplessChains ==
    ASSUME NEW t, NEW s, Gapless(t, s)
    PROVE  \A k \in Keys : ChainIs(ChainOf(t, k), t, k, s[k])
<1> SUFFICES ASSUME NEW k \in Keys PROVE ChainIs(ChainOf(t, k), t, k, s[k])
  OBVIOUS
<1>1. t \subseteq Record /\ Numbering(t, s, {}) /\ s[k] \in 0 .. MaxSequence
  BY DEF Gapless
<1> DEFINE c == ChainOf(t, k)
<1>2. /\ c \in Seq(Entries) /\ Len(c) = s[k]
      /\ \A r \in t : r.key = k => c[r.sequence] = AsEntry(r)
  BY <1>1, ChainIsTheRecords
<1> HIDE DEF c
<1>3. ChainIs(c, t, k, s[k])
  BY <1>2 DEF ChainIs
<1> QED BY <1>3 DEF c

\* The numbers stored under a key.
StoredNumbers(t, k) == {r.sequence : r \in RowsOf(t, k)}
Top(t, k) == IF RowsOf(t, k) = {} THEN 0 ELSE LatestRow(t, k).sequence

\* They are the first ones.
LEMMA StoredNumbersArePrefix ==
    ASSUME NEW t, NEW all, t \subseteq all, all \subseteq Record,
           StoredFirst(t, all, {}), NEW s, Numbering(all, s, {}), NEW k \in Keys, s[k] \in 0 .. MaxSequence
    PROVE  /\ Top(t, k) \in 0 .. s[k]
           /\ StoredNumbers(t, k) = 1 .. Top(t, k)
<1>1. \A r \in all : r.sequence \in 1 .. MaxSequence
  BY DEF Record
<1>2. \A r \in all : r.key = k => r.sequence <= s[k]
  BY DEF Numbering
<1>3. CASE RowsOf(t, k) = {}
  <2>1. Top(t, k) = 0 /\ StoredNumbers(t, k) = {}
    BY <1>3 DEF Top, StoredNumbers
  <2> QED BY <2>1, QueueConstants
<1>4. CASE RowsOf(t, k) # {}
  <2> DEFINE x == LatestRow(t, k)
  <2>1. /\ x \in t /\ x.key = k
        /\ \A y \in t : y.key = k => y.sequence <= x.sequence
    BY <1>4, LatestRowIsLatest
  <2>2. Top(t, k) = x.sequence
    BY <1>4 DEF Top
  <2> HIDE DEF x
  <2>3. x.sequence \in 1 .. MaxSequence /\ x.sequence <= s[k]
    BY <1>1, <1>2, <2>1
  <2>4. ASSUME NEW n \in StoredNumbers(t, k) PROVE n \in 1 .. x.sequence
    <3>1. PICK r \in t : r.key = k /\ n = r.sequence
      BY <2>4 DEF StoredNumbers, RowsOf
    <3> QED BY <1>1, <2>1, <2>3, <3>1
  <2>5. ASSUME NEW n \in 1 .. x.sequence PROVE n \in StoredNumbers(t, k)
    <3>1. CASE n = x.sequence
      BY <2>1, <3>1 DEF StoredNumbers, RowsOf
    <3>2. CASE n # x.sequence
      <4>1. n \in 1 .. s[k] /\ n < x.sequence
        BY <2>3, <3>2
      <4>2. PICK r \in all : r.key = k /\ r.sequence = n
        BY <4>1 DEF Numbering, Clash
      <4>3. r \in t
        BY <2>1, <4>1, <4>2 DEF StoredFirst, Clash
      <4> QED BY <4>2, <4>3 DEF StoredNumbers, RowsOf
    <3> QED BY <3>1, <3>2
  <2>6. StoredNumbers(t, k) = 1 .. x.sequence
    BY <2>4, <2>5
  <2>7. x.sequence \in 0 .. s[k]
    BY <2>3
  <2> QED BY <2>2, <2>6, <2>7
<1> QED BY <1>3, <1>4

\* What the mapping makes of a state.
LogOf(all) == [k \in Keys |-> ChainOf(all, k)]
DurableOf(t) == [k \in Keys |-> StoredNumbers(t, k)]

\* An empty table and an empty queue are an empty log.
LEMMA InitIsInit ==
    ASSUME Init
    PROVE  Abstract!Init
<1>1. rows \union Range(queue) = {} /\ rows = {}
  BY DEF Init, Range
<1>2. \A k \in Keys : ChainOf({}, k) = <<>> /\ {r.sequence : r \in RowsOf({}, k)} = {}
  BY DEF ChainOf, Numbered, RowsOf
<1> QED BY <1>1, <1>2 DEF Abstract!Init

\* A new record goes to the end of its chain and names the end before it.
LEMMA AppendsAccepts ==
    ASSUME IInv, hasIdFactory,
           NEW k \in Keys, NEW s \in IncidentStates \union {"LOG"}, Appends(k, s)
    PROVE  \E h \in Hashes : Abstract!Accept(k, h)
<1> USE DEF IInv, ControlInv, options
<1>1. PICK all : all = Known
  OBVIOUS
<1>2. PICK all2 : all2 = Known'
  OBVIOUS
<1>3. PICK n : n = seqs
  OBVIOUS
<1>4. PICK n2 : n2 = seqs'
  OBVIOUS
<1>5. seqs[k] < MaxSequence /\ seqs' = [seqs EXCEPT ![k] = seqs[k] + 1]
  BY DEF Appends, AppendRecord
<1>a. /\ DataInv'
      /\ \E r \in Record : /\ Hash(r) \in Hashes /\ r.key = k
                          /\ r.sequence = seqs[k] + 1
                          /\ r.previousHash = lastHashes[k]
                          /\ Known' = Known \union {r}
  BY AppendKeepsData DEF Appends
<1>6. PICK r \in Record : /\ Hash(r) \in Hashes
                          /\ r.key = k /\ r.sequence = seqs[k] + 1
                          /\ r.previousHash = lastHashes[k]
                          /\ Known' = Known \union {r}
  BY <1>a
<1>7. DataInv' /\ Known' = Known \union {r}
  BY <1>a, <1>6
<1>b. Blocking(rows) = {} /\ Blocking(rows)' = {}
  BY DEF Blocking, Appends
<1>8. IInv'
  BY AppendsKeeps
<1>9. all \subseteq Record /\ all2 \subseteq Record /\ all2 = all \union {r}
  BY <1>1, <1>2, <1>6, <1>7, KnownIsRecords
<1>10. Numbering(all, n, {}) /\ Numbering(all2, n2, {})
  BY <1>1, <1>2, <1>3, <1>4, <1>7, <1>b DEF DataInv
<1>11. /\ \A j \in Keys : n[j] \in 0 .. MaxSequence /\ n2[j] \in 0 .. MaxSequence
       /\ n2[k] = n[k] + 1
  BY <1>3, <1>4, <1>5, <1>8 DEF TypeOK
<1>g. Gapless(all, n) /\ Gapless(all2, n2)
  BY <1>9, <1>10, <1>11 DEF Gapless
<1>h. \A j \in Keys : ChainIs(ChainOf(all, j), all, j, n[j])
  BY <1>g, GaplessChains
<1>i. \A j \in Keys : ChainIs(ChainOf(all2, j), all2, j, n2[j])
  BY <1>g, GaplessChains
<1> DEFINE c == ChainOf(all, k)
           c2 == ChainOf(all2, k)
<1>j. ChainIs(c, all, k, n[k]) /\ ChainIs(c2, all2, k, n[k] + 1)
  BY <1>h, <1>i, <1>11
<1>12. /\ c \in Seq(Entries) /\ Len(c) = n[k]
       /\ \A x \in all : x.key = k => c[x.sequence] = AsEntry(x)
  BY <1>j DEF ChainIs
<1>13. /\ c2 \in Seq(Entries) /\ Len(c2) = n[k] + 1
       /\ \A x \in all2 : x.key = k => c2[x.sequence] = AsEntry(x)
  BY <1>j DEF ChainIs
<1>14. \A j \in Keys : j # k => ChainOf(all2, j) = ChainOf(all, j)
  <2> SUFFICES ASSUME NEW j \in Keys, j # k PROVE ChainOf(all2, j) = ChainOf(all, j)
    OBVIOUS
  <2> DEFINE a == ChainOf(all, j)
             b == ChainOf(all2, j)
  <2>0. ChainIs(a, all, j, n[j]) /\ ChainIs(b, all2, j, n2[j])
    BY <1>h, <1>i
  <2>1. /\ a \in Seq(Entries) /\ Len(a) = n[j]
        /\ \A x \in all : x.key = j => a[x.sequence] = AsEntry(x)
    BY <2>0 DEF ChainIs
  <2>2. /\ b \in Seq(Entries) /\ Len(b) = n2[j]
        /\ \A x \in all2 : x.key = j => b[x.sequence] = AsEntry(x)
    BY <2>0 DEF ChainIs
  <2> HIDE DEF a, b
  <2>3. n2[j] = n[j]
    BY <1>3, <1>4, <1>5 DEF TypeOK
  <2>4. \A i \in 1 .. n[j] : \E x \in all : x.key = j /\ x.sequence = i
    BY <1>10 DEF Numbering, Clash
  <2>5. \A i \in 1 .. Len(b) : b[i] = a[i]
    BY <1>9, <2>1, <2>2, <2>3, <2>4
  <2>6. b = a
    BY <2>1, <2>2, <2>3, <2>5, SameSequence
  <2> QED BY <2>6 DEF a, b
<1> HIDE DEF c, c2
<1>15. \A i \in 1 .. n[k] : \E x \in all : x.key = k /\ x.sequence = i
  BY <1>10 DEF Numbering, Clash
<1>16. c2 = Append(c, AsEntry(r))
  <2>1. AsEntry(r) \in Entries
    BY <1>6 DEF Entries
  <2> DEFINE d == Append(c, AsEntry(r))
  <2>2. /\ d \in Seq(Entries) /\ Len(d) = n[k] + 1
        /\ \A i \in 1 .. n[k] : d[i] = c[i]
        /\ d[n[k] + 1] = AsEntry(r)
    BY <1>12, <2>1, AppendOf
  <2> HIDE DEF d
  <2>3. c2[n[k] + 1] = AsEntry(r)
    BY <1>3, <1>6, <1>9, <1>13
  <2>4. \A i \in 1 .. n[k] : c2[i] = c[i]
    BY <1>9, <1>12, <1>13, <1>15
  <2>5. \A i \in 1 .. Len(c2) : c2[i] = d[i]
    BY <1>11, <1>13, <2>2, <2>3, <2>4, SMTT(40)
  <2>6. c2 = d
    BY <1>13, <2>2, <2>5, SameSequence
  <2> QED BY <2>6 DEF d
<1>17. /\ r.previousHash \in Abstract!Ends(c)
       /\ AsEntry(r) = [hash |-> Hash(r), prev |-> r.previousHash]
  <2>0. AsEntry(r) = [hash |-> Hash(r), prev |-> r.previousHash]
    BY DEF AsEntry
  <2>1. CASE seqs[k] = 0 /\ lastHashes[k] \in {NoHash, EmptyHash}
    <3>1. c = <<>>
      BY <1>3, <1>12, <2>1
    <3>2. Abstract!Ends(c) = {NoHash, EmptyHash}
      BY <3>1 DEF Abstract!Ends
    <3> QED BY <1>6, <2>0, <2>1, <3>2
  <2>2. CASE \E x \in Known : x.key = k /\ x.sequence = seqs[k] /\ lastHashes[k] = Hash(x)
    <3>1. PICK x \in Known : x.key = k /\ x.sequence = seqs[k] /\ lastHashes[k] = Hash(x)
      BY <2>2
    <3>2. Hash(x) \in Hashes /\ x.sequence >= 1
      BY <3>1, KnownIsRecords
    <3>3. Len(c) = x.sequence /\ c[Len(c)] = AsEntry(x) /\ c # <<>>
      BY <1>1, <1>3, <1>12, <3>1, <3>2
    <3>4. Abstract!Ends(c) = {Hash(x)}
      BY <3>3 DEF Abstract!Ends, AsEntry
    <3> QED BY <1>6, <2>0, <3>1, <3>4
  <2>3. Linking(Known, seqs, lastHashes, {})
    BY <1>b DEF DataInv
  <2> QED BY <2>1, <2>2, <2>3 DEF Linking, Clash
<1>18. \A i \in 1 .. Len(c) : c[i].hash # Hash(r)
  <2> SUFFICES ASSUME NEW i \in 1 .. Len(c) PROVE c[i].hash # Hash(r)
    OBVIOUS
  <2>1. PICK x \in all : x.key = k /\ x.sequence = i
    BY <1>12, <1>15
  <2>2. c[i].hash = Hash(x)
    <3>1. c[i] = AsEntry(x)
      BY <1>12, <2>1
    <3>2. AsEntry(x).hash = Hash(x)
      BY DEF AsEntry
    <3> QED BY <3>1, <3>2
  <2>3. i # seqs[k] + 1
    BY <1>3, <1>11, <1>12
  <2> QED BY <1>6, <2>1, <2>2, <2>3 DEF Hash
<1>19. LogOf(all2) = [LogOf(all) EXCEPT ![k] = Append(c, AsEntry(r))]
  BY <1>14, <1>16 DEF LogOf, c, c2
<1>20. LogOf(all)[k] = c /\ DOMAIN c = 1 .. Len(c)
  BY <1>12 DEF LogOf, c
<1>21. DurableOf(rows)' = DurableOf(rows)
  BY DEF Appends
<1>22. /\ LogOf(all) = [j \in Keys |-> ChainOf(rows \union Range(queue), j)]
       /\ LogOf(all2) = [j \in Keys |-> ChainOf(rows \union Range(queue), j)]'
       /\ DurableOf(rows) = [j \in Keys |-> {x.sequence : x \in RowsOf(rows, j)}]
       /\ DurableOf(rows)' = [j \in Keys |-> {x.sequence : x \in RowsOf(rows, j)}]'
  BY <1>1, <1>2 DEF LogOf, DurableOf, StoredNumbers, Known
<1>23. Abstract!Accept(k, Hash(r))
  <2> HIDE DEF LogOf, DurableOf
  <2> QED BY <1>17, <1>18, <1>19, <1>20, <1>21, <1>22 DEF Abstract!Accept
<1> QED BY <1>6, <1>23

\* Storing the front of the queue extends what is durable, without gaps.
LEMMA FrontIsAnExtent ==
    ASSUME IInv, hasIdFactory, NEW m \in 0 .. Len(queue), NEW t, StoresFront(m, t)
    PROVE  /\ [k \in Keys |-> Top(t, k)] \in Abstract!Extents
           /\ DurableOf(t) = [k \in Keys |-> 1 .. Top(t, k)]
           /\ t \subseteq Known
           /\ \A k \in Keys : Top(t, k) \in 0 .. seqs[k]
<1> USE DEF IInv, ControlInv, options
<1>1. PICK all : all = Known
  OBVIOUS
<1>2. PICK n : n = seqs
  OBVIOUS
<1>a. Blocking(t) = {} /\ Blocking(rows) = {}
  BY DEF Blocking
<1>b. t \subseteq all /\ StoredFirst(t, all, {})
  BY <1>1, <1>a, FrontIsStoredFirst
<1>3. /\ t \subseteq all /\ StoredFirst(t, all, {}) /\ all \subseteq Record
      /\ Numbering(all, n, {}) /\ \A k \in Keys : n[k] \in 0 .. MaxSequence
  BY <1>1, <1>2, <1>a, <1>b, KnownIsRecords DEF DataInv, TypeOK
<1>c. Gapless(all, n)
  BY <1>3 DEF Gapless
<1>4. ASSUME NEW k \in Keys
      PROVE  /\ Top(t, k) \in 0 .. n[k] /\ StoredNumbers(t, k) = 1 .. Top(t, k)
             /\ StoredNumbers(rows, k) \subseteq 1 .. Top(t, k)
             /\ Len(ChainOf(all, k)) = n[k]
  <2>0. ChainIs(ChainOf(all, k), all, k, n[k])
    BY <1>c, GaplessChains
  <2>1. n[k] \in 0 .. MaxSequence
    BY <1>3
  <2>2. Top(t, k) \in 0 .. n[k] /\ StoredNumbers(t, k) = 1 .. Top(t, k)
    BY <1>3, <2>1, StoredNumbersArePrefix
  <2>3. Len(ChainOf(all, k)) = n[k]
    BY <2>0 DEF ChainIs
  <2>4. StoredNumbers(rows, k) \subseteq StoredNumbers(t, k)
    BY DEF StoredNumbers, RowsOf, StoresFront
  <2> QED BY <2>2, <2>3, <2>4
<1>5. DurableOf(t) = [k \in Keys |-> 1 .. Top(t, k)]
  BY <1>4 DEF DurableOf
<1> DEFINE e == [k \in Keys |-> Top(t, k)]
           len == [k \in Keys |-> Len([j \in Keys |-> ChainOf(rows \union Range(queue), j)][k])]
<1>6. \A k \in Keys : len[k] = n[k]
  BY <1>1, <1>4 DEF Known
<1>7. ASSUME NEW k \in Keys
      PROVE  /\ e[k] \in 0 .. len[k] /\ e[k] <= len[k]
             /\ [j \in Keys |-> {r.sequence : r \in RowsOf(rows, j)}][k] \subseteq 1 .. e[k]
  <2>1. Top(t, k) \in 0 .. n[k] /\ StoredNumbers(rows, k) \subseteq 1 .. Top(t, k)
    BY <1>4
  <2>2. e[k] = Top(t, k) /\ len[k] = n[k]
    BY <1>6
  <2> HIDE DEF e, len
  <2>3. [j \in Keys |-> {r.sequence : r \in RowsOf(rows, j)}][k] = StoredNumbers(rows, k)
    BY DEF StoredNumbers
  <2>4. Top(t, k) <= n[k]
    BY <1>3, <2>1
  <2> QED BY <2>1, <2>2, <2>3, <2>4
<1>8. e \in [Keys -> UNION {0 .. len[k] : k \in Keys}]
  <2>1. \A k \in Keys : e[k] \in UNION {0 .. len[j] : j \in Keys}
    BY <1>7
  <2>2. e = [k \in Keys |-> e[k]]
    OBVIOUS
  <2> HIDE DEF e, len
  <2> QED BY <2>1, <2>2
<1>9. e \in Abstract!Extents
  <2> HIDE DEF e
  <2> QED BY <1>7, <1>8 DEF Abstract!Extents
<1>10. /\ t \subseteq Known
       /\ \A k \in Keys : Top(t, k) \in 0 .. seqs[k]
  BY <1>1, <1>2, <1>3, <1>4
<1> QED BY <1>5, <1>9, <1>10

\* A write persists; everything else between two appends changes nothing.
LEMMA TurnsPersist ==
    ASSUME IInv, hasIdFactory, Turns
    PROVE  Abstract!Persist \/ UNCHANGED Abstract!vars
<1>1. Known' = Known
  BY TurnsKeepData
<1>2. [k \in Keys |-> ChainOf(rows \union Range(queue), k)]'
        = [k \in Keys |-> ChainOf(rows \union Range(queue), k)]
  BY <1>1 DEF Known
<1>3. CASE Quiet
  <2>1. [k \in Keys |-> {r.sequence : r \in RowsOf(rows, k)}]'
          = [k \in Keys |-> {r.sequence : r \in RowsOf(rows, k)}]
    BY <1>3 DEF Quiet
  <2> QED BY <1>2, <2>1 DEF Abstract!vars
<1>4. CASE Writes
  <2>1. PICK m \in 0 .. Len(queue) : StoresFront(m, rows')
    BY <1>4 DEF Writes
  <2>2. PICK t : t = rows'
    OBVIOUS
  <2>3. /\ [k \in Keys |-> Top(t, k)] \in Abstract!Extents
        /\ DurableOf(t) = [k \in Keys |-> 1 .. Top(t, k)]
    BY <2>1, <2>2, FrontIsAnExtent
  <2>4. PICK e : e = [k \in Keys |-> Top(t, k)]
    OBVIOUS
  <2>5. [k \in Keys |-> {r.sequence : r \in RowsOf(rows, k)}]' = [k \in Keys |-> 1 .. e[k]]
    BY <2>2, <2>3, <2>4 DEF DurableOf, StoredNumbers
  <2>6. e \in Abstract!Extents /\ Abstract!Written(e)
    BY <2>3, <2>4, <2>5 DEF Abstract!Written
  <2> QED BY <1>2, <2>6 DEF Abstract!Persist
<1> QED BY <1>3, <1>4 DEF Turns

\* A restart keeps what is durable and loses the rest.
LEMMA RestartLoses ==
    ASSUME IInv, hasIdFactory, NEW lands \in BOOLEAN, Restart(lands)
    PROVE  Abstract!Lose
<1>1. PICK m \in 0 .. Len(queue) : StoresFront(m, rows')
  BY RestartStoresFront
<1>2. PICK t : t = rows'
  OBVIOUS
<1>3. /\ [k \in Keys |-> Top(t, k)] \in Abstract!Extents
      /\ DurableOf(t) = [k \in Keys |-> 1 .. Top(t, k)]
      /\ t \subseteq Known
      /\ \A k \in Keys : Top(t, k) \in 0 .. seqs[k]
  BY <1>1, <1>2, FrontIsAnExtent
<1>4. PICK e : e = [k \in Keys |-> Top(t, k)]
  OBVIOUS
<1>5. [k \in Keys |-> {r.sequence : r \in RowsOf(rows, k)}]' = [k \in Keys |-> 1 .. e[k]]
  BY <1>2, <1>3, <1>4 DEF DurableOf, StoredNumbers
<1>6. e \in Abstract!Extents /\ Abstract!Written(e)
  BY <1>3, <1>4, <1>5 DEF Abstract!Written
<1>7. PICK all : all = Known
  OBVIOUS
<1>8. PICK n : n = seqs
  OBVIOUS
<1>9. PICK n2 : n2 = seqs'
  OBVIOUS
<1>10. IInv'
  BY RestartKeeps
<1>11. Known' = t
  <2>1. Range(queue') = {}
    BY DEF Restart, Range
  <2> QED BY <1>2, <2>1 DEF Known
<1>12. /\ all \subseteq Record /\ t \subseteq all
       /\ Numbering(all, n, {}) /\ Numbering(t, n2, {})
       /\ \A k \in Keys : n[k] \in 0 .. MaxSequence /\ n2[k] \in 0 .. MaxSequence
  <2>0. Blocking(rows) = {} /\ Blocking(rows)' = {}
    BY DEF Blocking, Restart, options
  <2>1. Numbering(Known, seqs, {}) /\ Numbering(Known', seqs', {})
    BY <1>10, <2>0 DEF IInv, DataInv
  <2> QED
    BY <1>3, <1>7, <1>8, <1>9, <1>10, <1>11, <2>1, KnownIsRecords
    DEF IInv, ControlInv, TypeOK
<1>13. \A k \in Keys : n2[k] = e[k] /\ e[k] <= n[k]
  <2> SUFFICES ASSUME NEW k \in Keys PROVE n2[k] = Top(t, k) /\ Top(t, k) <= n[k]
    BY <1>4
  <2>1. n2[k] = Top(t, k)
    BY <1>2, <1>9 DEF Restart, LoggerInitialize, IncidentInitialize, Top
  <2>2. Top(t, k) \in 0 .. n[k] /\ n[k] \in Nat
    BY <1>3, <1>8, <1>12, QueueConstants
  <2> QED BY <2>1, <2>2
<1>14. ASSUME NEW k \in Keys
       PROVE  ChainOf(t, k) = SubSeq(ChainOf(all, k), 1, e[k])
  <2>1. /\ n[k] \in 0 .. MaxSequence /\ n2[k] \in 0 .. MaxSequence
        /\ n2[k] <= n[k] /\ n2[k] = e[k]
    BY <1>12, <1>13
  <2>2. /\ all \subseteq Record /\ t \subseteq all /\ t \subseteq Record
        /\ Numbering(all, n, {}) /\ Numbering(t, n2, {})
    BY <1>12
  <2>g. Gapless(all, n) /\ Gapless(t, n2)
    BY <1>12 DEF Gapless
  <2> DEFINE p == ChainOf(t, k)
             q == ChainOf(all, k)
  <2>h. ChainIs(q, all, k, n[k])
    BY <2>g, GaplessChains
  <2>i. ChainIs(p, t, k, n2[k])
    BY <2>g, GaplessChains
  <2>3. /\ p \in Seq(Entries) /\ Len(p) = n2[k]
        /\ \A r \in t : r.key = k => p[r.sequence] = AsEntry(r)
    BY <2>i DEF ChainIs
  <2>4. /\ q \in Seq(Entries) /\ Len(q) = n[k]
        /\ \A r \in all : r.key = k => q[r.sequence] = AsEntry(r)
    BY <2>h DEF ChainIs
  <2> HIDE DEF p, q
  <2>5. \A i \in 1 .. n2[k] : \E r \in t : r.key = k /\ r.sequence = i
    BY <2>2 DEF Numbering, Clash
  <2>6. \A i \in 1 .. n2[k] : p[i] = q[i]
    BY <2>2, <2>3, <2>4, <2>5
  <2>7. p = SubSeq(q, 1, Len(p))
    BY <2>1, <2>3, <2>4, <2>6, SamePrefix
  <2> QED BY <2>1, <2>3, <2>7 DEF p, q
<1>15. [k \in Keys |-> ChainOf(rows \union Range(queue), k)]'
         = [k \in Keys |->
              SubSeq([j \in Keys |-> ChainOf(rows \union Range(queue), j)][k], 1, e[k])]
  <2>1. rows \union Range(queue) = all /\ (rows \union Range(queue))' = t
    BY <1>7, <1>11 DEF Known
  <2> QED BY <1>14, <2>1
<1> QED BY <1>6, <1>15 DEF Abstract!Lose

\* Every step of the code is a step of the log or changes nothing of it.
LEMMA StepsAreSteps ==
    ASSUME IInv, [Next]_vars
    PROVE  [hasIdFactory => Abstract!Next]_(Abstract!vars)
<1> SUFFICES ASSUME hasIdFactory PROVE [Abstract!Next]_(Abstract!vars)
  OBVIOUS
<1>1. CASE UNCHANGED vars
  <2>1. rows' = rows /\ queue' = queue
    BY <1>1 DEF vars, memory
  <2> QED BY <2>1 DEF Abstract!vars
<1>2. CASE Next
  <2>1. CASE \E k \in Keys, s \in IncidentStates \union {"LOG"} : Appends(k, s)
    BY <2>1, AppendsAccepts DEF Abstract!Next
  <2>2. CASE ControlInv' /\ Turns
    BY <2>2, TurnsPersist DEF Abstract!Next
  <2>3. CASE \E lands \in BOOLEAN : Restart(lands)
    BY <2>3, RestartLoses DEF Abstract!Next
  <2> QED BY <1>2, <2>1, <2>2, <2>3, StepKinds
<1> QED BY <1>1, <1>2

\* With an idFactory both services implement the durable log: every accepted
\* record names its predecessor, the table holds an unbroken beginning of
\* each chain whatever is retried, written twice or interrupted, and a
\* restart loses at most the end of it.
THEOREM QueueIsADurableLog == Spec => ImplementsDurableLog
<1>1. Init => (hasIdFactory => Abstract!Init)
  BY InitIsInit
<1> QED BY <1>1, StepsAreSteps, Invariance, PTL DEF Spec, ImplementsDurableLog

==============================================================================
