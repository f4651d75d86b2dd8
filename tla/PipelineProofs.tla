--------------------------- MODULE PipelineProofs ---------------------------
(***************************************************************************)
(* Proofs about Pipeline, for every set of backends and every value of the *)
(* bounds.  The inductive invariant IInv says why an entry may be          *)
(* acknowledged or deleted: something newer already stands for it.         *)
(***************************************************************************)
EXTENDS Pipeline, TLAPS, FiniteSetTheorems, SequenceTheorems

Working == {"analyse", "ack", "resend", "fack"}

\* The batch in memory is exactly what the consumer name has pending, so that a
\* parser that finishes its batch leaves nothing behind.
WorkIsPending ==
    \A b \in Backends :
        /\ Cardinality(pel[b]) <= BatchSize
        /\ pc[b] \in Working => work[b] = pel[b]
        /\ pc[b] = "read" => pel[b] = {}

\* What the parser is about to acknowledge was analysed, or handed to the retry
\* stream.
AckIsSafe ==
    \A b \in Backends :
        /\ pc[b] = "ack" => work[b] \subseteq analysed
        /\ pc[b] = "fack" => \A id \in work[b] : IsOldest(id, work[b]) => SafeAfter(0, id)

\* What the retry goroutine is about to acknowledge was analysed, or sent on.
RetryAckIsSafe ==
    \A b \in Backends :
        rpc[b] = "ack" =>
            \A p \in rwork[b] : IsOldest(p, rwork[b]) => SafeAfter(p, msg[p].id)

\* What a replay is about to delete was sent to the retry stream.
ReplayIsSafe ==
    \A r \in replays : r.stage = "sent" => SafeAfter(r.pos, msg[r.pos].id)

IInv ==
    /\ TypeOK
    /\ WorkIsPending
    /\ AckIsSafe
    /\ RetryAckIsSafe
    /\ ReplayIsSafe
    /\ NoLoss

----------------------------------------------------------------------------
(* The entries of the retry and dead-letter streams.                       *)

\* Appending a message keeps the positions of the others and adds one that is
\* newer than all of them.
LEMMA AppendedMessage ==
  ASSUME TypeOK, NEW m \in Message, msg' = Append(msg, m)
  PROVE  /\ msg' \in Seq(Message)
         /\ DOMAIN msg \subseteq DOMAIN msg'
         /\ NextPos \in DOMAIN msg'
         /\ msg'[NextPos] = m
         /\ \A q \in DOMAIN msg : q \in Nat /\ q < NextPos /\ msg'[q] = msg[q]
<1>1. msg \in Seq(Message)
  BY DEF TypeOK
<1>2. /\ msg' \in Seq(Message)
      /\ Len(msg') = Len(msg) + 1
      /\ \A q \in 1 .. Len(msg) : msg'[q] = msg[q]
      /\ msg'[Len(msg) + 1] = m
  BY <1>1, AppendProperties
<1>3. /\ DOMAIN msg = 1 .. Len(msg)
      /\ DOMAIN msg' = 1 .. Len(msg')
      /\ Len(msg) \in Nat
  BY <1>1, <1>2
<1> QED
  BY <1>2, <1>3 DEF NextPos

LEMMA EntryType ==
  ASSUME NEW id \in Ids, NEW fc \in 0 .. MaxRetries, NEW to \in {"retry", "dlq"}
  PROVE  Entry(id, fc, to) \in Message
BY DEF Entry, Message

LEMMA MessageType ==
  ASSUME TypeOK, NEW p \in DOMAIN msg
  PROVE  msg[p].id \in Ids /\ msg[p].fc \in 0 .. MaxRetries
<1>1. msg[p] \in Message
  BY DEF TypeOK
<1> QED
  BY <1>1 DEF Message

\* The steps that add an entry to the retry stream.
LEMMA AddRetryType ==
  ASSUME TypeOK, NEW id \in Ids, NEW fc \in 0 .. MaxRetries, AddRetry(id, fc)
  PROVE  /\ msg' \in Seq(Message)
         /\ DOMAIN msg \subseteq DOMAIN msg'
         /\ runread' \subseteq DOMAIN msg'
         /\ NextPos \in runread'
         /\ msg'[NextPos].id = id
         /\ runread \subseteq runread'
         /\ \A q \in DOMAIN msg : q \in Nat /\ q < NextPos /\ msg'[q] = msg[q]
<1>1. Entry(id, fc, "retry") \in Message
  BY EntryType
<1>2. msg' = Append(msg, Entry(id, fc, "retry")) /\ runread' = runread \cup {NextPos}
  BY DEF AddRetry
<1> QED
  BY <1>1, <1>2, AppendedMessage DEF TypeOK, Entry

\* The steps that send a retry entry on, to either stream.
LEMMA SendOnType ==
  ASSUME TypeOK, PipelineAssumption, NEW p \in DOMAIN msg, SendOn(p)
  PROVE  /\ msg' \in Seq(Message)
         /\ DOMAIN msg \subseteq DOMAIN msg'
         /\ runread' \subseteq DOMAIN msg'
         /\ dlq' \subseteq DOMAIN msg'
         /\ runread \subseteq runread'
         /\ dlq \subseteq dlq'
         /\ NextPos \in runread' \cup dlq'
         /\ msg'[NextPos].id = msg[p].id
         /\ \A q \in DOMAIN msg : q \in Nat /\ q < NextPos /\ msg'[q] = msg[q]
<1>2. /\ msg[p].id \in Ids
      /\ msg[p].fc \in 0 .. MaxRetries
      /\ MaxRetries \in Nat
  BY MessageType DEF PipelineAssumption
<1>3. CASE /\ msg' = Append(msg, Entry(msg[p].id, 0, "dlq"))
           /\ dlq' = dlq \cup {NextPos}
           /\ UNCHANGED runread
  <2>1. Entry(msg[p].id, 0, "dlq") \in Message
    BY <1>2, EntryType
  <2> QED
    BY <1>3, <2>1, AppendedMessage DEF TypeOK, Entry
<1>4. CASE /\ msg[p].fc < MaxRetries
           /\ AddRetry(msg[p].id, msg[p].fc + 1)
           /\ UNCHANGED dlq
  <2>1. msg[p].fc + 1 \in 0 .. MaxRetries
    BY <1>2, <1>4
  <2> QED
    BY <1>2, <1>4, <2>1, AddRetryType DEF TypeOK
<1> QED
  BY <1>3, <1>4 DEF SendOn

----------------------------------------------------------------------------
(* Types.                                                                  *)

LEMMA InitType == PipelineAssumption /\ Init => TypeOK
<1> SUFFICES ASSUME PipelineAssumption, Init PROVE TypeOK
  OBVIOUS
<1>1. msg = <<>> /\ msg \in Seq(Message)
  BY DEF Init
<1> QED
  BY <1>1 DEF Init, TypeOK, PipelineAssumption, Ids, ParserState, RetryState

\* AddRaw keeps the raw stream a set of ids that contains the unread ones.
LEMMA AddRawType ==
  ASSUME TypeOK, NEW id \in Ids, AddRaw(id)
  PROVE  /\ stream' \subseteq Ids
         /\ unread' \subseteq stream'
         /\ dropped' \subseteq Ids
BY DEF TypeOK, AddRaw

LEMMA NextType ==
  PipelineAssumption /\ TypeOK /\ [Next]_vars => TypeOK'
<1> SUFFICES ASSUME PipelineAssumption, TypeOK, [Next]_vars PROVE TypeOK'
  OBVIOUS
<1> USE DEF TypeOK, rawVars, retryVars, dlqVars
<1>1. CASE Publish
  <2>1. lastId + 1 \in Ids /\ lastId' \in 0 .. MaxIds
    BY <1>1 DEF Publish, Ids, PipelineAssumption
  <2> QED
    BY <1>1, <2>1, AddRawType DEF Publish
<1>2. CASE PublishToRetry
  <2>1. /\ lastId + 1 \in Ids
        /\ lastId' \in 0 .. MaxIds
        /\ 0 \in 0 .. MaxRetries
        /\ faults' \in 0 .. MaxFaults
    BY <1>2 DEF PublishToRetry, Ids, PipelineAssumption
  <2>2. /\ msg' \in Seq(Message)
        /\ DOMAIN msg \subseteq DOMAIN msg'
        /\ runread' \subseteq DOMAIN msg'
    BY <1>2, <2>1, AddRetryType DEF PublishToRetry
  <2> QED
    BY <1>2, <2>1, <2>2 DEF PublishToRetry
<1>3. CASE PublishTwice
  <2>1. /\ lastId + 1 \in Ids
        /\ lastId + 2 \in Ids
        /\ lastId' \in 0 .. MaxIds
        /\ 0 \in 0 .. MaxRetries
        /\ faults' \in 0 .. MaxFaults
    BY <1>3 DEF PublishTwice, Ids, PipelineAssumption
  <2>2. /\ msg' \in Seq(Message)
        /\ DOMAIN msg \subseteq DOMAIN msg'
        /\ runread' \subseteq DOMAIN msg'
    BY <1>3, <2>1, AddRetryType DEF PublishTwice
  <2>3. /\ stream' \subseteq Ids
        /\ unread' \subseteq stream'
        /\ dropped' \subseteq Ids
    BY <1>3, <2>1, AddRawType DEF PublishTwice
  <2> QED
    BY <1>3, <2>1, <2>2, <2>3 DEF PublishTwice
<1>4. ASSUME NEW b \in Backends, Start(b) PROVE TypeOK'
  BY <1>4 DEF Start, ParserState, RetryState
<1>5. ASSUME NEW b \in Backends, ReadPending(b) PROVE TypeOK'
  BY <1>5 DEF ReadPending, ParserState, RetryState, IsBatchOf
<1>6. ASSUME NEW b \in Backends, ReadNew(b) PROVE TypeOK'
  BY <1>6 DEF ReadNew, ParserState, RetryState, IsBatchOf
<1>7. ASSUME NEW b \in Backends, Analyse(b) PROVE TypeOK'
  BY <1>7 DEF Analyse, ParserState, RetryState
<1>8. ASSUME NEW b \in Backends, AnalyseFails(b) PROVE TypeOK'
  BY <1>8 DEF AnalyseFails, ParserState, RetryState
<1>9. ASSUME NEW b \in Backends, Resend(b) PROVE TypeOK'
  <2>1. 0 \in 0 .. MaxRetries
    BY DEF PipelineAssumption
  <2>2. PICK id \in work[b] : AddRetry(id, 0)
    BY <1>9 DEF Resend
  <2> QED
    BY <1>9, <2>1, <2>2, AddRetryType DEF Resend, ParserState, RetryState
<1>10. ASSUME NEW b \in Backends, Ack(b) PROVE TypeOK'
  BY <1>10 DEF Ack, ParserState, RetryState
<1>11. ASSUME NEW b \in Backends, ParserFault(b) PROVE TypeOK'
  <2>1. 0 \in 0 .. MaxRetries /\ faults' \in 0 .. MaxFaults
    BY <1>11 DEF PipelineAssumption, ParserFault
  <2>2. CASE UNCHANGED <<unread, pel, msg, runread>>
    BY <1>11, <2>1, <2>2 DEF ParserFault, ParserState
  <2>3. CASE /\ \E S \in (SUBSET unread) \ {{}} :
                  /\ unread' = unread \ S
                  /\ pel' = [pel EXCEPT ![b] = @ \cup S]
             /\ UNCHANGED <<msg, runread>>
    BY <1>11, <2>1, <2>3 DEF ParserFault, ParserState
  <2>4. CASE (\E id \in work[b] : AddRetry(id, 0)) /\ UNCHANGED <<unread, pel>>
    BY <1>11, <2>1, <2>4, AddRetryType DEF ParserFault, ParserState
  <2>5. CASE /\ \E id \in work[b] : pel' = [pel EXCEPT ![b] = @ \ {id}]
             /\ UNCHANGED <<unread, msg, runread>>
    BY <1>11, <2>1, <2>5 DEF ParserFault, ParserState
  <2> QED
    BY <1>11, <2>2, <2>3, <2>4, <2>5 DEF ParserFault
<1>12. ASSUME NEW b \in Backends, RetryRead(b) PROVE TypeOK'
  BY <1>12 DEF RetryRead, ParserState, RetryState
<1>13. ASSUME NEW b \in Backends, RetryAnalyse(b) PROVE TypeOK'
  <2>1. \A p \in rwork[b] : msg[p].id \in Ids
    BY MessageType
  <2> QED
    BY <1>13, <2>1 DEF RetryAnalyse, RetryState
<1>14. ASSUME NEW b \in Backends, RetryAnalyseFails(b) PROVE TypeOK'
  <2>1. \A p \in rwork[b] : msg[p].id \in Ids
    BY MessageType
  <2> QED
    BY <1>14, <2>1 DEF RetryAnalyseFails, RetryState
<1>15. ASSUME NEW b \in Backends, RetryResend(b) PROVE TypeOK'
  BY <1>15, SendOnType DEF RetryResend, RetryState
<1>16. ASSUME NEW b \in Backends, RetryAck(b) PROVE TypeOK'
  BY <1>16 DEF RetryAck, RetryState
<1>17. ASSUME NEW b \in Backends, RetryFault(b) PROVE TypeOK'
  <2>1. faults' \in 0 .. MaxFaults
    BY <1>17 DEF PipelineAssumption, RetryFault
  <2>2. CASE UNCHANGED <<msg, runread, rpel, dlq>>
    BY <1>17, <2>1, <2>2 DEF RetryFault, RetryState
  <2>3. CASE /\ \E S \in (SUBSET runread) \ {{}} :
                  /\ runread' = runread \ S
                  /\ rpel' = [rpel EXCEPT ![b] = @ \cup S]
             /\ UNCHANGED <<msg, dlq>>
    BY <1>17, <2>1, <2>3 DEF RetryFault, RetryState
  <2>4. CASE (\E p \in rwork[b] : SendOn(p)) /\ UNCHANGED rpel
    BY <1>17, <2>1, <2>4, SendOnType DEF RetryFault, RetryState
  <2>5. CASE /\ \E p \in rwork[b] : rpel' = [rpel EXCEPT ![b] = @ \ {p}]
             /\ UNCHANGED <<msg, runread, dlq>>
    BY <1>17, <2>1, <2>5 DEF RetryFault, RetryState
  <2> QED
    BY <1>17, <2>2, <2>3, <2>4, <2>5 DEF RetryFault
<1>18. ASSUME NEW b \in Backends, Crash(b) PROVE TypeOK'
  BY <1>18 DEF Crash, ParserState, RetryState, PipelineAssumption
<1>19. ASSUME NEW p \in dlq, ReplayRead(p) PROVE TypeOK'
  BY <1>19 DEF ReplayRead, PipelineAssumption
<1>20. ASSUME NEW p \in dlq, PurgeDLQ(p) PROVE TypeOK'
  BY <1>20 DEF PurgeDLQ
<1>21. ASSUME NEW r \in replays, ReplaySend(r) PROVE TypeOK'
  <2>1. 0 \in 0 .. MaxRetries /\ msg[r.pos].id \in Ids
    BY MessageType DEF PipelineAssumption
  <2>2. /\ msg' \in Seq(Message)
        /\ DOMAIN msg \subseteq DOMAIN msg'
        /\ runread' \subseteq DOMAIN msg'
    BY <1>21, <2>1, AddRetryType DEF ReplaySend
  <2>3. replays' \subseteq [op : 1 .. MaxReplays, pos : DOMAIN msg, stage : {"read", "sent"}]
    BY <1>21 DEF ReplaySend
  <2> QED
    BY <1>21, <2>2, <2>3 DEF ReplaySend
<1>22. ASSUME NEW r \in replays, ReplayDelete(r) PROVE TypeOK'
  BY <1>22 DEF ReplayDelete, PipelineAssumption
<1>23. ASSUME NEW r \in replays, ReplayAborts(r) PROVE TypeOK'
  BY <1>23 DEF ReplayAborts, PipelineAssumption
<1>24. CASE UNCHANGED vars
  BY <1>24 DEF vars
<1> QED
  BY <1>1, <1>2, <1>3, <1>4, <1>5, <1>6, <1>7, <1>8, <1>9, <1>10, <1>11, <1>12, <1>13,
     <1>14, <1>15, <1>16, <1>17, <1>18, <1>19, <1>20, <1>21, <1>22, <1>23, <1>24 DEF Next

\* Every variable keeps its type (TypeOK of Pipeline).
THEOREM TypeCorrect == Spec => []TypeOK
<1>1. PipelineAssumption
  BY PipelineAssumption
<1> QED
  BY <1>1, InitType, NextType, PTL DEF Spec

----------------------------------------------------------------------------
(* What a step does to the entries of the retry and dead-letter streams.   *)

\* A step forgets nothing analysed or discarded, changes no entry, and closes an
\* entry only when something newer stands for it.
KeepsEntries ==
    /\ analysed \subseteq analysed'
    /\ discarded \subseteq discarded'
    /\ \A q \in DOMAIN msg : msg'[q] = msg[q]
    /\ \A q \in Open : q \in Open' \cup discarded' \/ SafeAfter(q, msg[q].id)'

LEMMA OpenMember ==
  /\ \A q : q \in Open <=> q \in runread \/ (\E b \in Backends : q \in rpel[b]) \/ q \in dlq
  /\ \A q : q \in Open' <=> q \in runread' \/ (\E b \in Backends : q \in rpel'[b]) \/ q \in dlq'
BY DEF Open

LEMMA PositionsAreNat == TypeOK => Open \cup discarded \subseteq DOMAIN msg /\ DOMAIN msg \subseteq Nat
<1> SUFFICES ASSUME TypeOK PROVE Open \cup discarded \subseteq DOMAIN msg /\ DOMAIN msg \subseteq Nat
  OBVIOUS
<1>1. Open \cup discarded \subseteq DOMAIN msg
  <2>1. /\ runread \subseteq DOMAIN msg
        /\ \A b \in Backends : rpel[b] \subseteq DOMAIN msg
        /\ dlq \subseteq DOMAIN msg
        /\ discarded \subseteq DOMAIN msg
    BY DEF TypeOK
  <2> QED
    BY <2>1, OpenMember
<1>2. DOMAIN msg = 1 .. Len(msg) /\ Len(msg) \in Nat
  BY DEF TypeOK
<1> QED
  BY <1>1, <1>2

\* What is safe stays safe: the entry that stands for it may be closed, but then a
\* newer one stands for that entry.
LEMMA SafeStable ==
  ASSUME TypeOK, TypeOK', KeepsEntries, NEW p \in Nat, NEW id, SafeAfter(p, id)
  PROVE  SafeAfter(p, id)'
<1>1. CASE id \in analysed
  BY <1>1 DEF SafeAfter, KeepsEntries
<1>2. ASSUME NEW q \in Open \cup discarded, q > p, msg[q].id = id PROVE SafeAfter(p, id)'
  <2>1. q \in DOMAIN msg /\ q \in Nat
    BY PositionsAreNat
  <2>2. msg'[q].id = id
    BY <1>2, <2>1 DEF KeepsEntries
  <2>3. CASE q \in Open' \cup discarded'
    BY <1>2, <2>2, <2>3 DEF SafeAfter
  <2>4. CASE SafeAfter(q, msg[q].id)'
    <3>1. SafeAfter(q, id)'
      BY <1>2, <2>2, <2>4 DEF SafeAfter
    <3>2. (Open \cup discarded)' \subseteq Nat
      <4>1. (Open \cup discarded \subseteq DOMAIN msg /\ DOMAIN msg \subseteq Nat)'
        BY PositionsAreNat, PTL
      <4> QED
        BY <4>1
    <3> QED
      BY <1>2, <2>1, <3>1, <3>2 DEF SafeAfter
  <2> QED
    BY <2>3, <2>4 DEF KeepsEntries
<1> QED
  BY <1>1, <1>2 DEF SafeAfter

\* A step that only opens entries keeps them.
LEMMA OpeningKeeps ==
  ASSUME analysed \subseteq analysed', discarded \subseteq discarded', Open \subseteq Open',
         \A q \in DOMAIN msg : msg'[q] = msg[q]
  PROVE  KeepsEntries
BY DEF KeepsEntries

LEMMA OpenUnchanged ==
  ASSUME UNCHANGED <<msg, runread, rpel, dlq, discarded>>, analysed \subseteq analysed'
  PROVE  KeepsEntries
BY DEF KeepsEntries, Open

\* Adding a retry entry makes its log safe.
LEMMA AddRetrySafe ==
  ASSUME TypeOK, NEW id \in Ids, NEW fc \in 0 .. MaxRetries, AddRetry(id, fc),
         UNCHANGED <<rpel, dlq, discarded, analysed>>
  PROVE  /\ KeepsEntries
         /\ \A p \in {0} \cup DOMAIN msg : SafeAfter(p, id)'
<1>1. /\ NextPos \in runread'
      /\ msg'[NextPos].id = id
      /\ runread \subseteq runread'
      /\ \A q \in DOMAIN msg : q \in Nat /\ q < NextPos /\ msg'[q] = msg[q]
  BY AddRetryType
<1>2. NextPos \in Nat /\ NextPos > 0
  BY DEF NextPos, TypeOK
<1>3. Open \subseteq Open' /\ NextPos \in Open'
  BY <1>1 DEF Open
<1>4. KeepsEntries
  BY <1>1, <1>3, OpeningKeeps
<1>5. \A p \in {0} \cup DOMAIN msg : NextPos > p
  BY <1>1, <1>2
<1> QED
  BY <1>1, <1>3, <1>4, <1>5 DEF SafeAfter

\* Sending a retry entry on makes its log safe without that entry.
LEMMA SendOnSafe ==
  ASSUME TypeOK, PipelineAssumption, NEW p \in DOMAIN msg, SendOn(p),
         UNCHANGED <<rpel, discarded, analysed>>
  PROVE  /\ KeepsEntries
         /\ SafeAfter(p, msg[p].id)'
<1>1. /\ runread \subseteq runread'
      /\ dlq \subseteq dlq'
      /\ NextPos \in runread' \cup dlq'
      /\ msg'[NextPos].id = msg[p].id
      /\ \A q \in DOMAIN msg : q \in Nat /\ q < NextPos /\ msg'[q] = msg[q]
  BY SendOnType
<1>2. Open \subseteq Open' /\ NextPos \in Open'
  <2>1. rpel' = rpel
    OBVIOUS
  <2> QED
    BY <1>1, <2>1, OpenMember
<1>3. KeepsEntries
  BY <1>1, <1>2, OpeningKeeps
<1>4. NextPos > p
  BY <1>1 DEF NextPos, TypeOK
<1>5. msg'[NextPos].id = msg'[p].id
  BY <1>1
<1> QED
  BY <1>2, <1>3, <1>4, <1>5 DEF SafeAfter

\* Every step keeps the entries.
LEMMA NextKeeps ==
  ASSUME PipelineAssumption, IInv, TypeOK', [Next]_vars
  PROVE  KeepsEntries
<1> USE DEF rawVars, retryVars, dlqVars
<1>0. TypeOK
  BY DEF IInv
<1>1. CASE UNCHANGED <<msg, runread, rpel, dlq, discarded>> /\ analysed \subseteq analysed'
  BY <1>1, OpenUnchanged
<1>2. ASSUME NEW id \in Ids, AddRetry(id, 0), UNCHANGED <<rpel, dlq, discarded, analysed>>
      PROVE  KeepsEntries
  <2>1. 0 \in 0 .. MaxRetries
    BY DEF PipelineAssumption
  <2> QED
    BY <1>0, <1>2, <2>1, AddRetrySafe
<1>3. ASSUME NEW b \in Backends, RetryRead(b) PROVE KeepsEntries
  <2>1. Open \subseteq Open'
    BY <1>0, <1>3 DEF RetryRead, Open, TypeOK
  <2> QED
    BY <1>3, <2>1, OpeningKeeps DEF RetryRead
<1>4. ASSUME NEW b \in Backends, NEW p \in rwork[b], SendOn(p),
             UNCHANGED <<rpel, discarded, analysed>>
      PROVE  KeepsEntries
  <2>1. p \in DOMAIN msg
    BY <1>0 DEF TypeOK
  <2> QED
    BY <1>0, <1>4, <2>1, SendOnSafe
<1>5. ASSUME NEW b \in Backends, rpc[b] = "ack", NEW p \in rwork[b], IsOldest(p, rwork[b]),
             rpel' = [rpel EXCEPT ![b] = @ \ {p}],
             UNCHANGED <<msg, runread, dlq, discarded, analysed>>
      PROVE  KeepsEntries
  <2>1. SafeAfter(p, msg[p].id)
    BY <1>5 DEF IInv, RetryAckIsSafe
  <2>2. p \in DOMAIN msg /\ p \in Nat
    BY <1>0, PositionsAreNat DEF TypeOK
  <2>3. \A q \in Open : q \in Open' \/ q = p
    BY <1>0, <1>5 DEF Open, TypeOK
  <2>4. SafeAfter(p, msg[p].id)'
    <3>1. \A q \in Open \cup discarded : q > p => q \in Open' \cup discarded'
      BY <1>5, <2>2, <2>3
    <3> QED
      BY <1>5, <2>1, <3>1 DEF SafeAfter
  <2> QED
    BY <1>5, <2>3, <2>4 DEF KeepsEntries
<1>6. ASSUME NEW r \in replays, ReplayDelete(r) PROVE KeepsEntries
  <2>0. /\ UNCHANGED <<msg, runread, rpel, discarded, analysed>>
        /\ dlq' = dlq \ {r.pos} \/ UNCHANGED dlq
    BY <1>6 DEF ReplayDelete
  <2>1. SafeAfter(r.pos, msg[r.pos].id)
    BY <1>6 DEF IInv, ReplayIsSafe, ReplayDelete
  <2>2. r.pos \in DOMAIN msg /\ r.pos \in Nat
    BY <1>0, PositionsAreNat DEF TypeOK
  <2>3. \A q \in Open : q \in Open' \/ q = r.pos
    BY <2>0, OpenMember
  <2>4. SafeAfter(r.pos, msg[r.pos].id)'
    <3>1. \A q \in Open \cup discarded : q > r.pos => q \in Open' \cup discarded'
      BY <2>0, <2>2, <2>3
    <3> QED
      BY <2>0, <2>1, <3>1 DEF SafeAfter
  <2> QED
    BY <2>0, <2>3, <2>4 DEF KeepsEntries
<1>7. ASSUME NEW p \in dlq, PurgeDLQ(p) PROVE KeepsEntries
  <2>1. \A q \in dlq : q \in dlq' \/ q \in discarded'
    <3>1. dlq \subseteq Nat
      BY <1>0, PositionsAreNat DEF TypeOK
    <3> QED
      BY <1>7, <3>1 DEF PurgeDLQ
  <2>2. UNCHANGED <<msg, runread, rpel, analysed>> /\ discarded \subseteq discarded'
    BY <1>7 DEF PurgeDLQ
  <2>3. \A q \in Open : q \in Open' \cup discarded'
    BY <2>1, <2>2, OpenMember
  <2> QED
    BY <2>2, <2>3 DEF KeepsEntries
<1>8. ASSUME NEW b \in Backends, RetryFault(b) PROVE KeepsEntries
  <2>1. CASE \E S \in (SUBSET runread) \ {{}} :
                /\ runread' = runread \ S
                /\ rpel' = [rpel EXCEPT ![b] = @ \cup S]
                /\ UNCHANGED <<msg, dlq>>
    <3>1. Open \subseteq Open'
      BY <1>0, <1>8, <2>1 DEF Open, TypeOK
    <3> QED
      BY <1>8, <2>1, <3>1, OpeningKeeps DEF RetryFault
  <2> QED
    BY <1>1, <1>4, <1>5, <1>8, <2>1 DEF RetryFault
<1>9. ASSUME NEW b \in Backends, RetryResend(b) \/ RetryAck(b) PROVE KeepsEntries
  BY <1>4, <1>5, <1>9 DEF RetryResend, RetryAck
<1>10. ASSUME NEW b \in Backends, Resend(b) \/ ParserFault(b) PROVE KeepsEntries
  <2>1. work[b] \subseteq Ids
    BY <1>0 DEF TypeOK
  <2> QED
    BY <1>1, <1>2, <1>10, <2>1 DEF Resend, ParserFault
<1>11. CASE Publish \/ PublishToRetry \/ PublishTwice
  <2>1. CASE Publish
    BY <1>1, <2>1 DEF Publish
  <2>2. CASE PublishToRetry
    <3>1. lastId + 1 \in Ids
      BY <1>0, <2>2 DEF PublishToRetry, Ids, TypeOK, PipelineAssumption
    <3> QED
      BY <1>2, <2>2, <3>1 DEF PublishToRetry
  <2>3. CASE PublishTwice
    <3>1. lastId + 2 \in Ids
      BY <1>0, <2>3 DEF PublishTwice, Ids, TypeOK, PipelineAssumption
    <3> QED
      BY <1>2, <2>3, <3>1 DEF PublishTwice
  <2> QED
    BY <1>11, <2>1, <2>2, <2>3
<1>12. ASSUME NEW r \in replays, ReplaySend(r) PROVE KeepsEntries
  <2>1. msg[r.pos].id \in Ids
    BY <1>0, MessageType DEF TypeOK
  <2> QED
    BY <1>2, <1>12, <2>1 DEF ReplaySend
<1>13. ASSUME NEW r \in replays, ReplayAborts(r) PROVE KeepsEntries
  BY <1>1, <1>13 DEF ReplayAborts
<1>14. ASSUME NEW p \in dlq, ReplayRead(p) PROVE KeepsEntries
  BY <1>1, <1>14 DEF ReplayRead
<1>15. ASSUME NEW b \in Backends,
              \/ Start(b) \/ ReadPending(b) \/ ReadNew(b) \/ Analyse(b) \/ AnalyseFails(b)
              \/ Ack(b) \/ RetryAnalyse(b) \/ RetryAnalyseFails(b) \/ Crash(b)
       PROVE  KeepsEntries
  BY <1>1, <1>15 DEF Start, ReadPending, ReadNew, Analyse, AnalyseFails, Ack, RetryAnalyse,
                     RetryAnalyseFails, Crash
<1>16. CASE UNCHANGED vars
  BY <1>1, <1>16 DEF vars
<1> QED
  BY <1>3, <1>6, <1>7, <1>8, <1>9, <1>10, <1>11, <1>12, <1>13, <1>14, <1>15, <1>16 DEF Next

----------------------------------------------------------------------------
(* The parser works on all its name has pending.                           *)

LEMMA PendingIsFinite ==
  ASSUME PipelineAssumption, TypeOK, NEW b \in Backends, NEW S \in SUBSET pel[b]
  PROVE  IsFiniteSet(S) /\ Cardinality(S) \in Nat /\ Cardinality(S) <= Cardinality(pel[b])
         /\ (Cardinality(S) = Cardinality(pel[b]) => S = pel[b])
<1>1. IsFiniteSet(Ids)
  BY FS_Interval DEF Ids, PipelineAssumption
<1>2. pel[b] \subseteq Ids
  BY DEF TypeOK
<1>3. IsFiniteSet(pel[b]) /\ IsFiniteSet(S)
  BY <1>1, <1>2, FS_Subset
<1> QED
  BY <1>3, FS_Subset, FS_CardinalityType

LEMMA NextWorkIsPending ==
  ASSUME PipelineAssumption, TypeOK, TypeOK', WorkIsPending, [Next]_vars
  PROVE  WorkIsPending'
<1> USE DEF rawVars, retryVars, dlqVars
<1>1. CASE UNCHANGED <<pel, pc, work>>
  BY <1>1 DEF WorkIsPending
<1>2. ASSUME NEW b \in Backends, pc' \in [Backends -> ParserState],
             \A c \in Backends \ {b} : pc'[c] = pc[c] /\ work'[c] = work[c] /\ pel'[c] = pel[c],
             Cardinality(pel'[b]) <= BatchSize,
             pc'[b] \in Working => work'[b] = pel'[b],
             pc'[b] = "read" => pel'[b] = {}
      PROVE  WorkIsPending'
  BY <1>2 DEF WorkIsPending
<1>3. ASSUME NEW b \in Backends, Start(b) \/ Crash(b) PROVE WorkIsPending'
  BY <1>3 DEF WorkIsPending, Start, Crash, Working, TypeOK
<1>4. ASSUME NEW b \in Backends, ReadPending(b) PROVE WorkIsPending'
  <2>1. PICK S \in SUBSET pel[b] :
           /\ IsBatchOf(S, pel[b], BatchSize)
           /\ work' = [work EXCEPT ![b] = S]
           /\ pc' = [pc EXCEPT ![b] = IF S = {} THEN "read" ELSE "analyse"]
    BY <1>4 DEF ReadPending
  <2>2. Cardinality(pel[b]) <= BatchSize /\ Cardinality(pel[b]) \in Nat /\ BatchSize \in Nat
    BY PendingIsFinite DEF WorkIsPending, PipelineAssumption
  <2>3. S = pel[b]
    BY <2>1, <2>2, PendingIsFinite DEF IsBatchOf
  <2> QED
    BY <1>4, <2>1, <2>3 DEF WorkIsPending, ReadPending, TypeOK
<1>5. ASSUME NEW b \in Backends, NEW S \in SUBSET unread, pc[b] = "read",
             IsBatchOf(S, unread, BatchSize), pel' = [pel EXCEPT ![b] = @ \cup S]
      PROVE  Cardinality(pel'[b]) <= BatchSize /\ pel'[b] = S
  <2>1. pel'[b] = S
    BY <1>5 DEF WorkIsPending, TypeOK
  <2> QED
    BY <1>5, <2>1 DEF IsBatchOf
<1>6. ASSUME NEW b \in Backends, ReadNew(b) PROVE WorkIsPending'
  <2>1. PICK S \in SUBSET unread : /\ IsBatchOf(S, unread, BatchSize)
                                   /\ pel' = [pel EXCEPT ![b] = @ \cup S]
                                   /\ work' = [work EXCEPT ![b] = S]
    BY <1>6 DEF ReadNew
  <2>2. Cardinality(pel'[b]) <= BatchSize /\ pel'[b] = S
    BY <1>5, <1>6, <2>1 DEF ReadNew
  <2>3. work'[b] = S /\ pc'[b] = "analyse"
    BY <1>6, <2>1 DEF ReadNew, TypeOK
  <2>4. \A c \in Backends \ {b} : pc'[c] = pc[c] /\ work'[c] = work[c] /\ pel'[c] = pel[c]
    BY <1>6, <2>1 DEF ReadNew, TypeOK
  <2> QED
    BY <1>2, <2>2, <2>3, <2>4 DEF TypeOK
<1>7. ASSUME NEW b \in Backends, Analyse(b) \/ AnalyseFails(b) \/ Resend(b) PROVE WorkIsPending'
  BY <1>7 DEF WorkIsPending, Analyse, AnalyseFails, Resend, Working, TypeOK
<1>8. ASSUME NEW b \in Backends, NEW id \in work[b], pel' = [pel EXCEPT ![b] = @ \ {id}]
      PROVE  Cardinality(pel'[b]) <= BatchSize
  <2>1. pel'[b] \in SUBSET pel[b]
    BY <1>8 DEF TypeOK
  <2>2. Cardinality(pel[b]) <= BatchSize /\ BatchSize \in Nat
    BY DEF WorkIsPending, PipelineAssumption
  <2>3. /\ Cardinality(pel'[b]) \in Nat
        /\ Cardinality(pel[b]) \in Nat
        /\ Cardinality(pel'[b]) <= Cardinality(pel[b])
    BY <2>1, PendingIsFinite
  <2> QED
    BY <2>2, <2>3
<1>9. ASSUME NEW b \in Backends, Ack(b) PROVE WorkIsPending'
  <2>1. PICK id \in work[b] : /\ pel' = [pel EXCEPT ![b] = @ \ {id}]
                              /\ work' = [work EXCEPT ![b] = @ \ {id}]
    BY <1>9 DEF Ack
  <2>2. Cardinality(pel'[b]) <= BatchSize
    BY <1>8, <2>1
  <2>3. work[b] = pel[b]
    BY <1>9 DEF Ack, WorkIsPending, Working
  <2>4. /\ pel'[b] = work'[b]
        /\ \A c \in Backends \ {b} : /\ pc'[c] = pc[c]
                                      /\ work'[c] = work[c]
                                      /\ pel'[c] = pel[c]
    BY <1>9, <2>1, <2>3 DEF Ack, TypeOK
  <2>5. pc'[b] = "read" => work'[b] = {}
    BY <1>9 DEF Ack, TypeOK
  <2> QED
    BY <1>2, <2>2, <2>4, <2>5 DEF TypeOK
<1>10. ASSUME NEW b \in Backends, ParserFault(b) PROVE WorkIsPending'
  <2>1. /\ pc' = [pc EXCEPT ![b] = "stopped"]
        /\ work' = [work EXCEPT ![b] = {}]
    BY <1>10 DEF ParserFault
  <2>2. \A c \in Backends \ {b} : pc'[c] = pc[c] /\ work'[c] = work[c]
    BY <2>1 DEF TypeOK
  <2>3. pc'[b] = "stopped"
    BY <2>1 DEF TypeOK
  <2>4. Cardinality(pel'[b]) <= BatchSize
    <3>1. CASE UNCHANGED pel
      BY <3>1 DEF WorkIsPending
    <3>2. CASE /\ pc[b] = "read"
               /\ \E S \in (SUBSET unread) \ {{}} :
                     /\ IsBatchOf(S, unread, BatchSize)
                     /\ pel' = [pel EXCEPT ![b] = @ \cup S]
      BY <1>5, <3>2
    <3>3. CASE \E id \in work[b] : pel' = [pel EXCEPT ![b] = @ \ {id}]
      BY <1>8, <3>3
    <3> QED
      BY <1>10, <3>1, <3>2, <3>3 DEF ParserFault
  <2>5. \A c \in Backends \ {b} : pel'[c] = pel[c]
    BY <1>10 DEF ParserFault, TypeOK
  <2> QED
    BY <1>2, <2>2, <2>3, <2>4, <2>5 DEF TypeOK, Working
<1>11. CASE Publish \/ PublishToRetry \/ PublishTwice
  BY <1>1, <1>11 DEF Publish, PublishToRetry, PublishTwice
<1>12. ASSUME NEW b \in Backends,
              \/ RetryRead(b) \/ RetryAnalyse(b) \/ RetryAnalyseFails(b) \/ RetryResend(b)
              \/ RetryAck(b) \/ RetryFault(b)
       PROVE  WorkIsPending'
  BY <1>1, <1>12 DEF RetryRead, RetryAnalyse, RetryAnalyseFails, RetryResend, RetryAck, RetryFault
<1>13. ASSUME NEW p \in dlq, ReplayRead(p) \/ PurgeDLQ(p) PROVE WorkIsPending'
  BY <1>1, <1>13 DEF ReplayRead, PurgeDLQ
<1>14. ASSUME NEW r \in replays, ReplaySend(r) \/ ReplayDelete(r) \/ ReplayAborts(r)
       PROVE  WorkIsPending'
  BY <1>1, <1>14 DEF ReplaySend, ReplayDelete, ReplayAborts
<1>15. CASE UNCHANGED vars
  BY <1>1, <1>15 DEF vars
<1> QED
  BY <1>3, <1>4, <1>6, <1>7, <1>9, <1>10, <1>11, <1>12, <1>13, <1>14, <1>15 DEF Next

----------------------------------------------------------------------------
(* What is acknowledged or deleted is safe.                                *)

LEMMA NextAckIsSafe ==
  ASSUME PipelineAssumption, TypeOK, TypeOK', WorkIsPending, AckIsSafe, KeepsEntries, [Next]_vars
  PROVE  AckIsSafe'
<1> USE DEF rawVars, retryVars, dlqVars
<1>1. \A id : SafeAfter(0, id) => SafeAfter(0, id)'
  BY SafeStable
<1>2. analysed \subseteq analysed'
  BY DEF KeepsEntries
<1>3. CASE UNCHANGED <<pc, work>>
  BY <1>1, <1>2, <1>3 DEF AckIsSafe, IsOldest
<1>4. ASSUME NEW b \in Backends,
             \A c \in Backends \ {b} : pc'[c] = pc[c] /\ work'[c] = work[c],
             pc'[b] = "ack" => work'[b] \subseteq analysed',
             pc'[b] = "fack" => \A id \in work'[b] : IsOldest(id, work'[b]) => SafeAfter(0, id)'
      PROVE  AckIsSafe'
  BY <1>1, <1>2, <1>4 DEF AckIsSafe, IsOldest
<1>5. ASSUME NEW b \in Backends,
             \A c \in Backends \ {b} : pc'[c] = pc[c] /\ work'[c] = work[c],
             pc'[b] \notin {"ack", "fack"}
      PROVE  AckIsSafe'
  BY <1>4, <1>5
<1>6. ASSUME NEW b \in Backends,
             \/ Start(b) \/ ReadPending(b) \/ ReadNew(b) \/ AnalyseFails(b)
             \/ ParserFault(b) \/ Crash(b)
      PROVE  AckIsSafe'
  <2>1. /\ \A c \in Backends \ {b} : pc'[c] = pc[c] /\ work'[c] = work[c]
        /\ pc'[b] \notin {"ack", "fack"}
    BY <1>6 DEF Start, ReadPending, ReadNew, AnalyseFails, ParserFault, Crash, TypeOK
  <2> QED
    BY <1>5, <2>1
<1>7. ASSUME NEW b \in Backends, Analyse(b) PROVE AckIsSafe'
  <2>1. /\ \A c \in Backends \ {b} : pc'[c] = pc[c] /\ work'[c] = work[c]
        /\ pc'[b] = "ack" => work'[b] \subseteq analysed'
        /\ pc'[b] # "fack"
    BY <1>7 DEF Analyse, TypeOK
  <2> QED
    BY <1>4, <2>1
<1>8. ASSUME NEW b \in Backends, Resend(b) PROVE AckIsSafe'
  <2>1. PICK id \in work[b] : IsOldest(id, work[b]) /\ AddRetry(id, 0)
    BY <1>8 DEF Resend
  <2>2. id \in Ids /\ 0 \in 0 .. MaxRetries
    BY DEF TypeOK, PipelineAssumption
  <2>3. SafeAfter(0, id)'
    BY <1>8, <2>1, <2>2, AddRetrySafe DEF Resend
  <2>4. \A x \in work[b] : IsOldest(x, work[b]) => x = id
    BY <2>1 DEF IsOldest, TypeOK, Ids
  <2>5. /\ \A c \in Backends \ {b} : pc'[c] = pc[c] /\ work'[c] = work[c]
        /\ pc'[b] = "fack"
        /\ work'[b] = work[b]
    BY <1>8 DEF Resend, TypeOK
  <2> QED
    BY <1>4, <2>3, <2>4, <2>5 DEF IsOldest
<1>9. ASSUME NEW b \in Backends, Ack(b) PROVE AckIsSafe'
  <2>1. /\ \A c \in Backends \ {b} : pc'[c] = pc[c] /\ work'[c] = work[c]
        /\ work'[b] \subseteq work[b]
        /\ pc'[b] = "ack" => pc[b] = "ack"
        /\ pc'[b] # "fack"
    BY <1>9 DEF Ack, TypeOK
  <2> QED
    BY <1>2, <1>4, <2>1 DEF AckIsSafe
<1>10. CASE Publish \/ PublishToRetry \/ PublishTwice
  BY <1>3, <1>10 DEF Publish, PublishToRetry, PublishTwice
<1>11. ASSUME NEW b \in Backends,
              \/ RetryRead(b) \/ RetryAnalyse(b) \/ RetryAnalyseFails(b) \/ RetryResend(b)
              \/ RetryAck(b) \/ RetryFault(b)
       PROVE  AckIsSafe'
  BY <1>3, <1>11 DEF RetryRead, RetryAnalyse, RetryAnalyseFails, RetryResend, RetryAck, RetryFault
<1>12. ASSUME NEW p \in dlq, ReplayRead(p) \/ PurgeDLQ(p) PROVE AckIsSafe'
  BY <1>3, <1>12 DEF ReplayRead, PurgeDLQ
<1>13. ASSUME NEW r \in replays, ReplaySend(r) \/ ReplayDelete(r) \/ ReplayAborts(r)
       PROVE  AckIsSafe'
  BY <1>3, <1>13 DEF ReplaySend, ReplayDelete, ReplayAborts
<1>14. CASE UNCHANGED vars
  BY <1>3, <1>14 DEF vars
<1> QED
  BY <1>6, <1>7, <1>8, <1>9, <1>10, <1>11, <1>12, <1>13, <1>14 DEF Next

LEMMA NextRetryAckIsSafe ==
  ASSUME PipelineAssumption, TypeOK, TypeOK', RetryAckIsSafe, KeepsEntries, [Next]_vars
  PROVE  RetryAckIsSafe'
<1> USE DEF rawVars, retryVars, dlqVars
<1>1. /\ DOMAIN msg \subseteq Nat
      /\ \A b \in Backends : rwork[b] \subseteq DOMAIN msg
      /\ \A p \in DOMAIN msg : msg'[p] = msg[p]
  BY PositionsAreNat DEF KeepsEntries, TypeOK
<1>2. \A p \in DOMAIN msg : SafeAfter(p, msg[p].id) => SafeAfter(p, msg[p].id)'
  <2> SUFFICES ASSUME NEW p \in DOMAIN msg, SafeAfter(p, msg[p].id)
               PROVE  SafeAfter(p, msg[p].id)'
    OBVIOUS
  <2>1. \E id : id = msg[p].id
    OBVIOUS
  <2>2. PICK id : id = msg[p].id
    BY <2>1
  <2>3. SafeAfter(p, id)'
    BY <1>1, <2>2, SafeStable
  <2>4. id = msg'[p].id
    BY <1>1, <2>2
  <2> QED
    BY <2>3, <2>4 DEF SafeAfter
<1>3. ASSUME NEW b \in Backends,
             \A c \in Backends \ {b} : rpc'[c] = rpc[c] /\ rwork'[c] = rwork[c],
             rpc'[b] = "ack" =>
                \A p \in rwork'[b] : IsOldest(p, rwork'[b]) => SafeAfter(p, msg[p].id)'
      PROVE  RetryAckIsSafe'
  BY <1>1, <1>2, <1>3 DEF RetryAckIsSafe, IsOldest
<1>4. CASE UNCHANGED <<rpc, rwork>>
  BY <1>1, <1>2, <1>4 DEF RetryAckIsSafe, IsOldest
<1>5. ASSUME NEW b \in Backends,
             \/ Start(b) \/ Crash(b) \/ RetryRead(b) \/ RetryAnalyseFails(b) \/ RetryAck(b)
             \/ RetryFault(b)
      PROVE  RetryAckIsSafe'
  <2>1. /\ \A c \in Backends \ {b} : rpc'[c] = rpc[c] /\ rwork'[c] = rwork[c]
        /\ rpc'[b] # "ack"
    BY <1>5 DEF Start, Crash, RetryRead, RetryAnalyseFails, RetryAck, RetryFault, TypeOK
  <2> QED
    BY <1>3, <2>1
<1>6. ASSUME NEW b \in Backends, NEW p \in rwork[b], IsOldest(p, rwork[b])
      PROVE  \A q \in rwork[b] : IsOldest(q, rwork[b]) => q = p
  BY <1>1, <1>6 DEF IsOldest
<1>7. ASSUME NEW b \in Backends, RetryAnalyse(b) PROVE RetryAckIsSafe'
  <2>1. PICK p \in rwork[b] : IsOldest(p, rwork[b]) /\ analysed' = analysed \cup {msg[p].id}
    BY <1>7 DEF RetryAnalyse
  <2>2. SafeAfter(p, msg[p].id)'
    BY <1>7, <2>1 DEF RetryAnalyse, SafeAfter
  <2>3. /\ \A c \in Backends \ {b} : rpc'[c] = rpc[c] /\ rwork'[c] = rwork[c]
        /\ rwork'[b] = rwork[b]
    BY <1>7 DEF RetryAnalyse, TypeOK
  <2> QED
    BY <1>3, <1>6, <2>1, <2>2, <2>3
<1>8. ASSUME NEW b \in Backends, RetryResend(b) PROVE RetryAckIsSafe'
  <2>1. PICK p \in rwork[b] : IsOldest(p, rwork[b]) /\ SendOn(p)
    BY <1>8 DEF RetryResend
  <2>2. p \in DOMAIN msg
    BY <1>1
  <2>3. SafeAfter(p, msg[p].id)'
    BY <1>8, <2>1, <2>2, SendOnSafe DEF RetryResend
  <2>4. /\ \A c \in Backends \ {b} : rpc'[c] = rpc[c] /\ rwork'[c] = rwork[c]
        /\ rwork'[b] = rwork[b]
    BY <1>8 DEF RetryResend, TypeOK
  <2> QED
    BY <1>3, <1>6, <2>1, <2>3, <2>4
<1>9. CASE Publish \/ PublishToRetry \/ PublishTwice
  BY <1>4, <1>9 DEF Publish, PublishToRetry, PublishTwice
<1>10. ASSUME NEW b \in Backends,
              \/ ReadPending(b) \/ ReadNew(b) \/ Analyse(b) \/ AnalyseFails(b) \/ Resend(b)
              \/ Ack(b) \/ ParserFault(b)
       PROVE  RetryAckIsSafe'
  BY <1>4, <1>10 DEF ReadPending, ReadNew, Analyse, AnalyseFails, Resend, Ack, ParserFault
<1>11. ASSUME NEW p \in dlq, ReplayRead(p) \/ PurgeDLQ(p) PROVE RetryAckIsSafe'
  BY <1>4, <1>11 DEF ReplayRead, PurgeDLQ
<1>12. ASSUME NEW r \in replays, ReplaySend(r) \/ ReplayDelete(r) \/ ReplayAborts(r)
       PROVE  RetryAckIsSafe'
  BY <1>4, <1>12 DEF ReplaySend, ReplayDelete, ReplayAborts
<1>13. CASE UNCHANGED vars
  BY <1>4, <1>13 DEF vars
<1> QED
  BY <1>5, <1>7, <1>8, <1>9, <1>10, <1>11, <1>12, <1>13 DEF Next

LEMMA NextReplayIsSafe ==
  ASSUME PipelineAssumption, TypeOK, TypeOK', ReplayIsSafe, KeepsEntries, [Next]_vars
  PROVE  ReplayIsSafe'
<1> USE DEF rawVars, retryVars, dlqVars
<1>1. /\ DOMAIN msg \subseteq Nat
      /\ \A p \in DOMAIN msg : msg'[p] = msg[p]
      /\ \A r \in replays : r.pos \in DOMAIN msg
  BY PositionsAreNat DEF KeepsEntries, TypeOK
<1>2. \A p \in DOMAIN msg : SafeAfter(p, msg[p].id) => SafeAfter(p, msg[p].id)'
  <2> SUFFICES ASSUME NEW p \in DOMAIN msg, SafeAfter(p, msg[p].id)
               PROVE  SafeAfter(p, msg[p].id)'
    OBVIOUS
  <2>1. PICK id : id = msg[p].id
    OBVIOUS
  <2>2. SafeAfter(p, id)'
    BY <1>1, <2>1, SafeStable
  <2>3. id = msg'[p].id
    BY <1>1, <2>1
  <2> QED
    BY <2>2, <2>3 DEF SafeAfter
<1>3. CASE \A r \in replays' : r.stage = "sent" => r \in replays
  BY <1>1, <1>2, <1>3 DEF ReplayIsSafe
<1>4. ASSUME NEW p \in dlq, ReplayRead(p) PROVE ReplayIsSafe'
  BY <1>3, <1>4 DEF ReplayRead
<1>5. ASSUME NEW r \in replays, ReplaySend(r) PROVE ReplayIsSafe'
  <2>1. msg[r.pos].id \in Ids /\ 0 \in 0 .. MaxRetries
    BY <1>1, MessageType DEF PipelineAssumption
  <2>2. SafeAfter(r.pos, msg[r.pos].id)'
    <3>1. PICK id : id = msg[r.pos].id
      OBVIOUS
    <3>2. SafeAfter(r.pos, id)'
      BY <1>1, <1>5, <2>1, <3>1, AddRetrySafe DEF ReplaySend
    <3>3. id = msg'[r.pos].id
      BY <1>1, <3>1
    <3> QED
      BY <3>2, <3>3 DEF SafeAfter
  <2>3. \A x \in replays' : x \in replays \/ x.pos = r.pos
    BY <1>5 DEF ReplaySend, TypeOK
  <2> QED
    BY <1>1, <1>2, <2>2, <2>3 DEF ReplayIsSafe
<1>6. ASSUME NEW r \in replays, ReplayDelete(r) \/ ReplayAborts(r) PROVE ReplayIsSafe'
  BY <1>3, <1>6 DEF ReplayDelete, ReplayAborts
<1>7. ASSUME NEW p \in dlq, PurgeDLQ(p) PROVE ReplayIsSafe'
  BY <1>3, <1>7 DEF PurgeDLQ
<1>8. CASE Publish \/ PublishToRetry \/ PublishTwice
  BY <1>3, <1>8 DEF Publish, PublishToRetry, PublishTwice
<1>9. ASSUME NEW b \in Backends,
             \/ Start(b) \/ ReadPending(b) \/ ReadNew(b) \/ Analyse(b) \/ AnalyseFails(b)
             \/ Resend(b) \/ Ack(b) \/ ParserFault(b) \/ Crash(b)
      PROVE  ReplayIsSafe'
  BY <1>3, <1>9 DEF Start, ReadPending, ReadNew, Analyse, AnalyseFails, Resend, Ack,
                    ParserFault, Crash
<1>10. ASSUME NEW b \in Backends,
              \/ RetryRead(b) \/ RetryAnalyse(b) \/ RetryAnalyseFails(b) \/ RetryResend(b)
              \/ RetryAck(b) \/ RetryFault(b)
       PROVE  ReplayIsSafe'
  BY <1>3, <1>10 DEF RetryRead, RetryAnalyse, RetryAnalyseFails, RetryResend, RetryAck, RetryFault
<1>11. CASE UNCHANGED vars
  BY <1>3, <1>11 DEF vars
<1> QED
  BY <1>4, <1>5, <1>6, <1>7, <1>8, <1>9, <1>10, <1>11 DEF Next

----------------------------------------------------------------------------
(* No accepted log is lost.                                                *)

LEMMA NextNoLoss ==
  ASSUME PipelineAssumption, TypeOK, TypeOK', WorkIsPending, AckIsSafe, NoLoss, KeepsEntries,
         [Next]_vars
  PROVE  NoLoss'
<1> USE DEF rawVars, retryVars, dlqVars
<1>1. \A id : SafeAfter(0, id) => SafeAfter(0, id)'
  BY SafeStable
<1>2. \A id : id \in Pending <=> \E b \in Backends : id \in pel[b]
  BY DEF Pending
<1>3. \A id : id \in Pending' <=> \E b \in Backends : id \in pel'[b]
  BY DEF Pending
<1>4. CASE UNCHANGED <<lastId, unread, pel, dropped>>
  BY <1>1, <1>2, <1>3, <1>4 DEF NoLoss
<1>5. ASSUME NEW id \in Nat, AddRaw(id), UNCHANGED pel
      PROVE  /\ unread \cup dropped \subseteq unread' \cup dropped'
             /\ id \in unread'
             /\ Pending' = Pending
  BY <1>5 DEF AddRaw, Pending, TypeOK
<1>6. ASSUME NEW id \in Nat, lastId' = id, id = lastId + 1, AddRaw(id), UNCHANGED pel
      PROVE  NoLoss'
  <2>1. lastId \in Nat
    BY DEF TypeOK
  <2>2. \A x \in 1 .. lastId' : x \in 1 .. lastId \/ x = id
    BY <1>6, <2>1
  <2> QED
    BY <1>1, <1>5, <1>6, <2>2 DEF NoLoss
<1>7. CASE Publish
  <2>1. PICK id \in Nat : id = lastId + 1
    BY DEF TypeOK
  <2> QED
    BY <1>6, <1>7, <2>1 DEF Publish
<1>8. CASE PublishToRetry
  <2>1. PICK id \in Ids : id = lastId + 1
    BY <1>8 DEF PublishToRetry, TypeOK, Ids, PipelineAssumption
  <2>2. SafeAfter(0, id)'
    BY <1>8, <2>1, AddRetrySafe DEF PublishToRetry, PipelineAssumption
  <2>3. lastId \in Nat /\ lastId' = id
    BY <1>8, <2>1 DEF PublishToRetry, TypeOK
  <2>4. \A x \in 1 .. lastId' : x \in 1 .. lastId \/ x = id
    BY <2>1, <2>3
  <2> QED
    BY <1>1, <1>2, <1>3, <1>8, <2>2, <2>4 DEF NoLoss, PublishToRetry
<1>9. CASE PublishTwice
  <2>1. PICK id \in Ids : id = lastId + 1
    BY <1>9 DEF PublishTwice, TypeOK, Ids, PipelineAssumption
  <2>2. PICK id2 \in Ids : id2 = lastId + 2
    BY <1>9 DEF PublishTwice, TypeOK, Ids, PipelineAssumption
  <2>3. SafeAfter(0, id2)'
    BY <1>9, <2>2, AddRetrySafe DEF PublishTwice, PipelineAssumption
  <2>4. /\ unread \cup dropped \subseteq unread' \cup dropped'
        /\ id \in unread'
        /\ Pending' = Pending
    BY <1>5, <1>9, <2>1 DEF PublishTwice, Ids
  <2>5. lastId \in Nat /\ lastId' = lastId + 2
    BY <1>9 DEF PublishTwice, TypeOK
  <2>6. \A x \in 1 .. lastId' : x \in 1 .. lastId \/ x = id \/ x = id2
    BY <2>1, <2>2, <2>5
  <2> QED
    BY <1>1, <2>3, <2>4, <2>6 DEF NoLoss
<1>10. ASSUME NEW b \in Backends, ReadPending(b) PROVE NoLoss'
  <2>1. UNCHANGED <<lastId, unread, pel>> /\ dropped \subseteq dropped'
    BY <1>10 DEF ReadPending
  <2> QED
    BY <1>1, <1>2, <1>3, <2>1 DEF NoLoss
<1>11. ASSUME NEW b \in Backends, NEW S \in SUBSET unread, unread' = unread \ S,
              pel' = [pel EXCEPT ![b] = @ \cup S], UNCHANGED <<lastId, dropped>>
       PROVE  NoLoss'
  <2>1. \A id : id \in unread \cup Pending => id \in unread' \cup Pending'
    <3>1. /\ \A c \in Backends : pel[c] \subseteq pel'[c]
          /\ S \subseteq pel'[b]
      BY <1>11 DEF TypeOK
    <3> QED
      BY <1>2, <1>3, <1>11, <3>1
  <2> QED
    BY <1>1, <1>11, <2>1 DEF NoLoss
<1>12. ASSUME NEW b \in Backends, pc[b] \in {"ack", "fack"}, NEW id \in work[b],
              IsOldest(id, work[b]), pel' = [pel EXCEPT ![b] = @ \ {id}],
              UNCHANGED <<lastId, unread, dropped>>
       PROVE  NoLoss'
  <2>1. SafeAfter(0, id)
    BY <1>12 DEF AckIsSafe, SafeAfter
  <2>2. \A x : x \in Pending => x \in Pending' \/ x = id
    <3>1. \A c \in Backends : pel[c] \subseteq pel'[c] \cup {id}
      BY <1>12 DEF TypeOK
    <3> QED
      BY <1>2, <1>3, <3>1
  <2> QED
    BY <1>1, <1>12, <2>1, <2>2 DEF NoLoss
<1>13. ASSUME NEW b \in Backends, ReadNew(b) \/ Ack(b) PROVE NoLoss'
  BY <1>11, <1>12, <1>13 DEF ReadNew, Ack
<1>14. ASSUME NEW b \in Backends, ParserFault(b) PROVE NoLoss'
  <2>1. UNCHANGED <<lastId, dropped>>
    BY <1>14 DEF ParserFault
  <2> QED
    BY <1>4, <1>11, <1>12, <1>14, <2>1 DEF ParserFault
<1>15. ASSUME NEW b \in Backends,
              \/ Start(b) \/ Analyse(b) \/ AnalyseFails(b) \/ Resend(b) \/ Crash(b)
       PROVE  NoLoss'
  BY <1>4, <1>15 DEF Start, Analyse, AnalyseFails, Resend, Crash
<1>16. ASSUME NEW b \in Backends,
              \/ RetryRead(b) \/ RetryAnalyse(b) \/ RetryAnalyseFails(b) \/ RetryResend(b)
              \/ RetryAck(b) \/ RetryFault(b)
       PROVE  NoLoss'
  BY <1>4, <1>16 DEF RetryRead, RetryAnalyse, RetryAnalyseFails, RetryResend, RetryAck, RetryFault
<1>17. ASSUME NEW p \in dlq, ReplayRead(p) \/ PurgeDLQ(p) PROVE NoLoss'
  BY <1>4, <1>17 DEF ReplayRead, PurgeDLQ
<1>18. ASSUME NEW r \in replays, ReplaySend(r) \/ ReplayDelete(r) \/ ReplayAborts(r)
       PROVE  NoLoss'
  BY <1>4, <1>18 DEF ReplaySend, ReplayDelete, ReplayAborts
<1>19. CASE UNCHANGED vars
  BY <1>4, <1>19 DEF vars
<1> QED
  BY <1>7, <1>8, <1>9, <1>10, <1>13, <1>14, <1>15, <1>16, <1>17, <1>18, <1>19 DEF Next

----------------------------------------------------------------------------
LEMMA InitIInv == PipelineAssumption /\ Init => IInv
<1> SUFFICES ASSUME PipelineAssumption, Init PROVE IInv
  OBVIOUS
<1>1. TypeOK
  BY InitType
<1>2. WorkIsPending
  BY FS_EmptySet DEF Init, WorkIsPending, Working, PipelineAssumption
<1>3. AckIsSafe /\ RetryAckIsSafe /\ ReplayIsSafe /\ NoLoss
  BY DEF Init, AckIsSafe, RetryAckIsSafe, ReplayIsSafe, NoLoss
<1> QED
  BY <1>1, <1>2, <1>3 DEF IInv

LEMMA NextIInv == PipelineAssumption /\ IInv /\ [Next]_vars => IInv'
<1> SUFFICES ASSUME PipelineAssumption, IInv, [Next]_vars PROVE IInv'
  OBVIOUS
<1>1. /\ TypeOK
      /\ WorkIsPending
      /\ AckIsSafe
      /\ RetryAckIsSafe
      /\ ReplayIsSafe
      /\ NoLoss
  BY DEF IInv
<1>2. TypeOK'
  BY <1>1, NextType
<1>3. KeepsEntries
  BY <1>2, NextKeeps
<1> QED
  BY <1>1, <1>2, <1>3, NextWorkIsPending, NextAckIsSafe, NextRetryAckIsSafe, NextReplayIsSafe,
     NextNoLoss DEF IInv

THEOREM Invariance == Spec => []IInv
<1>1. PipelineAssumption
  BY PipelineAssumption
<1> QED
  BY <1>1, InitIInv, NextIInv, PTL DEF Spec

\* No accepted log is lost, whatever fails and whichever backends crash.
THEOREM NothingLost == Spec => []NoLoss
<1>1. IInv => NoLoss
  BY DEF IInv
<1> QED
  BY <1>1, Invariance, PTL

\* A parser goroutine never reads new entries with entries of its name pending.
THEOREM NoneLeftBehind == Spec => []NothingLeftBehind
<1>1. IInv => NothingLeftBehind
  BY DEF IInv, WorkIsPending, NothingLeftBehind
<1> QED
  BY <1>1, Invariance, PTL

----------------------------------------------------------------------------
(* The promise of Delivery.  Only what is queued can be handled, shed, or  *)
(* sent on; and what nobody has read yet was never queued before.          *)

Held(id) == id \in Pending \/ \E q \in RetryPending : msg[q].id = id
Named(id) == \E q \in DOMAIN msg : msg[q].id = id

\* Ids are given out in order, and used from then on only.
BornInv ==
    /\ \A id \in unread \cup Pending \cup analysed \cup dropped : id <= lastId
    /\ \A id : Named(id) => id <= lastId

\* An id that is unread is nowhere else.
UnreadInv == \A id \in unread : id \notin analysed /\ ~Held(id) /\ ~Named(id)

\* The retry goroutine works on what it has not acknowledged.
RetryWorkInv == \A b \in Backends : rwork[b] \subseteq rpel[b]

DInv == IInv /\ BornInv /\ UnreadInv /\ RetryWorkInv

Fresh == lastId + 1 .. lastId'

\* Where a step takes from what it adds.
Sources ==
    /\ lastId' \in Nat /\ lastId <= lastId'
    /\ dropped \subseteq dropped' /\ analysed \subseteq analysed'
    /\ unread' \subseteq unread \cup Fresh
    /\ Pending' \subseteq Pending \cup (unread \ unread')
    /\ \A id \in analysed' \ analysed : Held(id)
    /\ \A id \in dropped' \ dropped : id \in unread \cup Pending /\ id \notin analysed
    /\ \A p \in DOMAIN msg' : \/ p \in DOMAIN msg /\ msg'[p] = msg[p]
                             \/ msg'[p].id \in Fresh \ unread'
                             \/ Held(msg'[p].id) \/ Named(msg'[p].id)
    /\ \A p \in dlq' \ dlq : Held(msg'[p].id)
    /\ \A p \in dlq : msg'[p] = msg[p]
    /\ \A id \in Fresh : Queued(id)'

LEMMA PendingMember ==
  /\ \A id : id \in Pending <=> \E b \in Backends : id \in pel[b]
  /\ \A id : id \in Pending' <=> \E b \in Backends : id \in pel'[b]
  /\ \A p : p \in RetryPending <=> \E b \in Backends : p \in rpel[b]
BY DEF Pending, RetryPending

LEMMA AppendedEntry ==
  ASSUME TypeOK, NEW m, msg' = Append(msg, m)
  PROVE  /\ DOMAIN msg' = DOMAIN msg \cup {NextPos} /\ NextPos \notin DOMAIN msg
         /\ msg'[NextPos] = m /\ \A q \in DOMAIN msg : msg'[q] = msg[q]
<1>1. msg \in Seq(Message) /\ Len(msg) \in Nat /\ DOMAIN msg = 1 .. Len(msg)
  BY DEF TypeOK
<1> QED
  BY <1>1 DEF NextPos

\* A step that touches none of it, but for what it takes away.
LEMMA QuietSources ==
  ASSUME TypeOK, UNCHANGED <<lastId, unread, dropped, msg, analysed>>, dlq' \subseteq dlq,
         Pending' \subseteq Pending
  PROVE  Sources
<1>1. lastId \in Nat /\ Fresh = {}
  BY DEF Fresh, TypeOK
<1> QED
  BY <1>1 DEF Sources

\* A step that adds an entry for a log it already knows.
LEMMA EntrySources ==
  ASSUME TypeOK, UNCHANGED <<lastId, unread, dropped, analysed>>, Pending' \subseteq Pending,
         NEW id, NEW fc, NEW to, msg' = Append(msg, Entry(id, fc, to)),
         Held(id) \/ (Named(id) /\ dlq' \subseteq dlq),
         dlq' \subseteq dlq \cup {NextPos}
  PROVE  Sources
<1>1. lastId \in Nat /\ Fresh = {}
  BY DEF Fresh, TypeOK
<1>2. /\ DOMAIN msg' = DOMAIN msg \cup {NextPos} /\ NextPos \notin DOMAIN msg
      /\ msg'[NextPos].id = id /\ \A q \in DOMAIN msg : msg'[q] = msg[q]
  BY AppendedEntry DEF Entry
<1>3. dlq \subseteq DOMAIN msg
  BY DEF TypeOK
<1> QED
  BY <1>1, <1>2, <1>3 DEF Sources

\* A step that moves unread entries to a consumer.
LEMMA ReadSources ==
  ASSUME TypeOK, UNCHANGED <<lastId, dropped, msg, analysed, dlq>>,
         NEW b \in Backends, NEW S \in SUBSET unread, unread' = unread \ S,
         pel' = [pel EXCEPT ![b] = @ \cup S]
  PROVE  Sources
<1>1. lastId \in Nat /\ Fresh = {}
  BY DEF Fresh, TypeOK
<1>2. Pending' \subseteq Pending \cup (unread \ unread')
  BY PendingMember DEF TypeOK
<1> QED
  BY <1>1, <1>2 DEF Sources

LEMMA AckSources ==
  ASSUME TypeOK, UNCHANGED <<lastId, unread, dropped, msg, analysed, dlq>>,
         NEW b \in Backends, NEW id, pel' = [pel EXCEPT ![b] = @ \ {id}]
  PROVE  Sources
<1>1. Pending' \subseteq Pending
  BY PendingMember DEF TypeOK
<1> QED
  BY <1>1, QuietSources

LEMMA SendOnSources ==
  ASSUME TypeOK, RetryWorkInv, UNCHANGED <<lastId, unread, pel, dropped, analysed>>,
         NEW b \in Backends, NEW p \in rwork[b], SendOn(p)
  PROVE  Sources
<1>1. Held(msg[p].id)
  BY PendingMember DEF RetryWorkInv, Held
<1>2. Pending' = Pending
  BY DEF Pending
<1>3. CASE msg' = Append(msg, Entry(msg[p].id, 0, "dlq")) /\ dlq' = dlq \cup {NextPos}
  BY <1>1, <1>2, <1>3, EntrySources
<1>4. CASE AddRetry(msg[p].id, msg[p].fc + 1) /\ UNCHANGED dlq
  BY <1>1, <1>2, <1>4, EntrySources DEF AddRetry
<1> QED
  BY <1>3, <1>4 DEF SendOn

\* XADD, and what it trims.
LEMMA AddRawSources ==
  ASSUME TypeOK, UnreadInv, NEW id, id = lastId + 1, AddRaw(id)
  PROVE  /\ unread' \subseteq unread \cup {id} /\ id \in unread' /\ dropped \subseteq dropped'
         /\ \A x \in dropped' \ dropped : x \in unread /\ x \notin analysed
BY DEF AddRaw, UnreadInv

LEMMA PublishSources ==
  ASSUME PipelineAssumption, DInv, TypeOK', Publish \/ PublishToRetry \/ PublishTwice
  PROVE  Sources
<1> USE DEF rawVars, retryVars, dlqVars
<1>a. TypeOK /\ UnreadInv /\ BornInv
  BY DEF DInv, IInv
<1>b. lastId \in Nat /\ dlq \subseteq DOMAIN msg /\ unread \subseteq Ids
  BY <1>a DEF TypeOK, PipelineAssumption
<1>c. Ids \subseteq Nat
  BY DEF Ids, PipelineAssumption
<1>d. \A x \in unread : x <= lastId /\ x \in Nat
  BY <1>a, <1>b, <1>c DEF BornInv
<1>0. /\ TypeOK /\ UnreadInv /\ lastId \in Nat /\ dlq \subseteq DOMAIN msg
      /\ \A x \in unread : x <= lastId /\ x \in Nat
  BY <1>a, <1>b, <1>d
<1>1. CASE Publish
  <2>1. PICK id : id = lastId + 1
    OBVIOUS
  <2>2. AddRaw(id) /\ lastId' = id /\ Fresh = {id} /\ id \in Nat
        /\ UNCHANGED <<pel, msg, dlq, analysed>>
    BY <1>0, <1>1, <2>1 DEF Publish, Fresh
  <2>3. /\ unread' \subseteq unread \cup {id} /\ id \in unread' /\ dropped \subseteq dropped'
        /\ \A x \in dropped' \ dropped : x \in unread /\ x \notin analysed
    BY <1>0, <2>1, <2>2, AddRawSources
  <2>4. Pending' = Pending
    BY <2>2 DEF Pending
  <2> QED
    BY <1>0, <2>1, <2>2, <2>3, <2>4 DEF Sources, Queued
<1>2. CASE PublishToRetry
  <2>1. PICK id : id = lastId + 1
    OBVIOUS
  <2>2. /\ msg' = Append(msg, Entry(id, 0, "retry")) /\ runread' = runread \cup {NextPos}
        /\ lastId' = id /\ Fresh = {id} /\ id \in Nat /\ id \notin unread
        /\ UNCHANGED <<pel, unread, dropped, dlq, analysed>>
    BY <1>0, <1>2, <2>1 DEF PublishToRetry, Fresh, AddRetry
  <2>3. /\ DOMAIN msg' = DOMAIN msg \cup {NextPos}
        /\ msg'[NextPos].id = id /\ \A q \in DOMAIN msg : msg'[q] = msg[q]
    BY <1>0, <2>2, AppendedEntry DEF Entry
  <2>4. Pending' = Pending
    BY <2>2 DEF Pending
  <2> QED
    BY <1>0, <2>1, <2>2, <2>3, <2>4 DEF Sources, Queued
<1>3. CASE PublishTwice
  <2>1. PICK id, id2 : id = lastId + 1 /\ id2 = lastId + 2
    OBVIOUS
  <2>2. /\ msg' = Append(msg, Entry(id2, 0, "retry")) /\ runread' = runread \cup {NextPos}
        /\ AddRaw(id)
        /\ lastId' = id2 /\ Fresh = {id, id2} /\ id \in Nat /\ id2 \in Nat
        /\ UNCHANGED <<pel, dlq, analysed>>
    BY <1>0, <1>3, <2>1 DEF PublishTwice, Fresh, AddRetry
  <2>3. /\ DOMAIN msg' = DOMAIN msg \cup {NextPos}
        /\ msg'[NextPos].id = id2 /\ \A q \in DOMAIN msg : msg'[q] = msg[q]
    BY <1>0, <2>2, AppendedEntry DEF Entry
  <2>4. Pending' = Pending
    BY <2>2 DEF Pending
  <2>5. /\ unread' \subseteq unread \cup {id} /\ id \in unread' /\ dropped \subseteq dropped'
        /\ \A x \in dropped' \ dropped : x \in unread /\ x \notin analysed
    BY <1>0, <2>1, <2>2, AddRawSources
  <2>6. id2 \notin unread'
    BY <1>0, <2>1, <2>5
  <2> QED
    BY <1>0, <2>1, <2>2, <2>3, <2>4, <2>5, <2>6 DEF Sources, Queued
<1> QED
  BY <1>1, <1>2, <1>3

LEMMA NextSources ==
  ASSUME PipelineAssumption, DInv, TypeOK', Next
  PROVE  Sources
<1> USE DEF rawVars, retryVars, dlqVars
<1>1. TypeOK /\ UnreadInv /\ BornInv /\ RetryWorkInv /\ WorkIsPending
  BY DEF DInv, IInv
<1>2. \A b \in Backends : pc[b] \in Working => work[b] \subseteq Pending
  BY <1>1, PendingMember DEF WorkIsPending
<1>3. CASE Publish \/ PublishToRetry \/ PublishTwice
  BY <1>3, PublishSources
<1>4. ASSUME NEW b \in Backends,
             \/ Start(b) \/ AnalyseFails(b) \/ RetryRead(b) \/ RetryAnalyseFails(b)
             \/ RetryAck(b) \/ Crash(b)
      PROVE  Sources
  <2>1. UNCHANGED <<lastId, unread, pel, dropped, msg, analysed, dlq>>
    BY <1>4 DEF Start, AnalyseFails, RetryRead, RetryAnalyseFails, RetryAck, Crash
  <2>2. Pending' \subseteq Pending
    BY <2>1 DEF Pending
  <2> QED
    BY <1>1, <2>1, <2>2, QuietSources
<1>5. ASSUME NEW b \in Backends, ReadPending(b) PROVE Sources
  <2>1. PICK S \in SUBSET pel[b] : dropped' = dropped \cup (S \ (stream \cup analysed))
    BY <1>5 DEF ReadPending
  <2>2. UNCHANGED <<lastId, unread, pel, msg, analysed, dlq>>
    BY <1>5 DEF ReadPending
  <2>3. lastId \in Nat /\ Fresh = {} /\ Pending' = Pending
    BY <1>1, <2>2 DEF Fresh, TypeOK, Pending
  <2>4. S \subseteq Pending
    BY <2>1, PendingMember
  <2> QED
    BY <2>1, <2>2, <2>3, <2>4 DEF Sources
<1>6. ASSUME NEW b \in Backends, ReadNew(b) PROVE Sources
  BY <1>1, <1>6, ReadSources DEF ReadNew
<1>7. ASSUME NEW b \in Backends, Analyse(b) PROVE Sources
  <2>1. UNCHANGED <<lastId, unread, pel, msg, dropped, dlq>> /\ analysed \subseteq analysed'
    BY <1>7 DEF Analyse
  <2>2. lastId \in Nat /\ Fresh = {} /\ Pending' = Pending
    BY <1>1, <2>1 DEF Fresh, TypeOK, Pending
  <2>3. \A id \in analysed' \ analysed : id \in Pending
    BY <1>2, <1>7 DEF Analyse, Working
  <2> QED
    BY <2>1, <2>2, <2>3 DEF Sources, Held
<1>8. ASSUME NEW b \in Backends, pc[b] \in {"resend"}, NEW id \in work[b], AddRetry(id, 0),
             UNCHANGED <<lastId, unread, pel, dropped, analysed, dlq>>
      PROVE  Sources
  <2>1. Held(id)
    BY <1>2, <1>8 DEF Held, Working
  <2>2. Pending' = Pending
    BY <1>8 DEF Pending
  <2> QED
    BY <1>1, <1>8, <2>1, <2>2, EntrySources DEF AddRetry
<1>9. ASSUME NEW b \in Backends, Resend(b) PROVE Sources
  BY <1>8, <1>9 DEF Resend
<1>10. ASSUME NEW b \in Backends, Ack(b) PROVE Sources
  BY <1>1, <1>10, AckSources DEF Ack
<1>11. ASSUME NEW b \in Backends, ParserFault(b) PROVE Sources
  <2>1. UNCHANGED <<lastId, dropped, analysed, dlq>>
    BY <1>11 DEF ParserFault
  <2>2. CASE UNCHANGED <<unread, pel, msg, runread>>
    <3>1. Pending' \subseteq Pending
      BY <2>2 DEF Pending
    <3> QED
      BY <1>1, <2>1, <2>2, <3>1, QuietSources
  <2>3. CASE /\ pc[b] = "read"
             /\ \E S \in (SUBSET unread) \ {{}} :
                   /\ IsBatchOf(S, unread, BatchSize)
                   /\ unread' = unread \ S
                   /\ pel' = [pel EXCEPT ![b] = @ \cup S]
             /\ UNCHANGED <<msg, runread>>
    BY <1>1, <2>1, <2>3, ReadSources
  <2>4. CASE /\ pc[b] = "resend"
             /\ \E id \in work[b] : IsOldest(id, work[b]) /\ AddRetry(id, 0)
             /\ UNCHANGED <<unread, pel>>
    BY <1>8, <2>1, <2>4
  <2>5. CASE /\ pc[b] \in {"ack", "fack"}
             /\ \E id \in work[b] :
                   /\ IsOldest(id, work[b])
                   /\ pel' = [pel EXCEPT ![b] = @ \ {id}]
             /\ UNCHANGED <<unread, msg, runread>>
    BY <1>1, <2>1, <2>5, AckSources
  <2> QED
    BY <1>11, <2>2, <2>3, <2>4, <2>5 DEF ParserFault
<1>12. ASSUME NEW b \in Backends, RetryAnalyse(b) PROVE Sources
  <2>1. PICK p \in rwork[b] : analysed' = analysed \cup {msg[p].id}
    BY <1>12 DEF RetryAnalyse
  <2>2. Held(msg[p].id)
    BY <1>1, PendingMember DEF RetryWorkInv, Held
  <2>3. UNCHANGED <<lastId, unread, pel, msg, dropped, dlq>>
    BY <1>12 DEF RetryAnalyse
  <2>4. lastId \in Nat /\ Fresh = {} /\ Pending' = Pending
    BY <1>1, <2>3 DEF Fresh, TypeOK, Pending
  <2> QED
    BY <2>1, <2>2, <2>3, <2>4 DEF Sources
<1>13. ASSUME NEW b \in Backends, RetryResend(b) PROVE Sources
  BY <1>1, <1>13, SendOnSources DEF RetryResend
<1>14. ASSUME NEW b \in Backends, RetryFault(b) PROVE Sources
  <2>1. UNCHANGED <<lastId, unread, pel, dropped, analysed>> /\ Pending' \subseteq Pending
    BY <1>14 DEF RetryFault, Pending
  <2>2. CASE UNCHANGED <<msg, dlq>>
    BY <1>1, <2>1, <2>2, QuietSources
  <2>3. CASE \E p \in rwork[b] : IsOldest(p, rwork[b]) /\ SendOn(p)
    BY <1>1, <2>1, <2>3, SendOnSources
  <2> QED
    BY <1>14, <2>2, <2>3 DEF RetryFault
<1>15. ASSUME NEW p \in dlq, ReplayRead(p) \/ PurgeDLQ(p) PROVE Sources
  <2>1. UNCHANGED <<lastId, unread, pel, dropped, msg, analysed>> /\ dlq' \subseteq dlq
        /\ Pending' \subseteq Pending
    BY <1>15 DEF ReplayRead, PurgeDLQ, Pending
  <2> QED
    BY <1>1, <2>1, QuietSources
<1>16. ASSUME NEW r \in replays, ReplayDelete(r) \/ ReplayAborts(r) PROVE Sources
  <2>1. UNCHANGED <<lastId, unread, pel, dropped, msg, analysed>> /\ dlq' \subseteq dlq
        /\ Pending' \subseteq Pending
    BY <1>16 DEF ReplayDelete, ReplayAborts, Pending
  <2> QED
    BY <1>1, <2>1, QuietSources
<1>17. ASSUME NEW r \in replays, ReplaySend(r) PROVE Sources
  <2>1. r.pos \in DOMAIN msg
    BY <1>1 DEF TypeOK
  <2>2. PICK id : id = msg[r.pos].id
    OBVIOUS
  <2>3. Named(id)
    BY <2>1, <2>2 DEF Named
  <2>4. UNCHANGED <<lastId, unread, pel, dropped, analysed, dlq>>
        /\ msg' = Append(msg, Entry(id, 0, "retry"))
    BY <1>17, <2>2 DEF ReplaySend, AddRetry
  <2>5. Pending' \subseteq Pending
    BY <2>4 DEF Pending
  <2> QED
    BY <1>1, <2>3, <2>4, <2>5, EntrySources
<1> QED
  BY <1>3, <1>4, <1>5, <1>6, <1>7, <1>9, <1>10, <1>11, <1>12, <1>13, <1>14, <1>15, <1>16, <1>17
  DEF Next

\* What a log can be named by was accepted.
LEMMA HeldIsBorn ==
  ASSUME TypeOK, BornInv
  PROVE  /\ \A id : Held(id) => id <= lastId
         /\ \A q \in RetryPending : Named(msg[q].id)
<1>1. RetryPending \subseteq DOMAIN msg
  BY PendingMember DEF TypeOK
<1> QED
  BY <1>1 DEF Held, Named, BornInv

LEMMA NextBorn ==
  ASSUME PipelineAssumption, TypeOK, TypeOK', BornInv, UnreadInv, Sources
  PROVE  BornInv' /\ UnreadInv'
<1>1. /\ lastId \in Nat /\ lastId' \in Nat /\ lastId <= lastId'
      /\ \A id \in Fresh : id \in Nat /\ lastId < id /\ id <= lastId'
  BY DEF TypeOK, Sources, Fresh
<1>2. Ids \subseteq Nat /\ unread \subseteq Ids /\ Pending \subseteq Ids /\ dropped \subseteq Ids
      /\ analysed \subseteq Ids /\ \A p \in DOMAIN msg : msg[p].id \in Nat
  <2>1. Ids \subseteq Nat
    BY DEF Ids, PipelineAssumption
  <2>2. unread \subseteq Ids /\ dropped \subseteq Ids /\ analysed \subseteq Ids
    BY DEF TypeOK
  <2>3. Pending \subseteq Ids
    BY PendingMember DEF TypeOK
  <2> QED
    BY <2>1, <2>2, <2>3, MessageType
<1>3. \A id : Held(id) => id \in Nat /\ id <= lastId
  <2>1. \A q \in RetryPending : q \in DOMAIN msg
    BY PendingMember DEF TypeOK
  <2> QED
    BY <1>2, <2>1, HeldIsBorn DEF Held
<1>4. \A id : Named(id) => id \in Nat /\ id <= lastId
  BY <1>2 DEF Named, BornInv
<1>5. \A id \in unread \cup Pending \cup analysed \cup dropped : id \in Nat /\ id <= lastId
  BY <1>2 DEF BornInv
<1>6. \A id : Named(id)' => id \in Fresh \ unread' \/ Held(id) \/ Named(id)
  <2> SUFFICES ASSUME NEW id, NEW p \in DOMAIN msg', msg'[p].id = id
               PROVE  id \in Fresh \ unread' \/ Held(id) \/ Named(id)
    BY DEF Named
  <2> QED
    BY DEF Sources, Named
<1>7. \A id : Held(id)' => id \in Pending' \/ Named(id)'
  <2>1. RetryPending' \subseteq DOMAIN msg'
    BY DEF TypeOK, RetryPending
  <2> QED
    BY <2>1 DEF Held, Named
<1>8. BornInv'
  <2>1. \A id \in unread' \cup Pending' \cup analysed' \cup dropped' : id <= lastId'
    BY <1>1, <1>3, <1>5 DEF Sources
  <2>2. \A id : Named(id)' => id <= lastId'
    BY <1>1, <1>3, <1>4, <1>6
  <2> QED
    BY <2>1, <2>2 DEF BornInv
<1>9. ASSUME NEW id \in unread'
      PROVE  id \notin analysed' /\ ~Held(id)' /\ ~Named(id)'
  <2>1. id \notin analysed /\ ~Held(id) /\ ~Named(id)
    BY <1>1, <1>3, <1>4, <1>5, <1>9 DEF Sources, UnreadInv
  <2>2. ~Named(id)'
    BY <1>6, <1>9, <2>1
  <2>3. id \notin Pending'
    BY <1>1, <1>5, <1>9, <2>1 DEF Sources, Held
  <2>4. ~Held(id)'
    BY <1>7, <2>2, <2>3
  <2>5. id \notin analysed'
    BY <2>1 DEF Sources
  <2> QED
    BY <2>2, <2>4, <2>5
<1>10. UnreadInv'
  BY <1>9 DEF UnreadInv
<1> QED
  BY <1>8, <1>10

LEMMA NextRetryWork ==
  ASSUME TypeOK, RetryWorkInv, [Next]_vars
  PROVE  RetryWorkInv'
<1> USE DEF rawVars, retryVars, dlqVars
<1>1. CASE UNCHANGED <<rpel, rwork>>
  BY <1>1 DEF RetryWorkInv
<1>2. ASSUME NEW b \in Backends,
             Start(b) \/ RetryRead(b) \/ RetryAck(b) \/ RetryFault(b) \/ Crash(b)
      PROVE  RetryWorkInv'
  <2>1. \A c \in Backends \ {b} : rpel'[c] = rpel[c] /\ rwork'[c] = rwork[c]
    BY <1>2 DEF Start, RetryRead, RetryAck, RetryFault, Crash, TypeOK
  <2>2. rwork'[b] \subseteq rpel'[b]
    BY <1>2 DEF Start, RetryRead, RetryAck, RetryFault, Crash, TypeOK, RetryWorkInv
  <2> QED
    BY <2>1, <2>2 DEF RetryWorkInv
<1>3. CASE Publish \/ PublishToRetry \/ PublishTwice
  BY <1>1, <1>3 DEF Publish, PublishToRetry, PublishTwice
<1>4. ASSUME NEW b \in Backends,
             \/ ReadPending(b) \/ ReadNew(b) \/ Analyse(b) \/ AnalyseFails(b) \/ Resend(b)
             \/ Ack(b) \/ ParserFault(b)
      PROVE  RetryWorkInv'
  BY <1>1, <1>4 DEF ReadPending, ReadNew, Analyse, AnalyseFails, Resend, Ack, ParserFault
<1>5. ASSUME NEW b \in Backends, RetryAnalyse(b) \/ RetryAnalyseFails(b) \/ RetryResend(b)
      PROVE  RetryWorkInv'
  BY <1>1, <1>5 DEF RetryAnalyse, RetryAnalyseFails, RetryResend
<1>6. ASSUME NEW p \in dlq, ReplayRead(p) \/ PurgeDLQ(p) PROVE RetryWorkInv'
  BY <1>1, <1>6 DEF ReplayRead, PurgeDLQ
<1>7. ASSUME NEW r \in replays, ReplaySend(r) \/ ReplayDelete(r) \/ ReplayAborts(r)
      PROVE  RetryWorkInv'
  BY <1>1, <1>7 DEF ReplaySend, ReplayDelete, ReplayAborts
<1>8. CASE UNCHANGED vars
  BY <1>1, <1>8 DEF vars
<1> QED
  BY <1>2, <1>3, <1>4, <1>5, <1>6, <1>7, <1>8 DEF Next

----------------------------------------------------------------------------
(* The steps, in the words of Delivery.                                    *)

\* Where an accepted log can be, before and after a step.
LEMMA Somewhere ==
  /\ NoLoss => \A id \in 1 .. lastId :
        \/ id \in dropped \/ id \in analysed \/ Queued(id)
        \/ \E p \in dlq \cup discarded : msg[p].id = id
  /\ NoLoss' => \A id \in 1 .. lastId' :
        \/ id \in dropped' \/ id \in analysed' \/ Queued(id)'
        \/ \E p \in dlq' \cup discarded' : msg'[p].id = id
<1>1. /\ Open = runread \cup dlq \cup RetryPending
      /\ Open' = runread' \cup dlq' \cup RetryPending'
  BY DEF Open, RetryPending
<1>2. NoLoss => \A id \in 1 .. lastId :
        \/ id \in dropped \/ id \in analysed \/ Queued(id)
        \/ \E p \in dlq \cup discarded : msg[p].id = id
  BY <1>1 DEF NoLoss, SafeAfter, Queued
<1>3. NoLoss' => \A id \in 1 .. lastId' :
        \/ id \in dropped' \/ id \in analysed' \/ Queued(id)'
        \/ \E p \in dlq' \cup discarded' : msg'[p].id = id
  BY <1>1 DEF NoLoss, SafeAfter, Queued
<1> QED
  BY <1>2, <1>3

LEMMA FateType ==
  ASSUME PipelineAssumption, TypeOK', NoLoss', NEW id \in Ids
  PROVE  Fate(id)' \in Promise!Fates
<1>1. id > lastId' \/ id \in 1 .. lastId'
  BY DEF TypeOK, Ids, PipelineAssumption
<1>2. CASE id > lastId'
  BY <1>2 DEF Fate, Promise!Fates
<1>3. CASE id \in 1 .. lastId'
  BY <1>3, Somewhere DEF Fate, Promise!Fates
<1> QED
  BY <1>1, <1>2, <1>3

\* What the new state says of a log, by what the old one said.
LEMMA FateStep ==
  ASSUME PipelineAssumption, TypeOK, TypeOK', BornInv, NoLoss, NoLoss', Sources, NEW id \in Ids
  PROVE  Fate(id)' = Fate(id) \/ <<Fate(id), Fate(id)'>> \in Promise!Moves
<1>1. /\ lastId \in Nat /\ lastId' \in Nat /\ lastId <= lastId' /\ id \in Nat /\ 1 <= id
      /\ id <= lastId => id \in 1 .. lastId
      /\ id <= lastId' => id \in 1 .. lastId'
  BY DEF TypeOK, Sources, Ids, PipelineAssumption
<1>2. /\ dropped \subseteq dropped'
      /\ analysed \subseteq analysed'
      /\ id \in analysed' \ analysed => Held(id)
      /\ id \in dropped' \ dropped => id \in unread \cup Pending /\ id \notin analysed
      /\ id \in Fresh => Queued(id)'
      /\ \A p \in dlq' \ dlq : Held(msg'[p].id)
      /\ \A p \in dlq : msg'[p] = msg[p]
  BY DEF Sources
<1>3. Held(id) => Queued(id)
  BY DEF Held, Queued
<1>4. id \in unread \cup Pending => Queued(id)
  BY DEF Queued
<1>5. Fate(id)' \in {"new", "shed", "handled", "owed", "given up", "discarded"}
  BY FateType DEF Promise!Fates
<1>6. CASE lastId < id
  <2>1. Fate(id) = "new"
    BY <1>1, <1>6 DEF Fate
  <2>2. CASE lastId' < id
    BY <1>1, <2>1, <2>2 DEF Fate
  <2>3. CASE id <= lastId'
    <3>1. id \in Fresh
      BY <1>1, <1>6, <2>3 DEF Fresh
    <3>2. id \notin dropped' /\ id \notin analysed'
      BY <1>1, <1>2, <1>6, HeldIsBorn DEF BornInv
    <3>3. Fate(id)' = "owed"
      BY <1>1, <1>2, <2>3, <3>1, <3>2 DEF Fate
    <3> QED
      BY <2>1, <3>3 DEF Promise!Moves
  <2> QED
    BY <1>1, <2>2, <2>3
<1>7. CASE id <= lastId
  <2>1. Fate(id)' # "new"
    BY <1>1, <1>7 DEF Fate
  <2>2. CASE id \in dropped
    <3>1. id <= lastId' /\ id \in dropped'
      BY <1>1, <1>2, <1>7, <2>2
    <3>2. Fate(id) = "shed" /\ Fate(id)' = "shed"
      BY <1>1, <1>7, <2>2, <3>1 DEF Fate
    <3> QED
      BY <3>2
  <2>3. CASE id \notin dropped /\ id \in analysed
    <3>1. id <= lastId' /\ id \in analysed' /\ id \notin dropped'
      BY <1>1, <1>2, <1>7, <2>3
    <3>2. Fate(id) = "handled" /\ Fate(id)' = "handled"
      BY <1>1, <1>7, <2>3, <3>1 DEF Fate
    <3> QED
      BY <3>2
  <2>4. CASE id \notin dropped /\ id \notin analysed /\ Queued(id)
    <3>1. Fate(id) = "owed"
      BY <1>1, <1>7, <2>4 DEF Fate
    <3> QED
      BY <1>5, <2>1, <3>1 DEF Promise!Moves
  <2>5. CASE id \notin dropped /\ id \notin analysed /\ ~Queued(id)
    <3>1. id \notin dropped' /\ id \notin analysed'
      BY <1>2, <1>3, <1>4, <2>5
    <3>2. Fate(id)' \in {"owed", "given up", "discarded"}
      BY <1>1, <1>5, <2>1, <3>1 DEF Fate
    <3>3. CASE \E p \in dlq : msg[p].id = id
      <4>1. Fate(id) = "given up"
        BY <1>1, <1>7, <2>5, <3>3 DEF Fate
      <4> QED
        BY <3>2, <4>1 DEF Promise!Moves
    <3>4. CASE ~\E p \in dlq : msg[p].id = id
      <4>1. Fate(id) = "discarded"
        <5>1. \E p \in discarded : msg[p].id = id
          BY <1>1, <1>7, <2>5, <3>4, Somewhere
        <5> QED
          BY <1>1, <1>7, <2>5, <3>4, <5>1 DEF Fate
      <4>2. ~\E p \in dlq' : msg'[p].id = id
        BY <1>2, <1>3, <2>5, <3>4
      <4>3. Fate(id)' # "given up"
        BY <1>1, <1>7, <4>2 DEF Fate
      <4> QED
        BY <3>2, <4>1, <4>3 DEF Promise!Moves
    <3> QED
      BY <3>3, <3>4
  <2> QED
    BY <2>2, <2>3, <2>4, <2>5
<1> QED
  BY <1>1, <1>6, <1>7

----------------------------------------------------------------------------
LEMMA InitDInv == PipelineAssumption /\ Init => DInv /\ Promise!Init
<1> SUFFICES ASSUME PipelineAssumption, Init PROVE DInv /\ Promise!Init
  OBVIOUS
<1>1. /\ lastId = 0 /\ unread = {} /\ Pending = {} /\ analysed = {} /\ dropped = {}
      /\ msg = <<>> /\ rwork = [b \in Backends |-> {}]
  BY DEF Init, Pending
<1>2. BornInv
  BY <1>1 DEF BornInv, Named
<1>3. UnreadInv /\ RetryWorkInv
  BY <1>1 DEF UnreadInv, RetryWorkInv
<1>4. \A id \in Ids : Fate(id) = "new"
  BY <1>1 DEF Fate, Ids, PipelineAssumption
<1>5. Promise!Init
  BY <1>4 DEF Promise!Init
<1> QED
  BY <1>2, <1>3, <1>5, InitIInv DEF DInv

LEMMA NextDInv ==
  PipelineAssumption /\ DInv /\ [Next]_vars => DInv' /\ [Promise!Next]_([id \in Ids |-> Fate(id)])
<1> SUFFICES ASSUME PipelineAssumption, DInv, [Next]_vars
             PROVE  DInv' /\ [Promise!Next]_([id \in Ids |-> Fate(id)])
  OBVIOUS
<1>1. IInv /\ TypeOK /\ NoLoss /\ BornInv /\ UnreadInv /\ RetryWorkInv
  BY DEF DInv, IInv
<1>2. IInv' /\ TypeOK' /\ NoLoss'
  BY <1>1, NextIInv DEF IInv
<1>3. RetryWorkInv'
  BY <1>1, NextRetryWork
<1>4. CASE UNCHANGED vars
  <2>1. BornInv' /\ UnreadInv'
    BY <1>1, <1>4 DEF vars, BornInv, UnreadInv, Pending, RetryPending, Held, Named
  <2>2. [id \in Ids |-> Fate(id)]' = [id \in Ids |-> Fate(id)]
    BY <1>4 DEF vars, Fate, Queued, Pending, RetryPending
  <2> QED
    BY <1>2, <1>3, <2>1, <2>2 DEF DInv
<1>5. CASE Next
  <2>1. Sources
    BY <1>2, <1>5, NextSources
  <2>2. BornInv' /\ UnreadInv'
    BY <1>1, <1>2, <2>1, NextBorn
  <2>3. \A id \in Ids : Fate(id)' = Fate(id) \/ <<Fate(id), Fate(id)'>> \in Promise!Moves
    BY <1>1, <1>2, <2>1, FateStep
  <2>4. \A id \in Ids : Fate(id)' \in Promise!Fates
    BY <1>2, FateType
  <2>5. Promise!Next
    BY <2>3, <2>4 DEF Promise!Next
  <2> QED
    BY <1>2, <1>3, <2>2, <2>5 DEF DInv
<1> QED
  BY <1>4, <1>5

\* Pipeline implements Delivery: whatever is interleaved, fails or crashes, a log is owed from its
\* acceptance until it was handled, shed by the raw stream or given up after its retries, and
\* only an analyst's replay or purge changes what was given up.
THEOREM DeliveryKept == Spec => Delivered
<1>1. PipelineAssumption
  BY PipelineAssumption
<1>2. Spec => Promise!Spec
  BY <1>1, InitDInv, NextDInv, PTL DEF Spec, Promise!Spec
<1> QED
  BY <1>2 DEF Delivered

----------------------------------------------------------------------------
(* The budget of retries.  A failed retry is one token.  It stays with the *)
(* entry that takes the place of the one that failed, so that an entry     *)
(* with failure count n holds n tokens and a dead-letter entry             *)
(* MaxRetries + 1, and no token is ever held twice.                        *)

\* Entry p is to be retried, or is just being retried.
InHand(p) ==
    \/ p \in runread
    \/ \E b \in Backends : p \in rwork[b] /\ ~(rpc[b] = "ack" /\ IsOldest(p, rwork[b]))

\* Its retry has failed, and nothing has taken its place yet.
HasFailed(p) == \E b \in Backends : rpc[b] = "resend" /\ IsOldest(p, rwork[b])

Spent(p, k) ==
    \/ msg[p].to = "dlq"
    \/ InHand(p) /\ (k < msg[p].fc \/ (k = msg[p].fc /\ HasFailed(p)))

Tokens(id) == {t \in (DOMAIN msg) \X (0 .. MaxRetries) : msg[t[1]].id = id /\ Spent(t[1], t[2])}

\* A retry entry is in one place: unread, or in the batch of one backend that is at work.
BatchInv ==
    /\ \A p \in runread : msg[p].to = "retry" /\ \A b \in Backends : p \notin rwork[b]
    /\ \A b \in Backends :
          /\ \A p \in rwork[b] : msg[p].to = "retry"
          /\ rpc[b] \notin {"analyse", "resend", "ack"} => rwork[b] = {}
          /\ pc[b] = "down" => rpc[b] = "down"
          /\ \A c \in Backends \ {b} : rwork[b] \cap rwork[c] = {}

\* Every token is a failed retry of its log.
Paid == \A id \in Ids : Cardinality(Tokens(id)) <= fails[id]

BInv == IInv /\ BatchInv /\ Paid

LEMMA OldestIsOne ==
  ASSUME TypeOK, NEW b \in Backends, NEW p, NEW q, IsOldest(p, rwork[b]), IsOldest(q, rwork[b])
  PROVE  p = q
<1>1. p \in Nat /\ q \in Nat /\ p <= q /\ q <= p
  BY DEF IsOldest, TypeOK
<1> QED
  BY <1>1

LEMMA TokensFinite ==
  ASSUME TypeOK, PipelineAssumption
  PROVE  \A id : IsFiniteSet(Tokens(id)) /\ Cardinality(Tokens(id)) \in Nat
<1>1. Len(msg) \in Nat /\ DOMAIN msg = 1 .. Len(msg) /\ MaxRetries \in Nat
  BY DEF TypeOK, PipelineAssumption
<1>2. IsFiniteSet(DOMAIN msg) /\ IsFiniteSet(0 .. MaxRetries)
  BY <1>1, FS_Interval
<1>3. IsFiniteSet((DOMAIN msg) \X (0 .. MaxRetries))
  BY <1>2, FS_Product
<1>4. ASSUME NEW id PROVE Tokens(id) \in SUBSET ((DOMAIN msg) \X (0 .. MaxRetries))
  BY DEF Tokens
<1> QED
  BY <1>3, <1>4, FS_Subset, FS_CardinalityType

LEMMA TokensFiniteNext ==
  ASSUME TypeOK', PipelineAssumption
  PROVE  \A id : IsFiniteSet(Tokens(id)') /\ Cardinality(Tokens(id)') \in Nat
<1>1. Len(msg') \in Nat /\ DOMAIN msg' = 1 .. Len(msg') /\ MaxRetries \in Nat
  BY DEF TypeOK, PipelineAssumption
<1>2. IsFiniteSet(DOMAIN msg') /\ IsFiniteSet(0 .. MaxRetries)
  BY <1>1, FS_Interval
<1>3. IsFiniteSet((DOMAIN msg') \X (0 .. MaxRetries))
  BY <1>2, FS_Product
<1>4. ASSUME NEW id PROVE Tokens(id)' \in SUBSET ((DOMAIN msg') \X (0 .. MaxRetries))
  BY DEF Tokens
<1> QED
  BY <1>3, <1>4, FS_Subset, FS_CardinalityType

\* A step that only gives tokens up.
LEMMA FewerTokens ==
  ASSUME TypeOK, TypeOK', PipelineAssumption, Paid, fails' = fails,
         \A q \in DOMAIN msg : msg'[q] = msg[q],
         \A q \in DOMAIN msg, k \in 0 .. MaxRetries : Spent(q, k)' => Spent(q, k),
         \A q \in DOMAIN msg', k \in 0 .. MaxRetries : q \notin DOMAIN msg => ~Spent(q, k)'
  PROVE  Paid'
<1> SUFFICES ASSUME NEW id \in Ids PROVE Cardinality(Tokens(id)') <= fails[id]
  BY DEF Paid
<1>1. Tokens(id)' \in SUBSET Tokens(id)
  BY DEF Tokens
<1>2. Cardinality(Tokens(id)') <= Cardinality(Tokens(id))
  BY <1>1, TokensFinite, FS_Subset
<1>3. Cardinality(Tokens(id)) <= fails[id] /\ fails[id] \in Nat
  BY DEF Paid, TypeOK
<1> QED
  BY <1>2, <1>3, TokensFinite, TokensFiniteNext

\* The new entry n takes the tokens of entry q.
LEMMA MovedTokens ==
  ASSUME TypeOK, TypeOK', PipelineAssumption, Paid, fails' = fails,
         NEW q \in DOMAIN msg, NEW n, n \notin DOMAIN msg, DOMAIN msg' = DOMAIN msg \cup {n},
         \A p \in DOMAIN msg : msg'[p] = msg[p],
         msg'[n].id = msg[q].id,
         \A p \in DOMAIN msg, k \in 0 .. MaxRetries : Spent(p, k)' => Spent(p, k) /\ p # q,
         \A k \in 0 .. MaxRetries : Spent(n, k)' => Spent(q, k)
  PROVE  Paid'
<1> SUFFICES ASSUME NEW id \in Ids PROVE Cardinality(Tokens(id)') <= fails[id]
  BY DEF Paid
<1> DEFINE from(t) == IF t[1] = n THEN <<q, t[2]>> ELSE t
           f == [t \in Tokens(id)' |-> from(t)]
<1>1. ASSUME NEW t \in Tokens(id)'
      PROVE  /\ from(t) \in Tokens(id)
             /\ t = <<t[1], t[2]>>
             /\ t[1] # n => from(t) = t /\ t[1] # q
             /\ t[1] = n => from(t) = <<q, t[2]>>
  <2>1. /\ t \in (DOMAIN msg') \X (0 .. MaxRetries)
        /\ msg'[t[1]].id = id /\ Spent(t[1], t[2])'
    BY DEF Tokens
  <2>2. PICK p \in DOMAIN msg', k \in 0 .. MaxRetries : t = <<p, k>>
    BY <2>1
  <2>3. msg'[p].id = id /\ Spent(p, k)' /\ t[1] = p /\ t[2] = k
    BY <2>1, <2>2
  <2>4. CASE p = n
    <3>1. <<q, k>> \in Tokens(id)
      BY <2>3, <2>4 DEF Tokens
    <3> QED
      BY <2>2, <2>3, <2>4, <3>1
  <2>5. CASE p # n
    <3>1. p \in DOMAIN msg
      BY <2>5
    <3>2. <<p, k>> \in Tokens(id) /\ p # q
      BY <2>3, <3>1 DEF Tokens
    <3> QED
      BY <2>2, <2>3, <2>5, <3>2
  <2> QED
    BY <2>4, <2>5
<1>2. f \in [Tokens(id)' -> Tokens(id)]
  <2>1. \A t \in Tokens(id)' : from(t) \in Tokens(id)
    BY <1>1
  <2> QED
    BY <2>1
<1>3. ASSUME NEW s \in Tokens(id)', NEW t \in Tokens(id)', f[s] = f[t] PROVE s = t
  <2> HIDE DEF from
  <2>0. from(s) = from(t)
    BY <1>3
  <2>1. /\ s = <<s[1], s[2]>> /\ t = <<t[1], t[2]>>
        /\ s[1] # n => from(s) = s /\ s[1] # q
        /\ t[1] # n => from(t) = t /\ t[1] # q
        /\ s[1] = n => from(s) = <<q, s[2]>>
        /\ t[1] = n => from(t) = <<q, t[2]>>
    BY <1>1
  <2>2. CASE s[1] = n /\ t[1] = n
    BY <2>0, <2>1, <2>2
  <2>3. CASE s[1] # n /\ t[1] # n
    BY <2>0, <2>1, <2>3
  <2>4. CASE s[1] = n /\ t[1] # n
    <3>1. t = <<q, s[2]>>
      BY <2>0, <2>1, <2>4
    <3> QED
      BY <2>1, <2>4, <3>1
  <2>5. CASE s[1] # n /\ t[1] = n
    <3>1. s = <<q, t[2]>>
      BY <2>0, <2>1, <2>5
    <3> QED
      BY <2>1, <2>5, <3>1
  <2> QED
    BY <2>2, <2>3, <2>4, <2>5
<1>4. f \in Injection(Tokens(id)', Tokens(id))
  <2> HIDE DEF f
  <2> QED
    BY <1>2, <1>3 DEF Injection, IsInjective
<1>5. Cardinality(Tokens(id)') <= Cardinality(Tokens(id))
  BY <1>4, TokensFinite, FS_Injection
<1>6. Cardinality(Tokens(id)) <= fails[id] /\ fails[id] \in Nat
  BY DEF Paid, TypeOK
<1> QED
  BY <1>5, <1>6, TokensFinite, TokensFiniteNext

\* A retry fails: the one step that makes a token.
LEMMA FailurePays ==
  ASSUME TypeOK, TypeOK', PipelineAssumption, Paid, NEW b \in Backends, RetryAnalyseFails(b)
  PROVE  Paid'
<1>1. PICK q \in rwork[b] : /\ IsOldest(q, rwork[b])
                            /\ fails' = [fails EXCEPT ![msg[q].id] = fails[msg[q].id] + 1]
  BY DEF RetryAnalyseFails, IsOldest
<1>2. /\ rpc[b] = "analyse" /\ rpc' = [rpc EXCEPT ![b] = "resend"]
      /\ UNCHANGED <<msg, runread, rwork>>
  BY DEF RetryAnalyseFails
<1>3. q \in DOMAIN msg /\ msg[q].id \in Ids /\ msg[q].fc \in 0 .. MaxRetries
  <2>1. q \in DOMAIN msg
    BY DEF TypeOK
  <2> QED
    BY <2>1, MessageType
<1>4. /\ rpc'[b] = "resend"
      /\ \A c \in Backends \ {b} : rpc'[c] = rpc[c]
  BY <1>2 DEF TypeOK
<1>5. ASSUME NEW p PROVE InHand(p)' => InHand(p)
  BY <1>2, <1>4 DEF InHand
<1>6. ASSUME NEW p PROVE HasFailed(p)' => HasFailed(p) \/ p = q
  BY <1>1, <1>2, <1>4, OldestIsOne DEF HasFailed
<1>7. ASSUME NEW p, NEW k PROVE Spent(p, k)' => Spent(p, k) \/ (p = q /\ k = msg[q].fc)
  BY <1>2, <1>5, <1>6 DEF Spent
<1> SUFFICES ASSUME NEW id \in Ids PROVE Cardinality(Tokens(id)') <= fails'[id]
  BY DEF Paid
<1>8. Cardinality(Tokens(id)) <= fails[id] /\ fails[id] \in Nat /\ fails \in [Ids -> Nat]
  BY DEF Paid, TypeOK
<1>9. CASE id = msg[q].id
  <2>1. Tokens(id)' \in SUBSET (Tokens(id) \cup {<<q, msg[q].fc>>})
    BY <1>2, <1>7 DEF Tokens
  <2>2. /\ IsFiniteSet(Tokens(id) \cup {<<q, msg[q].fc>>})
        /\ Cardinality(Tokens(id) \cup {<<q, msg[q].fc>>}) <= Cardinality(Tokens(id)) + 1
        /\ Cardinality(Tokens(id) \cup {<<q, msg[q].fc>>}) \in Nat
    <3> DEFINE T == Tokens(id)
    <3>1. IsFiniteSet(T) /\ Cardinality(T) \in Nat
      BY TokensFinite
    <3> HIDE DEF T
    <3>2. ASSUME NEW x
          PROVE  IsFiniteSet(T \cup {x}) /\ Cardinality(T \cup {x}) <= Cardinality(T) + 1
      <4>1. /\ IsFiniteSet(T \cup {x})
            /\ Cardinality(T \cup {x}) = IF x \in T THEN Cardinality(T) ELSE Cardinality(T) + 1
        BY <3>1, FS_AddElement, Zenon
      <4> QED
        BY <3>1, <4>1
    <3>3. Cardinality(T \cup {<<q, msg[q].fc>>}) \in Nat
      BY <3>2, FS_CardinalityType
    <3> QED
      BY <3>2, <3>3 DEF T
  <2>3. Cardinality(Tokens(id)') <= Cardinality(Tokens(id) \cup {<<q, msg[q].fc>>})
    BY <2>1, <2>2, FS_Subset
  <2>4. fails'[id] = fails[id] + 1
    BY <1>1, <1>8, <1>9
  <2> QED
    BY <1>8, <2>2, <2>3, <2>4, TokensFinite, TokensFiniteNext
<1>10. CASE id # msg[q].id
  <2>1. Tokens(id)' \in SUBSET Tokens(id)
    BY <1>2, <1>7, <1>10 DEF Tokens
  <2>2. Cardinality(Tokens(id)') <= Cardinality(Tokens(id))
    BY <2>1, TokensFinite, FS_Subset
  <2>3. fails'[id] = fails[id]
    BY <1>1, <1>8, <1>10
  <2> QED
    BY <1>8, <2>2, <2>3, TokensFinite, TokensFiniteNext
<1> QED
  BY <1>9, <1>10

\* SendOn, after which entry q is no longer in hand: what it held goes to its successor.
LEMMA SendOnPays ==
  ASSUME TypeOK, TypeOK', PipelineAssumption, BatchInv, Paid, fails' = fails,
         NEW b \in Backends, NEW q \in rwork[b], IsOldest(q, rwork[b]), rpc[b] = "resend",
         SendOn(q),
         \/ rwork' = rwork /\ rpc' = [rpc EXCEPT ![b] = "ack"]
         \/ rwork' = [rwork EXCEPT ![b] = {}] /\ rpc' = [rpc EXCEPT ![b] = "stopped"]
  PROVE  Paid'
<1>1. q \in DOMAIN msg /\ msg[q].fc \in 0 .. MaxRetries /\ MaxRetries \in Nat
  <2>1. q \in DOMAIN msg
    BY DEF TypeOK
  <2> QED
    BY <2>1, MessageType DEF PipelineAssumption
<1>0. PICK n : n = NextPos
  OBVIOUS
<1>2. PICK m : /\ msg' = Append(msg, m)
               /\ m.id = msg[q].id
               /\ m.to = "retry" => /\ m.fc = msg[q].fc + 1
                                    /\ runread' = runread \cup {n}
               /\ m.to = "dlq" => msg[q].fc = MaxRetries /\ runread' = runread
               /\ m.to \in {"retry", "dlq"}
  <2>1. CASE /\ msg[q].fc >= MaxRetries
             /\ msg' = Append(msg, Entry(msg[q].id, 0, "dlq"))
             /\ UNCHANGED runread
    BY <1>1, <2>1 DEF Entry
  <2>2. CASE AddRetry(msg[q].id, msg[q].fc + 1)
    BY <1>0, <2>2 DEF AddRetry, Entry
  <2> QED
    BY <2>1, <2>2 DEF SendOn
<1>3. /\ DOMAIN msg' = DOMAIN msg \cup {n} /\ n \notin DOMAIN msg
      /\ msg'[n] = m /\ \A p \in DOMAIN msg : msg'[p] = msg[p]
  BY <1>0, <1>2, AppendedEntry
<1>4. /\ q \notin runread /\ msg[q].to = "retry"
      /\ \A c \in Backends \ {b} : q \notin rwork[c]
      /\ runread \subseteq DOMAIN msg /\ \A c \in Backends : rwork[c] \subseteq DOMAIN msg
      /\ \A c \in Backends \ {b} : rwork'[c] = rwork[c] /\ rpc'[c] = rpc[c]
      /\ \/ rwork'[b] = rwork[b] /\ rpc'[b] = "ack"
         \/ rwork'[b] = {} /\ rpc'[b] = "stopped"
  BY DEF BatchInv, TypeOK
<1>5. ASSUME NEW p \in DOMAIN msg, InHand(p)' PROVE InHand(p) /\ p # q
  BY <1>2, <1>3, <1>4, <1>5 DEF InHand
<1>6. ASSUME NEW p, HasFailed(p)' PROVE HasFailed(p)
  BY <1>4, <1>6 DEF HasFailed
<1>7. \A p \in DOMAIN msg, k \in 0 .. MaxRetries : Spent(p, k)' => Spent(p, k)
  BY <1>3, <1>5, <1>6 DEF Spent
<1>8. \A k : ~Spent(q, k)'
  BY <1>1, <1>3, <1>4, <1>5 DEF Spent
<1>9. InHand(q) /\ HasFailed(q)
  BY DEF InHand, HasFailed
<1>10. ~HasFailed(n)'
  BY <1>3, <1>4 DEF HasFailed, IsOldest
<1>11. ASSUME NEW k \in 0 .. MaxRetries, Spent(n, k)' PROVE Spent(q, k)
  <2>1. CASE m.to = "dlq"
    BY <1>1, <1>2, <1>9, <2>1 DEF Spent
  <2>2. CASE m.to = "retry"
    <3>1. msg'[n].to # "dlq" /\ msg'[n].fc = msg[q].fc + 1
      BY <1>2, <1>3, <2>2
    <3>2. k < msg[q].fc + 1
      BY <1>10, <1>11, <3>1 DEF Spent
    <3> QED
      BY <1>1, <1>9, <3>2 DEF Spent
  <2> QED
    BY <1>2, <2>1, <2>2
<1> QED
  BY <1>1, <1>2, <1>3, <1>7, <1>8, <1>11, MovedTokens

\* A new entry of the retry stream that nothing stands behind has no tokens.
LEMMA NewRetryPays ==
  ASSUME TypeOK, TypeOK', PipelineAssumption, Paid, NEW id, AddRetry(id, 0),
         UNCHANGED <<rwork, rpc, fails>>
  PROVE  Paid'
<1>0. PICK n : n = NextPos
  OBVIOUS
<1>1. /\ DOMAIN msg' = DOMAIN msg \cup {n} /\ n \notin DOMAIN msg
      /\ msg'[n] = Entry(id, 0, "retry") /\ \A p \in DOMAIN msg : msg'[p] = msg[p]
      /\ runread' = runread \cup {n}
  BY <1>0, AppendedEntry DEF AddRetry
<1>2. \A b \in Backends : rwork[b] \subseteq DOMAIN msg
  BY DEF TypeOK
<1>3. \A p \in DOMAIN msg : (InHand(p)' <=> InHand(p)) /\ (HasFailed(p)' <=> HasFailed(p))
  BY <1>1 DEF InHand, HasFailed
<1>4. ~HasFailed(n)'
  BY <1>1, <1>2 DEF HasFailed, IsOldest
<1>5. \A p \in DOMAIN msg, k \in 0 .. MaxRetries : Spent(p, k)' => Spent(p, k)
  BY <1>1, <1>3 DEF Spent
<1>6. \A k \in 0 .. MaxRetries : ~Spent(n, k)'
  BY <1>1, <1>4 DEF Spent, Entry
<1> QED
  BY <1>1, <1>5, <1>6, FewerTokens

\* A step of the retry goroutine b after which it has no more in hand than before.
LEMMA QuietPays ==
  ASSUME TypeOK, TypeOK', PipelineAssumption, Paid, UNCHANGED <<msg, fails>>,
         \A p : (InHand(p)' => InHand(p)) /\ (HasFailed(p)' => HasFailed(p))
  PROVE  Paid'
<1>1. \A p \in DOMAIN msg, k \in 0 .. MaxRetries : Spent(p, k)' => Spent(p, k)
  BY DEF Spent
<1> QED
  BY <1>1, FewerTokens

LEMMA NextPaid ==
  ASSUME TypeOK, TypeOK', PipelineAssumption, BatchInv, Paid, [Next]_vars
  PROVE  Paid'
<1> USE DEF rawVars, retryVars, dlqVars
<1>1. CASE UNCHANGED <<msg, runread, rwork, rpc, fails>>
  BY <1>1, QuietPays DEF InHand, HasFailed
<1>2. CASE UNCHANGED <<rwork, rpc, fails>> /\ \E id : AddRetry(id, 0)
  BY <1>2, NewRetryPays
<1>3. ASSUME NEW b \in Backends, NEW S \in SUBSET runread, UNCHANGED <<msg, fails>>,
             \A c \in Backends \ {b} : rwork'[c] = rwork[c] /\ rpc'[c] = rpc[c],
             \/ rwork'[b] = {} /\ runread' \subseteq runread
             \/ rwork'[b] \subseteq runread /\ runread' \subseteq runread /\ rpc'[b] = "analyse"
             \/ rwork'[b] = rwork[b] /\ rpc[b] # "ack" /\ rpc'[b] # "resend" /\ runread' = runread
      PROVE  Paid'
  <2>1. \A p : HasFailed(p)' => HasFailed(p)
    BY <1>3 DEF HasFailed, IsOldest
  <2>2. \A p : InHand(p)' => InHand(p)
    BY <1>3 DEF InHand
  <2> QED
    BY <1>3, <2>1, <2>2, QuietPays
<1>4. CASE Publish \/ PublishToRetry \/ PublishTwice
  BY <1>1, <1>2, <1>4 DEF Publish, PublishToRetry, PublishTwice
<1>5. ASSUME NEW b \in Backends,
             \/ ReadPending(b) \/ ReadNew(b) \/ Analyse(b) \/ AnalyseFails(b) \/ Resend(b)
             \/ Ack(b) \/ ParserFault(b)
      PROVE  Paid'
  BY <1>1, <1>2, <1>5
     DEF ReadPending, ReadNew, Analyse, AnalyseFails, Resend, Ack, ParserFault
<1>6. ASSUME NEW b \in Backends, Start(b) PROVE Paid'
  <2>1. rpc[b] # "ack" /\ rpc'[b] # "resend" /\ \A c \in Backends \ {b} : rpc'[c] = rpc[c]
    BY <1>6 DEF Start, TypeOK, BatchInv
  <2> QED
    BY <1>3, <1>6, <2>1 DEF Start
<1>7. ASSUME NEW b \in Backends, RetryRead(b) PROVE Paid'
  <2>1. PICK S \in SUBSET runread : runread' = runread \ S /\ rwork' = [rwork EXCEPT ![b] = S]
    BY <1>7 DEF RetryRead
  <2>2. /\ rpc'[b] = "analyse" /\ rwork'[b] = S
        /\ \A c \in Backends \ {b} : rpc'[c] = rpc[c] /\ rwork'[c] = rwork[c]
    BY <1>7, <2>1 DEF RetryRead, TypeOK
  <2> QED
    BY <1>3, <1>7, <2>1, <2>2 DEF RetryRead
<1>8. ASSUME NEW b \in Backends, RetryAnalyse(b) PROVE Paid'
  <2>1. rpc[b] # "ack" /\ rpc'[b] # "resend" /\ \A c \in Backends \ {b} : rpc'[c] = rpc[c]
    BY <1>8 DEF RetryAnalyse, TypeOK
  <2> QED
    BY <1>3, <1>8, <2>1 DEF RetryAnalyse
<1>9. ASSUME NEW b \in Backends, RetryResend(b) PROVE Paid'
  <2>1. PICK q \in rwork[b] : IsOldest(q, rwork[b]) /\ SendOn(q)
    BY <1>9 DEF RetryResend
  <2> QED
    BY <1>9, <2>1, SendOnPays DEF RetryResend
<1>10. ASSUME NEW b \in Backends, RetryAck(b) PROVE Paid'
  <2>1. PICK q \in rwork[b] : IsOldest(q, rwork[b]) /\ rwork' = [rwork EXCEPT ![b] = rwork[b] \ {q}]
    BY <1>10 DEF RetryAck
  <2>2. /\ rpc[b] = "ack" /\ rpc'[b] \in {"read", "analyse"} /\ rwork'[b] = rwork[b] \ {q}
        /\ \A c \in Backends \ {b} : rpc'[c] = rpc[c] /\ rwork'[c] = rwork[c]
        /\ UNCHANGED <<msg, runread, fails>>
    BY <1>10, <2>1 DEF RetryAck, TypeOK
  <2>3. ASSUME NEW p, HasFailed(p)' PROVE HasFailed(p)
    BY <2>2, <2>3 DEF HasFailed
  <2>4. ASSUME NEW p, InHand(p)' PROVE InHand(p)
    <3>1. p \in rwork[b] \ {q} => ~IsOldest(p, rwork[b])
      BY <2>1, OldestIsOne
    <3> QED
      BY <2>2, <2>4, <3>1 DEF InHand
  <2> QED
    BY <2>2, <2>3, <2>4, QuietPays
<1>11. ASSUME NEW b \in Backends, RetryFault(b) PROVE Paid'
  <2>1. /\ fails' = fails /\ rwork' = [rwork EXCEPT ![b] = {}]
        /\ rpc' = [rpc EXCEPT ![b] = "stopped"]
    BY <1>11 DEF RetryFault
  <2>2. CASE rpc[b] = "resend" /\ \E q \in rwork[b] : IsOldest(q, rwork[b]) /\ SendOn(q)
    BY <2>1, <2>2, SendOnPays
  <2>3. CASE msg' = msg /\ runread' \subseteq runread
    <3>1. rwork'[b] = {} /\ \A c \in Backends \ {b} : rpc'[c] = rpc[c] /\ rwork'[c] = rwork[c]
      BY <2>1 DEF TypeOK
    <3> QED
      BY <1>3, <2>1, <2>3, <3>1
  <2> QED
    BY <1>11, <2>2, <2>3 DEF RetryFault
<1>12. ASSUME NEW b \in Backends, Crash(b) PROVE Paid'
  <2>1. rwork'[b] = {} /\ \A c \in Backends \ {b} : rpc'[c] = rpc[c] /\ rwork'[c] = rwork[c]
    BY <1>12 DEF Crash, TypeOK
  <2> QED
    BY <1>3, <1>12, <2>1 DEF Crash
<1>13. ASSUME NEW p \in dlq, ReplayRead(p) \/ PurgeDLQ(p) PROVE Paid'
  BY <1>1, <1>13 DEF ReplayRead, PurgeDLQ
<1>14. ASSUME NEW r \in replays, ReplaySend(r) \/ ReplayDelete(r) \/ ReplayAborts(r)
       PROVE  Paid'
  BY <1>1, <1>2, <1>14 DEF ReplaySend, ReplayDelete, ReplayAborts
<1>15. CASE UNCHANGED vars
  BY <1>1, <1>15 DEF vars
<1>16. ASSUME NEW b \in Backends, RetryAnalyseFails(b) PROVE Paid'
  BY <1>16, FailurePays
<1> QED
  BY <1>4, <1>5, <1>6, <1>7, <1>8, <1>9, <1>10, <1>11, <1>12, <1>13, <1>14, <1>15, <1>16 DEF Next

LEMMA NextBatch ==
  ASSUME TypeOK, TypeOK', BatchInv, [Next]_vars
  PROVE  BatchInv'
<1> USE DEF rawVars, retryVars, dlqVars
<1>1. CASE UNCHANGED <<msg, runread, rwork, rpc, pc>>
  BY <1>1 DEF BatchInv
<1>2. ASSUME NEW id, AddRetry(id, 0), UNCHANGED <<rwork, rpc>>,
             \A b \in Backends : pc'[b] = "down" => pc[b] = "down"
      PROVE  BatchInv'
  <2>1. /\ msg'[NextPos].to = "retry" /\ \A p \in DOMAIN msg : msg'[p] = msg[p]
        /\ runread' = runread \cup {NextPos} /\ NextPos \notin DOMAIN msg
    BY <1>2, AppendedEntry DEF AddRetry, Entry
  <2>2. runread \subseteq DOMAIN msg /\ \A b \in Backends : rwork[b] \subseteq DOMAIN msg
    BY DEF TypeOK
  <2> QED
    BY <1>2, <2>1, <2>2 DEF BatchInv
<1>3. CASE /\ UNCHANGED <<msg, runread, rwork, rpc>>
           /\ \A b \in Backends : pc'[b] = "down" => pc[b] = "down"
  BY <1>3 DEF BatchInv
<1>4. CASE Publish \/ PublishToRetry \/ PublishTwice
  BY <1>2, <1>3, <1>4 DEF Publish, PublishToRetry, PublishTwice
<1>5. ASSUME NEW b \in Backends,
             \/ ReadPending(b) \/ ReadNew(b) \/ Analyse(b) \/ AnalyseFails(b) \/ Resend(b)
             \/ Ack(b) \/ ParserFault(b)
      PROVE  BatchInv'
  <2>1. \A c \in Backends : pc'[c] = "down" => pc[c] = "down"
    BY <1>5 DEF ReadPending, ReadNew, Analyse, AnalyseFails, Resend, Ack, ParserFault, TypeOK
  <2>2. CASE Resend(b) \/ ParserFault(b)
    BY <1>2, <1>3, <2>1, <2>2 DEF Resend, ParserFault
  <2>3. CASE ReadPending(b) \/ ReadNew(b) \/ Analyse(b) \/ AnalyseFails(b) \/ Ack(b)
    BY <1>3, <2>1, <2>3 DEF ReadPending, ReadNew, Analyse, AnalyseFails, Ack
  <2> QED
    BY <1>5, <2>2, <2>3
<1>6. ASSUME NEW b \in Backends, Start(b) \/ Crash(b) PROVE BatchInv'
  <2>1. /\ UNCHANGED <<msg, runread>>
        /\ \A c \in Backends \ {b} : rpc'[c] = rpc[c] /\ pc'[c] = pc[c] /\ rwork'[c] = rwork[c]
        /\ rwork'[b] = {} /\ (pc'[b] = "down" => rpc'[b] = "down")
    <3>1. CASE Start(b)
      <4>1. rwork[b] = {}
        BY <3>1 DEF Start, BatchInv
      <4> QED
        BY <3>1, <4>1 DEF Start, TypeOK
    <3>2. CASE Crash(b)
      BY <3>2 DEF Crash, TypeOK
    <3> QED
      BY <1>6, <3>1, <3>2
  <2> QED
    BY <2>1 DEF BatchInv
<1>7. ASSUME NEW b \in Backends, RetryRead(b) PROVE BatchInv'
  <2>1. PICK S \in SUBSET runread : runread' = runread \ S /\ rwork' = [rwork EXCEPT ![b] = S]
    BY <1>7 DEF RetryRead
  <2>2. /\ rpc[b] = "read" /\ rpc'[b] = "analyse" /\ rwork'[b] = S /\ UNCHANGED <<msg, pc>>
        /\ \A c \in Backends \ {b} : rpc'[c] = rpc[c] /\ rwork'[c] = rwork[c]
    BY <1>7, <2>1 DEF RetryRead, TypeOK
  <2> QED
    BY <2>1, <2>2 DEF BatchInv
<1>8. ASSUME NEW b \in Backends, RetryAnalyse(b) \/ RetryAnalyseFails(b) PROVE BatchInv'
  <2>1. /\ rpc[b] = "analyse" /\ rpc'[b] \in {"ack", "resend"}
        /\ \A c \in Backends \ {b} : rpc'[c] = rpc[c]
        /\ UNCHANGED <<msg, runread, rwork, pc>>
    BY <1>8 DEF RetryAnalyse, RetryAnalyseFails, TypeOK
  <2> QED
    BY <2>1 DEF BatchInv
<1>9. ASSUME NEW b \in Backends, NEW q, SendOn(q), rpc[b] = "resend", pc' = pc,
             \A c \in Backends \ {b} : rpc'[c] = rpc[c] /\ rwork'[c] = rwork[c],
             \/ rwork'[b] = rwork[b] /\ rpc'[b] = "ack"
             \/ rwork'[b] = {} /\ rpc'[b] = "stopped"
      PROVE  BatchInv'
  <2>1. /\ runread' \subseteq runread \cup {NextPos} /\ NextPos \notin DOMAIN msg
        /\ NextPos \in runread' => msg'[NextPos].to = "retry"
        /\ \A p \in DOMAIN msg : msg'[p] = msg[p]
    <3>1. CASE msg' = Append(msg, Entry(msg[q].id, 0, "dlq")) /\ UNCHANGED runread
      BY <3>1, AppendedEntry DEF TypeOK
    <3>2. CASE AddRetry(msg[q].id, msg[q].fc + 1)
      BY <3>2, AppendedEntry DEF AddRetry, Entry
    <3> QED
      BY <1>9, <3>1, <3>2 DEF SendOn
  <2>2. runread \subseteq DOMAIN msg /\ \A c \in Backends : rwork[c] \subseteq DOMAIN msg
    BY DEF TypeOK
  <2>3. \A p \in runread' : msg'[p].to = "retry" /\ \A c \in Backends : p \notin rwork'[c]
    BY <1>9, <2>1, <2>2 DEF BatchInv
  <2> QED
    BY <1>9, <2>1, <2>2, <2>3 DEF BatchInv
<1>10. ASSUME NEW b \in Backends, RetryResend(b) PROVE BatchInv'
  <2>1. PICK q : SendOn(q)
    BY <1>10 DEF RetryResend
  <2>2. /\ rpc[b] = "resend" /\ rpc'[b] = "ack" /\ rwork'[b] = rwork[b] /\ pc' = pc
        /\ \A c \in Backends \ {b} : rpc'[c] = rpc[c] /\ rwork'[c] = rwork[c]
    BY <1>10 DEF RetryResend, TypeOK
  <2> QED
    BY <1>9, <2>1, <2>2
<1>11. ASSUME NEW b \in Backends, RetryAck(b) PROVE BatchInv'
  <2>1. PICK q \in rwork[b] : rwork' = [rwork EXCEPT ![b] = rwork[b] \ {q}]
    BY <1>11 DEF RetryAck
  <2>2. /\ rpc[b] = "ack" /\ rwork'[b] = rwork[b] \ {q}
        /\ rpc'[b] = IF rwork'[b] = {} THEN "read" ELSE "analyse"
        /\ \A c \in Backends \ {b} : rpc'[c] = rpc[c] /\ rwork'[c] = rwork[c]
        /\ UNCHANGED <<msg, runread, pc>>
    BY <1>11, <2>1 DEF RetryAck, TypeOK
  <2> QED
    BY <2>2 DEF BatchInv
<1>12. ASSUME NEW b \in Backends, RetryFault(b) PROVE BatchInv'
  <2>1. /\ rwork'[b] = {} /\ rpc'[b] = "stopped" /\ pc' = pc /\ rpc[b] # "down"
        /\ \A c \in Backends \ {b} : rpc'[c] = rpc[c] /\ rwork'[c] = rwork[c]
    BY <1>12 DEF RetryFault, TypeOK
  <2>2. CASE rpc[b] = "resend" /\ \E q \in rwork[b] : SendOn(q)
    BY <1>9, <2>1, <2>2
  <2>3. CASE msg' = msg /\ runread' \subseteq runread
    BY <2>1, <2>3 DEF BatchInv
  <2> QED
    BY <1>12, <2>2, <2>3 DEF RetryFault
<1>13. ASSUME NEW p \in dlq, ReplayRead(p) \/ PurgeDLQ(p) PROVE BatchInv'
  BY <1>1, <1>13 DEF ReplayRead, PurgeDLQ
<1>14. ASSUME NEW r \in replays, ReplaySend(r) \/ ReplayDelete(r) \/ ReplayAborts(r)
       PROVE  BatchInv'
  BY <1>1, <1>2, <1>14 DEF ReplaySend, ReplayDelete, ReplayAborts
<1>15. CASE UNCHANGED vars
  BY <1>1, <1>15 DEF vars
<1> QED
  BY <1>4, <1>5, <1>6, <1>7, <1>8, <1>10, <1>11, <1>12, <1>13, <1>14, <1>15 DEF Next

LEMMA InitBInv == PipelineAssumption /\ Init => BInv
<1> SUFFICES ASSUME PipelineAssumption, Init PROVE BInv
  OBVIOUS
<1>1. IInv
  BY InitIInv
<1>2. BatchInv
  BY DEF Init, BatchInv
<1>3. Paid
  <2>1. DOMAIN msg = {} /\ \A id \in Ids : fails[id] = 0
    BY DEF Init
  <2>2. \A id : Tokens(id) = {}
    BY <2>1 DEF Tokens
  <2> QED
    BY <2>1, <2>2, FS_EmptySet DEF Paid, Ids
<1> QED
  BY <1>1, <1>2, <1>3 DEF BInv

LEMMA NextBInv == PipelineAssumption /\ BInv /\ [Next]_vars => BInv'
<1> SUFFICES ASSUME PipelineAssumption, BInv, [Next]_vars PROVE BInv'
  OBVIOUS
<1>1. IInv' /\ TypeOK /\ TypeOK'
  BY NextIInv DEF BInv, IInv
<1> QED
  BY <1>1, NextBatch, NextPaid DEF BInv

\* A log is in the dead-letter stream once for every MaxRetries + 1 retries of it that failed, at
\* the most: every dead-letter entry has failures of its own behind it, whatever copies of the log
\* are under way in other batches, and although a failing call or a crash comes between the
\* hand-over of an entry and its acknowledgement (ConsumeRetry).
THEOREM BudgetKept == Spec => []DlqOnlyAfterBudget
<1>1. PipelineAssumption
  BY PipelineAssumption
<1>2. PipelineAssumption /\ BInv => DlqOnlyAfterBudget
  <2> SUFFICES ASSUME PipelineAssumption, BInv, NEW id \in Ids
               PROVE  (MaxRetries + 1)
                        * Cardinality({p \in DOMAIN msg : msg[p].to = "dlq" /\ msg[p].id = id})
                          <= fails[id]
    BY DEF DlqOnlyAfterBudget
  <2>1. TypeOK /\ Paid
    BY DEF BInv, IInv
  <2>2. PICK D : D = {p \in DOMAIN msg : msg[p].to = "dlq" /\ msg[p].id = id}
    OBVIOUS
  <2>3. IsFiniteSet(D) /\ Cardinality(D) \in Nat
    <3>1. Len(msg) \in Nat /\ DOMAIN msg = 1 .. Len(msg)
      BY <2>1 DEF TypeOK
    <3>2. IsFiniteSet(DOMAIN msg)
      BY <3>1, FS_Interval
    <3>3. D \in SUBSET DOMAIN msg
      BY <2>2
    <3> QED
      BY <3>2, <3>3, FS_Subset, FS_CardinalityType
  <2>4. /\ MaxRetries \in Nat /\ IsFiniteSet(0 .. MaxRetries)
        /\ Cardinality(0 .. MaxRetries) = MaxRetries + 1
    BY FS_Interval DEF PipelineAssumption
  <2>5. /\ IsFiniteSet(D \X (0 .. MaxRetries))
        /\ Cardinality(D \X (0 .. MaxRetries)) = Cardinality(D) * (MaxRetries + 1)
    BY <2>3, <2>4, FS_Product
  <2>6. D \X (0 .. MaxRetries) \in SUBSET Tokens(id)
    BY <2>2 DEF Tokens, Spent
  <2>7. Cardinality(D \X (0 .. MaxRetries)) <= Cardinality(Tokens(id))
    BY <2>1, <2>6, TokensFinite, FS_Subset
  <2>8. Cardinality(Tokens(id)) <= fails[id] /\ fails[id] \in Nat
    BY <2>1 DEF Paid, TypeOK
  <2>9. Cardinality(D) * (MaxRetries + 1) = (MaxRetries + 1) * Cardinality(D)
    BY <2>3, <2>4
  <2>10. Cardinality(D) * (MaxRetries + 1) \in Nat /\ Cardinality(Tokens(id)) \in Nat
    BY <2>1, <2>3, <2>4, TokensFinite
  <2> QED
    BY <2>2, <2>5, <2>7, <2>8, <2>9, <2>10
<1> QED
  BY <1>1, <1>2, InitBInv, NextBInv, PTL DEF Spec

=============================================================================
