----------------------------- MODULE RelayProofs -----------------------------
(***************************************************************************)
(* Proofs about Relay, for any statuses and any number of chunks.           *)
(***************************************************************************)
EXTENDS Relay, TLAPS

\* Until an interim response is seen, the writer, net/http and the truth agree.
StatusInv ==
  ~interim => IF pc = "roundTrip" THEN status = 0 /\ header = 0
              ELSE due >= 200 /\ status = due /\ header = due

\* Every chunk is accepted and counted, unless the copy has broken off.
CountInv ==
  /\ counted = taken
  /\ pc \in {"roundTrip", "write"} => produced = 0
  /\ pc \in {"roundTrip", "copy", "write", "flush"} => ~aborted
  /\ ~aborted => taken = produced

FlushInv ==
  /\ pc = "copy" /\ produced > 0 => flushed = produced
  /\ pc = "done" /\ ~aborted => flushed = produced

LogInv ==
  pc = "done" => /\ logged.bytes = counted
                 /\ ~interim => logged.status = due

IInv == TypeOK /\ StatusInv /\ CountInv /\ FlushInv /\ LogInv

LEMMA FlagsStep ==
  ASSUME Flags, [Next]_vars
  PROVE  Flags'
<1>. USE DEF Flags
<1>1. CASE SendInterim  BY <1>1, Zenon DEF SendInterim
<1>2. CASE SendHeaders  BY <1>2, Zenon DEF SendHeaders
<1>3. CASE FailHeaders  BY <1>3, ZenonT(30) DEF FailHeaders
<1>4. CASE FailBody
  <2>1. PICK n \in {0, 1} : aborted' = (n = 0)
    <3>. HIDE DEF Flags
    <3>. QED  BY <1>4, Zenon DEF FailBody
  <2>2. (n = 0) \in BOOLEAN  OBVIOUS
  <2>3. aborted' \in BOOLEAN  BY <2>1, <2>2, Zenon
  <2>. QED  BY <1>4, <2>3, Zenon DEF FailBody
<1>5. CASE TimerFlush   BY <1>5, Zenon DEF TimerFlush
<1>6. CASE CopyChunk    BY <1>6, Zenon DEF CopyChunk
<1>7. CASE FlushChunk   BY <1>7, Zenon DEF FlushChunk
<1>8. CASE CopyEnds     BY <1>8, Zenon DEF CopyEnds
<1>9. CASE LogAndFinish BY <1>9, Zenon DEF LogAndFinish
<1>10. CASE UNCHANGED vars  BY <1>10, Zenon DEF vars
<1>. QED
  BY <1>1, <1>2, <1>3, <1>4, <1>5, <1>6, <1>7, <1>8, <1>9, <1>10, Zenon DEF Next, Terminated

LEMMA NextInv ==
  ASSUME IInv, [Next]_vars
  PROVE  IInv'
<1>. USE FinalAssumption, InterimAssumption, ChunksAssumption
     DEF IInv, TypeOK, StatusInv, CountInv, FlushInv, LogInv
<1>0. Flags'  BY FlagsStep
<1>1. CASE SendInterim
  BY <1>0, <1>1 DEF SendInterim, WriteHeader, NetHeader
<1>2. CASE SendHeaders
  BY <1>0, <1>2 DEF SendHeaders, WriteHeader, NetHeader
<1>3. CASE FailHeaders
  BY <1>0, <1>3 DEF FailHeaders, WriteHeader, NetHeader
<1>4. CASE FailBody
  <2>1. PICK n \in {0, 1} : Write(n) /\ aborted' = (n = 0)
    BY <1>0, <1>4 DEF FailBody
  <2>2. /\ pc = "write" /\ produced' = 1 /\ pc' = "log"
        /\ due' = due /\ interim' = interim /\ flushed' = flushed /\ timer' = timer
        /\ logged' = logged
    BY <1>0, <1>4 DEF FailBody
  <2>3. TypeOK'
    <3>1. taken' \in 0 .. produced' /\ counted' \in 0 .. taken'
      BY <2>1, <2>2 DEF Write
    <3>2. flushed' \in -1 .. taken' /\ produced' \in 0 .. MaxChunks + 1
      BY <2>1, <2>2 DEF Write
    <3>3. /\ status' \in {0, 200, 502, 504} \cup Final \cup Interim
          /\ header' \in {0, 200, 502, 504} \cup Final
      BY <2>1, <2>2 DEF Write, Implied
    <3>. QED  BY <1>0, <2>2, <3>1, <3>2, <3>3
  <2>4. StatusInv' /\ LogInv'  BY <2>1, <2>2 DEF Write, Implied
  <2>5. CountInv' /\ FlushInv'
    <3>1. CASE n = 0
      <4>1. aborted'
        <5>. HIDE DEF IInv
        <5>. QED  BY <2>1, <3>1, Zenon
      <4>. QED  BY <2>1, <2>2, <3>1, <4>1 DEF Write
    <3>2. CASE n = 1
      BY <2>1, <2>2, <3>2 DEF Write
    <3>. QED  BY <3>1, <3>2
  <2>. QED  BY <2>3, <2>4, <2>5
<1>5. CASE TimerFlush
  <2>1. TypeOK'  BY <1>0, <1>5 DEF TimerFlush, Flush, Implied
  <2>2. StatusInv' /\ LogInv'  BY <1>0, <1>5 DEF TimerFlush, Flush, Implied
  <2>3. CountInv' /\ FlushInv'  BY <1>0, <1>5 DEF TimerFlush, Flush, Implied
  <2>. QED  BY <2>1, <2>2, <2>3
<1>6. CASE CopyChunk
  <2>1. /\ pc = "copy" /\ produced < MaxChunks /\ produced' = produced + 1
        /\ due' = due /\ interim' = interim /\ flushed' = flushed /\ logged' = logged
    BY <1>0, <1>6 DEF CopyChunk
  <2>2. CASE Write(1) /\ pc' = "flush" /\ UNCHANGED <<aborted, timer>>
    <3>1. TypeOK'  BY <1>0, <2>1, <2>2 DEF Write, Implied
    <3>2. StatusInv' /\ LogInv'  BY <2>1, <2>2 DEF Write, Implied
    <3>3. CountInv' /\ FlushInv'  BY <2>1, <2>2 DEF Write
    <3>. QED  BY <3>1, <3>2, <3>3
  <2>3. CASE Write(0) /\ pc' = "log" /\ aborted' = TRUE /\ timer' = FALSE
    <3>1. TypeOK'  BY <1>0, <2>1, <2>3 DEF Write, Implied
    <3>2. StatusInv' /\ LogInv'  BY <2>1, <2>3 DEF Write, Implied
    <3>3. CountInv' /\ FlushInv'  BY <2>1, <2>3 DEF Write
    <3>. QED  BY <3>1, <3>2, <3>3
  <2>4. \/ Write(1) /\ pc' = "flush" /\ UNCHANGED <<aborted, timer>>
        \/ Write(0) /\ pc' = "log" /\ aborted' = TRUE /\ timer' = FALSE
    <3>. HIDE DEF IInv
    <3>. QED  BY <1>6, Zenon DEF CopyChunk
  <2>. HIDE DEF IInv
  <2>. QED  BY <2>2, <2>3, <2>4, Zenon
<1>7. CASE FlushChunk
  BY <1>0, <1>7 DEF FlushChunk, Flush, Implied
<1>8. CASE CopyEnds
  <2>1. TypeOK'  BY <1>0, <1>8 DEF CopyEnds, writer, net
  <2>2. StatusInv' /\ LogInv'  BY <1>0, <1>8 DEF CopyEnds, writer, net
  <2>3. CountInv' /\ FlushInv'  BY <1>0, <1>8 DEF CopyEnds, writer, net
  <2>. QED  BY <2>1, <2>2, <2>3
<1>9. CASE LogAndFinish
  BY <1>0, <1>9 DEF LogAndFinish, LoggedStatus, Implied, writer
<1>10. CASE UNCHANGED vars
  BY <1>0, <1>10 DEF vars
<1>. QED
  BY <1>0, <1>1, <1>2, <1>3, <1>4, <1>5, <1>6, <1>7, <1>8, <1>9, <1>10
  DEF Next, Terminated

\* The invariant holds for any upstream and any response.
THEOREM Inductive == Spec => []IInv
<1>1. Init => IInv
  <2>0. Init => Flags  BY DEF Init, Flags
  <2>1. Init => TypeOK  BY <2>0, ChunksAssumption DEF Init, TypeOK, Unlogged
  <2>2. Init => StatusInv /\ CountInv /\ FlushInv /\ LogInv
    BY DEF Init, StatusInv, CountInv, FlushInv, LogInv
  <2>. QED  BY <2>1, <2>2 DEF IInv
<1>2. IInv /\ [Next]_vars => IInv'  BY NextInv
<1>. QED  BY <1>1, <1>2, PTL DEF Spec

\* The variables hold values of their types.
THEOREM TypeCorrect == Spec => []TypeOK
<1>1. IInv => TypeOK  BY DEF IInv
<1>. QED  BY <1>1, Inductive, PTL

\* Without an interim response the status reaches the client and the log.
THEOREM StatusReaches == Spec => []StatusWithoutInterim
<1>1. IInv => StatusWithoutInterim
  BY DEF IInv, StatusInv, LogInv, StatusWithoutInterim
<1>. QED  BY <1>1, Inductive, PTL

\* A response that is not broken off is delivered whole and counted right.
THEOREM BytesReach == Spec => []BytesPreserved
<1>1. IInv => BytesPreserved
  BY DEF IInv, CountInv, FlushInv, LogInv, BytesPreserved
<1>. QED  BY <1>1, Inductive, PTL

\* While the proxy waits for a chunk the client has all the previous ones.
THEOREM StreamReaches == Spec => []Streamed
<1>1. IInv => Streamed  BY DEF IInv, FlushInv, Streamed
<1>. QED  BY <1>1, Inductive, PTL

=============================================================================
