----------------------- MODULE StripFilePrefix_proofs -----------------------
(***************************************************************************)
(* Proofs about strip_file_prefix, for files and buffers of every size.    *)
(***************************************************************************)
EXTENDS StripFilePrefix, SequenceTheorems, TLAPS

(* While the copy runs, the bytes in user space are exactly those between  *)
(* what has been written and what has been read, in order, and the writer  *)
(* is behind the reader by the prefix and those bytes.                     *)
CopyInv ==
  pc \in {"copy", "flush", "unwind"} =>
    /\ InRange
    /\ size = total_size
    /\ wpos + length + Len(buf) = rpos
    /\ \A i \in 1 .. Len(buf) : buf[i] = wpos + length + i - 1

(* How far the copy must have come for each later step.                    *)
StageInv ==
  /\ pc = "start" => buf = <<>> /\ wpos = 0 /\ size = total_size
  /\ pc = "flush" => rpos = total_size
  /\ pc \in {"set_len", "sync"} => InRange /\ wpos = total_size - length
  /\ pc \in {"sync", "ok"} /\ InRange => size = total_size - length
  /\ pc = "ok" /\ ~InRange => size = total_size /\ wpos = 0
  /\ pc = "ok" => wpos = 0 \/ synced

(* The file is the shifted bytes up to wpos and the old bytes after it.    *)
DiskInv ==
  pc # "power_lost" =>
    /\ \A p \in 0 .. size - 1 : disk[p] = IF p < wpos THEN p + length ELSE p
    /\ wpos = 0 \/ wpos + length <= total_size
    /\ \/ size = total_size
       \/ InRange /\ size = total_size - length /\ wpos = size

IInv == TypeOK /\ CopyInv /\ StageInv /\ DiskInv
-----------------------------------------------------------------------------
LEMMA InitIInv == Init => IInv
<1> SUFFICES ASSUME Init PROVE IInv
  OBVIOUS
<1>1. buf = <<>> /\ <<>> \in Seq(Bytes)
  BY EmptySeq DEF Init
<1>2. TypeOK
  <2>1. Len(buf) <= MaxInFlight
    BY <1>1, MaxInFlightAssumption
  <2>2. total_size \in Nat /\ length \in Nat
    BY MaxSizeAssumption DEF Init
  <2>3. disk \in [0 .. size - 1 -> Bytes]
    BY DEF Init, Bytes
  <2>4. synced \in BOOLEAN
    BY DEF Init
  <2>5. size \in 0 .. total_size /\ rpos \in 0 .. total_size /\ wpos \in 0 .. total_size
    BY <2>2 DEF Init
  <2> QED
    BY <1>1, <2>1, <2>2, <2>3, <2>4, <2>5 DEF Init, TypeOK, Active
<1>3. CopyInv /\ StageInv /\ DiskInv
  BY MaxSizeAssumption DEF Init, CopyInv, StageInv, DiskInv, InRange, Bytes
<1> QED
  BY <1>2, <1>3 DEF IInv

(* One byte more in user space.                                            *)
LEMMA FillIInv == IInv /\ Fill => IInv'
<1> SUFFICES ASSUME IInv, Fill PROVE IInv'
  OBVIOUS
<1> USE DEF IInv, Fill
<1>1. disk[rpos] \in Bytes /\ disk[rpos] = rpos
  BY DEF TypeOK, CopyInv, DiskInv, InRange, Bytes
<1>2. /\ buf' \in Seq(Bytes)
      /\ Len(buf') = Len(buf) + 1
      /\ \A i \in 1 .. Len(buf) : buf'[i] = buf[i]
      /\ buf'[Len(buf) + 1] = rpos
  BY <1>1, AppendProperties DEF TypeOK
<1>3. Len(buf) \in Nat
  BY LenProperties DEF TypeOK
<1>4. TypeOK'
  BY <1>2, <1>3, MaxInFlightAssumption DEF TypeOK, Bytes
<1>5. CopyInv'
  BY <1>2, <1>3 DEF CopyInv, InRange, TypeOK
<1>6. StageInv' /\ DiskInv'
  BY DEF StageInv, DiskInv, InRange, TypeOK
<1> QED
  BY <1>4, <1>5, <1>6

(* One byte more in the file: the one its offset is waiting for.           *)
LEMMA DrainIInv == IInv /\ Drain => IInv'
<1> SUFFICES ASSUME IInv, Drain PROVE IInv'
  OBVIOUS
<1> USE DEF IInv, Drain
<1>0. Head(buf) = buf[1]
  OBVIOUS
<1>1. /\ Head(buf) \in Bytes
      /\ buf' \in Seq(Bytes)
      /\ Len(buf') = Len(buf) - 1
      /\ \A i \in 1 .. Len(buf') : buf'[i] = buf[i + 1]
      /\ Len(buf) \in Nat \ {0}
  BY HeadTailProperties, EmptySeq DEF TypeOK
<1>2. Head(buf) = wpos + length /\ wpos < size
  BY <1>0, <1>1 DEF TypeOK, CopyInv, InRange
<1>3. TypeOK'
  BY <1>1, <1>2, MaxInFlightAssumption DEF TypeOK, Bytes
<1>4. CopyInv'
  <2>1. /\ InRange /\ size = total_size /\ wpos + length + Len(buf) = rpos
        /\ \A i \in 1 .. Len(buf) : buf[i] = wpos + length + i - 1
    BY DEF CopyInv
  <2>2. ASSUME NEW i \in 1 .. Len(buf')
        PROVE buf'[i] = (wpos + 1) + length + i - 1
    BY <1>1, <2>1 DEF TypeOK
  <2>3. wpos' + length + Len(buf') = rpos
    BY <1>1, <2>1 DEF TypeOK
  <2> QED
    BY <2>1, <2>2, <2>3 DEF CopyInv, InRange
<1>5. StageInv'
  BY DEF StageInv, InRange
<1>6. DiskInv'
  <2>1. /\ InRange /\ size = total_size /\ wpos + 1 + length <= total_size
        /\ wpos \in 0 .. size - 1
    BY <1>1, <1>2 DEF CopyInv, TypeOK
  <2>2. ASSUME NEW p \in 0 .. size - 1
        PROVE disk'[p] = IF p < wpos + 1 THEN p + length ELSE p
    <3>1. disk \in [0 .. size - 1 -> Bytes] /\ wpos \in Nat
      BY DEF TypeOK
    <3>2. disk[p] = IF p < wpos THEN p + length ELSE p
      BY DEF DiskInv
    <3>3. disk'[p] = IF p = wpos THEN wpos + length ELSE disk[p]
      BY <1>2, <2>1, <3>1
    <3> QED
      BY <3>1, <3>2, <3>3
  <2> QED
    BY <2>1, <2>2 DEF DiskInv
<1> QED
  BY <1>3, <1>4, <1>5, <1>6

LEMMA SetLenIInv == IInv /\ SetLen => IInv'
<1> SUFFICES ASSUME IInv, SetLen PROVE IInv'
  OBVIOUS
<1> USE DEF IInv, SetLen, Bytes
<1>1. InRange /\ wpos = total_size - length /\ size' \in 0 .. size
  BY DEF TypeOK, StageInv, DiskInv, InRange
<1>2. TypeOK'
  BY <1>1 DEF TypeOK, InRange, Active
<1>3. CopyInv' /\ StageInv' /\ DiskInv'
  BY <1>1 DEF CopyInv, StageInv, DiskInv, InRange, TypeOK
<1> QED
  BY <1>2, <1>3

LEMMA PowerLossIInv == IInv /\ PowerLoss => IInv'
<1> SUFFICES ASSUME IInv, PowerLoss PROVE IInv'
  OBVIOUS
<1> USE DEF IInv, Bytes
<1>1. PICK stale \in SUBSET (IF synced THEN {} ELSE 0 .. wpos - 1),
           n \in {size, IF synced THEN size ELSE total_size} :
        /\ size' = n
        /\ disk' = [p \in 0 .. n - 1 |->
                      IF p \in stale \/ p >= size THEN p ELSE disk[p]]
  BY DEF PowerLoss
<1>2. n \in 0 .. total_size
  BY DEF TypeOK
<1>3. TypeOK'
  BY <1>1, <1>2, MaxInFlightAssumption DEF TypeOK, PowerLoss, Ended
<1>4. CopyInv' /\ StageInv' /\ DiskInv'
  BY DEF PowerLoss, CopyInv, StageInv, DiskInv
<1> QED
  BY <1>3, <1>4

(* The steps that move no byte.                                            *)
LEMMA ControlIInv ==
  IInv /\ (Skip \/ OpenHandles \/ EndCopy \/ Flush \/ Sync \/ Fail \/ GiveUp \/ Kill)
    => IInv'
<1> USE MaxInFlightAssumption
    DEF IInv, TypeOK, CopyInv, StageInv, DiskInv, InRange, Bytes, Active, Ended
<1>1. IInv /\ Skip => IInv'
  BY DEF Skip
<1>2. IInv /\ OpenHandles => IInv'
  BY DEF OpenHandles
<1>3. IInv /\ EndCopy => IInv'
  BY DEF EndCopy
<1>4. IInv /\ Flush => IInv'
  BY DEF Flush
<1>5. IInv /\ Sync => IInv'
  BY DEF Sync
<1>6. IInv /\ Fail => IInv'
  BY DEF Fail
<1>7. IInv /\ GiveUp => IInv'
  BY DEF GiveUp
<1>8. IInv /\ Kill => IInv'
  BY DEF Kill
<1> QED
  BY <1>1, <1>2, <1>3, <1>4, <1>5, <1>6, <1>7, <1>8

LEMMA StutterIInv == IInv /\ UNCHANGED vars => IInv'
  BY DEF vars, IInv, TypeOK, CopyInv, StageInv, DiskInv, InRange, Bytes

LEMMA NextIInv == IInv /\ [Next]_vars => IInv'
  BY FillIInv, DrainIInv, SetLenIInv, PowerLossIInv, ControlIInv, StutterIInv
  DEF Next, Progress

(* The strengthened invariant of strip_file_prefix.                        *)
THEOREM Invariance == Spec => []IInv
  BY InitIInv, NextIInv, PTL DEF Spec
-----------------------------------------------------------------------------
(* Every variable of the call keeps its type: the offsets stay within the  *)
(* file and the copy never indexes past its end.                           *)
THEOREM TypeCorrect == Spec => []TypeOK
<1>1. IInv => TypeOK
  BY DEF IInv
<1> QED
  BY <1>1, Invariance, PTL

LEMMA IInvSurvives == IInv => UnconsumedSurvives
<1> SUFFICES ASSUME IInv, pc # "power_lost", NEW j \in length .. total_size - 1
             PROVE \E p \in 0 .. size - 1 : disk[p] = j
  BY DEF UnconsumedSurvives
<1> USE DEF IInv, TypeOK, DiskInv, InRange
<1>1. CASE j - length < wpos
  <2>1. j - length \in 0 .. size - 1
    BY <1>1
  <2>2. disk[j - length] = j
    BY <1>1, <2>1
  <2> QED
    BY <2>1, <2>2
<1>2. CASE ~(j - length < wpos)
  <2>1. j \in 0 .. size - 1 /\ ~(j < wpos)
    BY <1>2
  <2> QED
    BY <2>1
<1> QED
  BY <1>1, <1>2

(* However far strip_file_prefix gets, no byte behind the prefix is lost   *)
(* to an error or to a kill.                                               *)
THEOREM NothingLost == Spec => []UnconsumedSurvives
  BY Invariance, IInvSurvives, PTL

LEMMA IInvOk == IInv => OkMeansStripped
  BY DEF IInv, TypeOK, StageInv, DiskInv, OkMeansStripped, InRange, Bytes

(* An Ok from strip_file_prefix means that exactly the prefix is gone.     *)
THEOREM OkCorrect == Spec => []OkMeansStripped
  BY Invariance, IInvOk, PTL
-----------------------------------------------------------------------------
LEMMA OkStep == IInv /\ [Next]_vars /\ pc = "ok" => UNCHANGED <<disk, size>>
<1> SUFFICES ASSUME IInv, Next, pc = "ok" PROVE UNCHANGED <<disk, size>>
  BY DEF vars
<1>1. PowerLoss
  BY DEF Next, Progress, Skip, OpenHandles, Fill, Drain, EndCopy, Flush, SetLen,
         Sync, GiveUp, Fail, Kill, Active
<1>2. PICK stale \in SUBSET (IF synced THEN {} ELSE 0 .. wpos - 1),
           n \in {size, IF synced THEN size ELSE total_size} :
        /\ size' = n
        /\ disk' = [p \in 0 .. n - 1 |->
                      IF p \in stale \/ p >= size THEN p ELSE disk[p]]
  BY <1>1 DEF PowerLoss
<1>3. stale = {} /\ n = size
  BY DEF IInv, TypeOK, StageInv, DiskInv, InRange
<1>4. disk' = disk
  BY <1>2, <1>3 DEF IInv, TypeOK
<1> QED
  BY <1>2, <1>3, <1>4

(* After strip_file_prefix has returned Ok, not even a power failure       *)
(* changes the file.                                                       *)
THEOREM Durable == Spec => OkIsDurable
  BY Invariance, OkStep, PTL DEF Spec, OkIsDurable
-----------------------------------------------------------------------------
(* The contract, with the file and the call as the caller has them.        *)
LEMMA ContractInit == Init => Contract!Init
  BY MaxSizeAssumption DEF Init, Contract!Init, Contract!Unstripped, Active, Bytes

(* The call returns Ok: with everything, or with all but the prefix.       *)
LEMMA ContractReturn ==
  ASSUME IInv, Skip \/ Sync
  PROVE  Contract!Return
<1>1. /\ pc \in {"start", "sync"} /\ pc' = "ok" /\ disk' = disk
      /\ total_size' = total_size /\ length' = length
      /\ pc = "start" => ~InRange
  BY DEF Skip, Sync
<1>2. /\ disk \in [0 .. size - 1 -> Bytes] /\ total_size \in Nat /\ length \in Nat
      /\ size \in Nat
  BY DEF IInv, TypeOK
<1>3. \A p \in 0 .. size - 1 : disk[p] = IF p < wpos THEN p + length ELSE p
  BY <1>1 DEF IInv, DiskInv
<1>4. CASE pc = "start"
  <2>1. size = total_size /\ wpos = 0
    BY <1>4 DEF IInv, StageInv
  <2>2. \A p \in 0 .. size - 1 : disk[p] = p
    BY <1>3, <2>1
  <2>3. disk = [p \in Bytes |-> p]
    BY <1>2, <2>1, <2>2 DEF Bytes
  <2> QED
    BY <1>1, <1>4, <2>3 DEF Contract!Return, Contract!InRange, InRange, Active
<1>5. CASE pc = "sync"
  <2>1. InRange /\ wpos = total_size - length /\ size = total_size - length
    BY <1>5 DEF IInv, StageInv
  <2>2. \A p \in 0 .. size - 1 : disk[p] = p + length
    BY <1>3, <2>1
  <2>3. disk = [p \in 0 .. total_size - length - 1 |-> p + length]
    BY <1>2, <2>1, <2>2
  <2> QED
    BY <1>1, <1>5, <2>1, <2>3
    DEF Contract!Return, Contract!InRange, Contract!Suffix, InRange, Active
<1> QED
  BY <1>1, <1>4, <1>5

LEMMA SurvivesAfter == IInv' => UnconsumedSurvives'
  BY IInvSurvives, PTL

(* The call is cut short: every byte behind the prefix is in the file.     *)
LEMMA ContractAbandon ==
  ASSUME IInv, IInv', pc \in Active, pc' \in {"err", "killed"},
         total_size' = total_size, length' = length
  PROVE  Contract!Abandon
<1>1. \A j \in length .. total_size - 1 : \E p \in 0 .. size' - 1 : disk'[p] = j
  <2>1. UnconsumedSurvives'
    BY SurvivesAfter
  <2> QED
    BY <2>1 DEF UnconsumedSurvives
<1>2. DOMAIN disk' = 0 .. size' - 1
  BY DEF IInv, TypeOK
<1>3. pc' \notin Active
  BY DEF Active
<1> QED
  BY <1>1, <1>2, <1>3 DEF Contract!Abandon, Active

LEMMA ContractStep == IInv /\ IInv' /\ [Next]_vars => [Contract!Next]_(Contract!vars)
<1> SUFFICES ASSUME IInv, IInv', [Next]_vars
             PROVE  Contract!Next \/ UNCHANGED Contract!vars
  OBVIOUS
<1>1. CASE Skip \/ Sync
  BY <1>1, ContractReturn DEF Contract!Next
<1>2. CASE OpenHandles \/ Fill \/ Drain \/ EndCopy \/ Flush \/ SetLen
  <2>1. pc \in Active /\ pc' \in Active /\ total_size' = total_size /\ length' = length
    BY <1>2 DEF OpenHandles, Fill, Drain, EndCopy, Flush, SetLen, Active
  <2> QED
    BY <2>1 DEF Contract!vars, Bytes
<1>3. CASE Fail
  <2>1. CASE pc' = "unwind"
    BY <1>3, <2>1 DEF Fail, Contract!vars, Bytes, Active
  <2>2. CASE pc' = "err"
    BY <1>3, <2>2, ContractAbandon DEF Fail, Contract!Next
  <2> QED
    BY <1>3, <2>1, <2>2 DEF Fail
<1>4. CASE GiveUp \/ Kill
  BY <1>4, ContractAbandon DEF GiveUp, Kill, Contract!Next, Active
<1>5. CASE PowerLoss
  <2>1. pc # "power_lost" /\ pc' = "power_lost" /\ pc \in Active \cup Ended
        /\ total_size' = total_size /\ length' = length
    BY <1>5 DEF PowerLoss, IInv, TypeOK
  <2>2. pc = "ok" => disk' = disk
    BY <1>5, OkStep DEF Next
  <2>3. Contract!LosePower
    BY <2>1, <2>2 DEF Contract!LosePower, Active, Ended
  <2> QED
    BY <2>3 DEF Contract!Next
<1>6. CASE UNCHANGED vars
  BY <1>6 DEF vars, Contract!vars, Bytes
<1> QED
  BY <1>1, <1>2, <1>3, <1>4, <1>5, <1>6 DEF Next, Progress

(* To its caller strip_file_prefix is one indivisible step: StripContract, *)
(* on which StrippingReader is built, is what the code implements.         *)
THEOREM ContractKept == Spec => ImplementsContract
  BY Invariance, ContractInit, ContractStep, PTL
  DEF Spec, ImplementsContract, Contract!Spec
=============================================================================
