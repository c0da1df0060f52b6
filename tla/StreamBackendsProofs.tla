------------------------ MODULE StreamBackendsProofs ------------------------
(***************************************************************************)
(* Proofs about the backends, for any number of windows and any audio:     *)
(* first XasrStream (the states carried from window to window, what was    *)
(* decoded and what was dropped, the frame counter, the refinement of the  *)
(* causal stream); then DiarEncoder (the answer to a call depends on that  *)
(* call alone); then StreamBackends: the run loop keeps the contracts of   *)
(* both, so what is proved of each alone holds in the composition, for any *)
(* number of pieces.                                                       *)
(***************************************************************************)
EXTENDS StreamBackends, SequenceTheorems, FiniteSetTheorems, TLAPS

-----------------------------------------------------------------------------
(* Histories *)

\* The history of n windows is a sequence of that length; one more window makes
\* the history of n + 1.
LEMMA UptoFacts ==
  ASSUME NEW n \in Nat
  PROVE  /\ Upto(n) \in Seq(Nat) /\ Len(Upto(n)) = n
         /\ Append(Upto(n), n + 1) = Upto(n + 1)
         /\ SubSeq(Upto(n + 1), 1, n) = Upto(n)
         /\ Upto(0) = <<>>
<1>1. \A k \in Nat : Upto(k) \in Seq(Nat) /\ Len(Upto(k)) = k /\ \A i \in 1 .. k : Upto(k)[i] = i
  BY DEF Upto
<1>0. n + 1 \in Nat /\ 1 \in Int /\ n - 1 + 1 = n
  OBVIOUS
<1>5. /\ Upto(n) \in Seq(Nat) /\ Len(Upto(n)) = n /\ \A i \in 1 .. n : Upto(n)[i] = i
      /\ Upto(n + 1) \in Seq(Nat) /\ Len(Upto(n + 1)) = n + 1 /\ \A i \in 1 .. n + 1 : Upto(n + 1)[i] = i
  BY <1>0, <1>1
<1>2. Append(Upto(n), n + 1) = Upto(n + 1)
  <2>. DEFINE s == Append(Upto(n), n + 1)
  <2>1. s \in Seq(Nat) /\ Len(s) = n + 1 /\ \A i \in 1 .. n + 1 : s[i] = i
    BY <1>5
  <2>. QED
    BY <1>5, <2>1, SeqEqual
<1>3. SubSeq(Upto(n + 1), 1, n) = Upto(n)
  <2>. DEFINE s == SubSeq(Upto(n + 1), 1, n)
  <2>1. s \in Seq(Nat) /\ Len(s) = n /\ \A i \in 1 .. n : s[i] = i
    BY <1>5
  <2>. QED
    BY <1>5, <2>1, SeqEqual
<1>4. Upto(0) = <<>>
  BY <1>1
<1>. QED
  BY <1>5, <1>2, <1>3, <1>4

\* A sequence without repetitions has as many elements as it is long.
LEMMA RangeOfDistinct ==
  ASSUME NEW S, NEW s \in Seq(S), \A i, j \in DOMAIN s : i # j => s[i] # s[j]
  PROVE  IsFiniteSet(Range(s)) /\ Cardinality(Range(s)) = Len(s)
<1>1. Len(s) \in Nat /\ DOMAIN s = 1 .. Len(s) /\ s = [i \in DOMAIN s |-> s[i]]
  BY LenProperties
<1>2. s \in Bijection(1 .. Len(s), Range(s))
  BY <1>1 DEF Bijection, Injection, Surjection, IsInjective, Range
<1>3. ExistsBijection(1 .. Len(s), Range(s))
  BY <1>2 DEF ExistsBijection
<1>4. IsFiniteSet(1 .. Len(s))
  BY <1>1, 1 \in Int, Len(s) \in Int, FS_Interval
<1>. QED
  BY <1>1, <1>3, <1>4, FS_Bijection, FS_CountingElements

-----------------------------------------------------------------------------
(* The inductive invariant *)

\* The current set of states stands for the windows consumed; the window being
\* encoded is the next one, and once the graph has run the other set stands for
\* the history with it.
Stages ==
  /\ asr # "aborted" => sets[cur] = Upto(pos)
  /\ asr = "run" => feat = pos + 1 /\ pos < rows
  /\ asr = "read" => /\ pos < rows
                     /\ enc = Upto(pos + 1) /\ sets[1 - cur] = Upto(pos + 1)

\* What was settled before this accept.
Settled == pos - Len(encOut)

\* The encodings of an accept are those of the last windows consumed; between
\* accepts there are none.
Waiting ==
  /\ asr \in {"idle", "aborted"} => encOut = <<>>
  /\ Len(encOut) <= pos
  /\ \A i \in DOMAIN encOut : encOut[i] = Upto(Settled + i)

\* Everything decoded or dropped is the encoding of a settled window.
Ledger ==
  /\ \A i \in DOMAIN decoded : decoded[i] = Upto(Len(decoded[i])) /\ Len(decoded[i]) \in 1 .. Settled
  /\ \A e \in lost : e = Upto(Len(e)) /\ Len(e) \in 1 .. Settled
  /\ \A i, j \in DOMAIN decoded : i < j => Len(decoded[i]) < Len(decoded[j])
  /\ \A i \in DOMAIN decoded : decoded[i] \notin lost

\* Each settled window was decoded or dropped, and what was decoded is counted,
\* from 0, without a gap.
Counted ==
  /\ IsFiniteSet(lost)
  /\ Cardinality(lost) + Len(decoded) = Settled
  /\ framePos = Len(decoded) /\ Len(times) = Len(decoded)
  /\ \A i \in DOMAIN times : times[i] = i - 1

IInv == AsrTypeOK /\ Stages /\ Waiting /\ Ledger /\ Counted /\ TimesLagByTheLost

\* A stream just opened has nothing on its books.
LEMMA InitHolds ==
  ASSUME AsrInit
  PROVE  IInv
<1>1. Upto(0) = <<>> /\ Len(Upto(0)) = 0
  BY UptoFacts
<1>2. AsrTypeOK
  BY DEF AsrInit, AsrTypeOK
<1>3. Stages
  BY <1>1 DEF AsrInit, Stages
<1>4. Waiting /\ Ledger
  BY DEF AsrInit, Waiting, Ledger, Settled
<1>5. Counted
  BY FS_EmptySet DEF AsrInit, Counted, Settled
<1>6. TimesLagByTheLost
  BY DEF AsrInit, TimesLagByTheLost
<1>. QED
  BY <1>2, <1>3, <1>4, <1>5, <1>6 DEF IInv

-----------------------------------------------------------------------------
(* The states *)

\* A failed chunk leaves the current set alone; the retry starts from it.
LEMMA StagesStep ==
  ASSUME IInv, [AsrNext]_asrVars
  PROVE  AsrTypeOK' /\ Stages'
<1> USE DEF AsrTypeOK, carried, spoken
<1>0. pos \in Nat /\ rows \in Nat /\ pos <= rows /\ pos + 1 \in Nat
  BY DEF IInv
<1>1. /\ pos \in Nat /\ rows \in Nat /\ pos <= rows
      /\ Upto(pos) \in Seq(Nat) /\ Upto(pos + 1) \in Seq(Nat)
      /\ Append(Upto(pos), pos + 1) = Upto(pos + 1)
      /\ Upto(0) = <<>>
  BY <1>0, UptoFacts DEF IInv
<1>2. /\ cur \in {0, 1} /\ 1 - cur \in {0, 1} /\ 1 - cur # cur
      /\ 1 - (1 - cur) = cur
  BY DEF IInv
<1>3. AsrTypeOK /\ Stages
  BY DEF IInv
<1>4. Range(encOut) \in SUBSET Seq(Nat)
  BY <1>3, RangeOfSeq
<1>5. CASE Accept
  BY <1>3, <1>5 DEF Accept, Stages
<1>6. CASE WriteFeatures
  BY <1>1, <1>3, <1>6 DEF WriteFeatures, Stages
<1>7. CASE ChunkRefused
  BY <1>3, <1>4, <1>7 DEF ChunkRefused, AcceptNull, Stages
<1>8. CASE RunGraph
  <2>1. Encoded = Upto(pos + 1)
    BY <1>1, <1>3, <1>8 DEF RunGraph, Encoded, Stages
  <2>2. CASE /\ enc' = Encoded /\ sets' = [sets EXCEPT ![1 - cur] = Encoded]
             /\ asr' = "read"
             /\ UNCHANGED <<fits, feat, cur, rows, pos, encOut, spoken>>
    BY <1>1, <1>2, <1>3, <1>8, <2>1, <2>2 DEF RunGraph, Stages
  <2>3. CASE /\ enc' = Torn /\ sets' = [sets EXCEPT ![1 - cur] = Torn]
             /\ AcceptNull
             /\ UNCHANGED feat
    BY <1>1, <1>2, <1>3, <1>4, <1>8, <2>3, SMTT(30) DEF RunGraph, AcceptNull, Stages
  <2>. QED
    BY <1>8, <2>2, <2>3 DEF RunGraph
<1>9. CASE ReadFails
  BY <1>3, <1>4, <1>9 DEF ReadFails, AcceptNull, Stages
<1>10. CASE ReadEncoding
  BY <1>1, <1>2, <1>3, <1>10 DEF ReadEncoding, Stages
<1>11. CASE Greedy
  <2>1. decoded \o encOut \in Seq(Seq(Nat))
    BY <1>3
  <2>2. \A i \in DOMAIN encOut : framePos + i - 1 \in Nat
    BY <1>3
  <2>3. Len(encOut) \in Nat /\ DOMAIN encOut = 1 .. Len(encOut)
    BY <1>3
  <2>4. [i \in DOMAIN encOut |-> framePos + i - 1] \in Seq(Nat)
    BY <2>2, <2>3
  <2>5. times \o [i \in DOMAIN encOut |-> framePos + i - 1] \in Seq(Nat)
    BY <1>3, <2>4
  <2>. QED
    BY <1>3, <1>11, <2>1, <2>3, <2>5 DEF Greedy, Stages
<1>12. CASE Reset
  BY <1>1, <1>3, <1>12 DEF Reset, Stages
<1>13. CASE ResetAborts
  BY <1>3, <1>13 DEF ResetAborts, Stages
<1>14. CASE UNCHANGED asrVars
  BY <1>3, <1>14 DEF asrVars, Stages
<1>. QED
  BY <1>5, <1>6, <1>7, <1>8, <1>9, <1>10, <1>11, <1>12, <1>13, <1>14 DEF AsrNext, AsrStep

-----------------------------------------------------------------------------
(* The books *)

\* What the encodings of an accept are: distinct, and later than anything that is
\* settled.
LEMMA WaitingFacts ==
  ASSUME IInv
  PROVE  /\ pos \in Nat /\ Len(encOut) \in Nat /\ Settled \in Nat /\ pos = Settled + Len(encOut)
         /\ DOMAIN encOut = 1 .. Len(encOut)
         /\ \A i \in DOMAIN encOut : Len(encOut[i]) = Settled + i
         /\ IsFiniteSet(Range(encOut)) /\ Cardinality(Range(encOut)) = Len(encOut)
         /\ \A e \in Range(encOut) : e = Upto(Len(e)) /\ Len(e) \in Settled + 1 .. pos
<1>1. /\ pos \in Nat /\ Len(encOut) \in Nat /\ Settled \in Nat /\ pos = Settled + Len(encOut)
      /\ DOMAIN encOut = 1 .. Len(encOut) /\ encOut \in Seq(Seq(Nat))
  BY DEF IInv, AsrTypeOK, Waiting, Settled
<1>2. ASSUME NEW i \in DOMAIN encOut
      PROVE  encOut[i] = Upto(Settled + i) /\ Len(encOut[i]) = Settled + i
  <2>1. Settled + i \in Nat
    BY <1>1
  <2>. QED
    BY <2>1, UptoFacts DEF IInv, Waiting
<1>3. \A i, j \in DOMAIN encOut : i # j => encOut[i] # encOut[j]
  BY <1>1, <1>2
<1>4. IsFiniteSet(Range(encOut)) /\ Cardinality(Range(encOut)) = Len(encOut)
  BY <1>1, <1>3, RangeOfDistinct
<1>5. \A e \in Range(encOut) : e = Upto(Len(e)) /\ Len(e) \in Settled + 1 .. pos
  BY <1>1, <1>2 DEF Range
<1>. QED
  BY <1>1, <1>2, <1>4, <1>5

\* An accept that fails moves its encodings from the waiting to the dropped.  No
\* time is disturbed: what is dropped is later than what is decoded.
LEMMA AcceptNullStep ==
  ASSUME IInv, AcceptNull, AsrTypeOK'
  PROVE  Waiting' /\ Ledger' /\ Counted' /\ TimesLagByTheLost'
<1>1. /\ encOut' = <<>> /\ Len(encOut') = 0 /\ pos' = pos /\ Settled' = pos
      /\ lost' = lost \cup Range(encOut)
      /\ UNCHANGED <<decoded, times, framePos>>
  BY WaitingFacts DEF AcceptNull, Settled
<1>2. Ledger /\ Counted /\ TimesLagByTheLost
  BY DEF IInv
<1>3. Waiting'
  BY <1>1, WaitingFacts DEF Waiting
<1>4. \A e \in Range(encOut) : e = Upto(Len(e)) /\ Len(e) \in 1 .. pos /\ Len(e) > Settled
  BY WaitingFacts
<1>5. Ledger'
  BY <1>1, <1>2, <1>4, WaitingFacts DEF Ledger
<1>6. Counted'
  <2>1. lost \cap Range(encOut) = {}
    BY <1>2, <1>4, WaitingFacts DEF Ledger
  <2>2. /\ IsFiniteSet(lost')
        /\ Cardinality(lost') = Cardinality(lost) + Len(encOut) - Cardinality(lost \cap Range(encOut))
    <3>1. IsFiniteSet(lost) /\ IsFiniteSet(Range(encOut)) /\ Cardinality(Range(encOut)) = Len(encOut)
      BY <1>2, WaitingFacts DEF Counted
    <3>. QED
      BY <1>1, <3>1, FS_Union
  <2>3. Cardinality(lost \cap Range(encOut)) = 0 /\ Cardinality(lost) \in Nat
    BY <1>2, <2>1, FS_EmptySet, FS_CardinalityType DEF Counted
  <2>. QED
    BY <1>1, <1>2, <2>2, <2>3, WaitingFacts, SMTT(30) DEF Counted
<1>7. TimesLagByTheLost'
  <2>1. ASSUME NEW i \in DOMAIN decoded
        PROVE  {e \in lost' : Len(e) < Len(decoded[i])} = {e \in lost : Len(e) < Len(decoded[i])}
    <3>1. Len(decoded[i]) \in 1 .. Settled /\ Settled \in Nat
      BY <1>2, WaitingFacts DEF Ledger
    <3>2. \A e \in Range(encOut) : ~ (Len(e) < Len(decoded[i]))
      BY <1>4, <3>1
    <3>. QED
      BY <1>1, <3>2
  <2>. QED
    BY <1>1, <1>2, <2>1 DEF TimesLagByTheLost
<1>. QED
  BY <1>3, <1>5, <1>6, <1>7

\* A decoded accept: its encodings follow all that were decoded, and the counter
\* has counted exactly those that were not dropped.
LEMMA GreedyStep ==
  ASSUME IInv, Greedy, AsrTypeOK'
  PROVE  Waiting' /\ Ledger' /\ Counted' /\ TimesLagByTheLost'
<1>0. pos \in Nat /\ Len(encOut) \in Nat /\ Settled \in Nat /\ pos = Settled + Len(encOut)
  BY WaitingFacts
<1>1. /\ encOut' = <<>> /\ Len(encOut') = 0 /\ pos' = pos /\ Settled' = pos /\ lost' = lost
      /\ decoded' = decoded \o encOut
      /\ times' = times \o [i \in DOMAIN encOut |-> framePos + i - 1]
      /\ framePos' = framePos + Len(encOut)
  BY WaitingFacts DEF Greedy, Settled
<1>2. Ledger /\ Counted /\ TimesLagByTheLost /\ AsrTypeOK
  BY DEF IInv
<1>3. Waiting'
  BY <1>1, WaitingFacts DEF Waiting
<1>4. /\ decoded \in Seq(Seq(Nat)) /\ encOut \in Seq(Seq(Nat)) /\ times \in Seq(Nat)
      /\ framePos \in Nat /\ framePos = Len(decoded) /\ Len(times) = Len(decoded)
      /\ Len(decoded) \in Nat
  BY <1>2 DEF AsrTypeOK, Counted
<1>5. /\ Len(decoded') = Len(decoded) + Len(encOut)
      /\ DOMAIN decoded' = 1 .. Len(decoded) + Len(encOut)
      /\ \A i \in DOMAIN decoded : i \in DOMAIN decoded' /\ decoded'[i] = decoded[i]
      /\ \A i \in DOMAIN decoded' \ DOMAIN decoded :
           /\ i - Len(decoded) \in DOMAIN encOut
           /\ decoded'[i] = encOut[i - Len(decoded)]
  BY <1>1, <1>4, ConcatProperties, SMTT(30)
<1>6. /\ Len(times') = Len(decoded')
      /\ \A i \in DOMAIN decoded : times'[i] = times[i]
      /\ \A i \in DOMAIN decoded' \ DOMAIN decoded : times'[i] = i - 1
  <2>. DEFINE counted == [i \in DOMAIN encOut |-> framePos + i - 1]
  <2>1. counted \in Seq(Nat) /\ Len(counted) = Len(encOut)
    BY <1>4, WaitingFacts, SMTT(30)
  <2>2. \A i \in DOMAIN encOut : counted[i] = framePos + i - 1
    OBVIOUS
  <2>3. times' = times \o counted
    BY <1>1
  <2>. HIDE DEF counted
  <2>4. /\ Len(times') = Len(decoded) + Len(encOut)
        /\ \A i \in 1 .. Len(decoded) + Len(encOut) :
             times'[i] = IF i <= Len(decoded) THEN times[i] ELSE counted[i - Len(decoded)]
    <3>1. /\ Len(times \o counted) = Len(times) + Len(counted)
          /\ \A i \in 1 .. Len(times) + Len(counted) :
               (times \o counted)[i] = IF i <= Len(times) THEN times[i] ELSE counted[i - Len(times)]
      BY <1>4, <2>1, ConcatProperties
    <3>2. Len(times) = Len(decoded) /\ Len(counted) = Len(encOut)
      BY <1>4, <2>1
    <3>. QED
      BY <2>3, <3>1, <3>2
  <2>5. \A i \in DOMAIN decoded : times'[i] = times[i]
    BY <1>4, <2>4, WaitingFacts
  <2>6. ASSUME NEW i \in DOMAIN decoded' \ DOMAIN decoded
        PROVE  times'[i] = i - 1
    <3>1. i \in Nat /\ i > Len(decoded) /\ i <= Len(decoded) + Len(encOut) /\ i - Len(decoded) \in DOMAIN encOut
      BY <1>4, <1>5, WaitingFacts, SMTT(30)
    <3>2. times'[i] = counted[i - Len(decoded)]
      BY <1>4, <2>4, <3>1
    <3>. QED
      BY <1>4, <2>2, <3>1, <3>2
  <2>. QED
    BY <1>5, <2>4, <2>5, <2>6
<1>7. \A i \in DOMAIN decoded' \ DOMAIN decoded :
        /\ decoded'[i] = Upto(Len(decoded'[i]))
        /\ Len(decoded'[i]) = Settled + i - Len(decoded)
        /\ Len(decoded'[i]) \in 1 .. pos /\ Len(decoded'[i]) > Settled
  BY <1>4, <1>5, WaitingFacts DEF Range
<1>8. Ledger'
  <2>1. \A i \in DOMAIN decoded' : decoded'[i] = Upto(Len(decoded'[i])) /\ Len(decoded'[i]) \in 1 .. pos
    BY <1>2, <1>4, <1>5, <1>7, WaitingFacts DEF Ledger
  <2>2. \A e \in lost : e = Upto(Len(e)) /\ Len(e) \in 1 .. pos
    BY <1>2, WaitingFacts DEF Ledger
  <2>3. \A i, j \in DOMAIN decoded' : i < j => Len(decoded'[i]) < Len(decoded'[j])
    <3>. SUFFICES ASSUME NEW i \in DOMAIN decoded', NEW j \in DOMAIN decoded', i < j
                  PROVE  Len(decoded'[i]) < Len(decoded'[j])
      OBVIOUS
    <3>1. CASE j \in DOMAIN decoded
      <4>1. i \in DOMAIN decoded
        BY <1>4, <1>5, <3>1
      <4>. QED
        BY <1>2, <1>5, <3>1, <4>1 DEF Ledger
    <3>2. CASE j \notin DOMAIN decoded /\ i \in DOMAIN decoded
      <4>1. Len(decoded'[i]) \in 1 .. Settled
        BY <1>2, <1>5, <3>2 DEF Ledger
      <4>. QED
        BY <1>7, <3>2, <4>1, WaitingFacts
    <3>3. CASE j \notin DOMAIN decoded /\ i \notin DOMAIN decoded
      <4>1. i \in Nat /\ j \in Nat
        BY <1>5
      <4>2. Len(decoded'[i]) = Settled + i - Len(decoded) /\ Len(decoded'[j]) = Settled + j - Len(decoded)
        BY <1>7, <3>3
      <4>. QED
        BY <1>0, <1>4, <4>1, <4>2
    <3>. QED
      BY <3>1, <3>2, <3>3
  <2>4. \A i \in DOMAIN decoded' : decoded'[i] \notin lost
    <3>1. \A e \in lost : Len(e) \in 1 .. Settled
      BY <1>2 DEF Ledger
    <3>2. \A i \in DOMAIN decoded' \ DOMAIN decoded : decoded'[i] \notin lost
      BY <1>7, <3>1, WaitingFacts
    <3>. QED
      BY <1>2, <1>5, <3>2 DEF Ledger
  <2>. QED
    BY <1>1, <2>1, <2>2, <2>3, <2>4 DEF Ledger
<1>9. Cardinality(lost) \in Nat /\ Cardinality(lost) = Settled - Len(decoded)
  BY <1>2, <1>4, WaitingFacts, FS_CardinalityType DEF Counted
<1>10. Counted'
  <2>1. IsFiniteSet(lost') /\ Cardinality(lost') + Len(decoded') = Settled'
    <3>1. Len(decoded') = Len(decoded) + Len(encOut)
      BY <1>5
    <3>2. IsFiniteSet(lost)
      BY <1>2 DEF Counted
    <3>. QED
      BY <1>0, <1>1, <1>4, <1>9, <3>1, <3>2
  <2>2. framePos' = Len(decoded') /\ Len(times') = Len(decoded')
    BY <1>1, <1>4, <1>5, <1>6
  <2>3. DOMAIN times' = DOMAIN decoded' /\ DOMAIN times = DOMAIN decoded
    BY <1>4, <1>5, <2>2 DEF AsrTypeOK
  <2>4. \A i \in DOMAIN times' : times'[i] = i - 1
    BY <1>2, <1>6, <2>3 DEF Counted
  <2>. QED
    BY <2>1, <2>2, <2>4 DEF Counted
<1>11. TimesLagByTheLost'
  <2>1. ASSUME NEW i \in DOMAIN decoded
        PROVE  times'[i] = Len(decoded'[i]) - 1 - Cardinality({e \in lost' : Len(e) < Len(decoded'[i])})
    BY <1>1, <1>2, <1>5, <1>6 DEF TimesLagByTheLost
  <2>2. ASSUME NEW i \in DOMAIN decoded' \ DOMAIN decoded
        PROVE  times'[i] = Len(decoded'[i]) - 1 - Cardinality({e \in lost' : Len(e) < Len(decoded'[i])})
    <3>. DEFINE earlier == {e \in lost' : Len(e) < Len(decoded'[i])}
    <3>1. earlier = lost
      BY <1>1, <1>2, <1>7, WaitingFacts, SMTT(30) DEF Ledger
    <3>. QED
      <4>. HIDE DEF earlier
      <4>1. times'[i] = i - 1 /\ Len(decoded'[i]) = Settled + i - Len(decoded) /\ i \in Nat
        BY <1>5, <1>6, <1>7
      <4>2. times'[i] = Len(decoded'[i]) - 1 - Cardinality(earlier)
        BY <1>0, <1>4, <1>9, <3>1, <4>1
      <4>. QED
        BY <4>2 DEF earlier
  <2>. QED
    BY <1>5, <2>1, <2>2 DEF TimesLagByTheLost
<1>. QED
  BY <1>3, <1>8, <1>10, <1>11

\* A window more waits; nothing is settled.
LEMMA ReadEncodingStep ==
  ASSUME IInv, ReadEncoding
  PROVE  Waiting' /\ Ledger' /\ Counted' /\ TimesLagByTheLost'
<1>1. /\ encOut' = Append(encOut, enc) /\ pos' = pos + 1 /\ asr' = "next"
      /\ UNCHANGED <<decoded, times, framePos, lost>>
      /\ enc = Upto(pos + 1) /\ enc \in Seq(Nat)
  <2>1. pos + 1 \in Nat
    BY WaitingFacts
  <2>. QED
    BY <2>1, UptoFacts DEF IInv, ReadEncoding, Stages, spoken
<1>2. /\ encOut \in Seq(Seq(Nat)) /\ Len(encOut') = Len(encOut) + 1
      /\ DOMAIN encOut' = 1 .. Len(encOut) + 1
      /\ \A i \in DOMAIN encOut : encOut'[i] = encOut[i]
      /\ encOut'[Len(encOut) + 1] = enc
  BY <1>1 DEF IInv, AsrTypeOK
<1>3. Settled' = Settled /\ Settled \in Nat
  <2>1. Settled \in Nat /\ pos \in Nat /\ Len(encOut) \in Nat
    BY WaitingFacts
  <2>. QED
    BY <1>1, <1>2, <2>1 DEF Settled
<1>4. Waiting'
  <2>1. \A i \in DOMAIN encOut : encOut'[i] = Upto(Settled + i)
    BY <1>2 DEF IInv, Waiting
  <2>2. encOut'[Len(encOut) + 1] = Upto(Settled + (Len(encOut) + 1))
    BY <1>1, <1>2, WaitingFacts
  <2>3. \A i \in DOMAIN encOut' : encOut'[i] = Upto(Settled' + i)
    <3>1. \A i \in DOMAIN encOut' : i \in DOMAIN encOut \/ i = Len(encOut) + 1
      BY <1>2, WaitingFacts
    <3>. QED
      BY <1>3, <2>1, <2>2, <3>1
  <2>. QED
    BY <1>1, <1>2, <2>3, WaitingFacts DEF Waiting
<1>5. Ledger' /\ Counted' /\ TimesLagByTheLost'
  BY <1>1, <1>3 DEF IInv, Ledger, Counted, TimesLagByTheLost
<1>. QED
  BY <1>4, <1>5

\* A step that decodes, drops and consumes nothing keeps the books.
LEMMA OtherStep ==
  ASSUME IInv, UNCHANGED <<pos, spoken>>, encOut' = encOut, asr' \in {"idle", "aborted"} => encOut = <<>>
  PROVE  Waiting' /\ Ledger' /\ Counted' /\ TimesLagByTheLost'
<1>1. UNCHANGED <<pos, encOut, decoded, times, framePos, lost>>
  BY DEF spoken
<1>2. Settled' = Settled
  BY <1>1 DEF Settled
<1>. QED
  BY <1>1, <1>2 DEF IInv, Waiting, Ledger, Counted, TimesLagByTheLost

\* Every step keeps the accounts of windows and their times.
LEMMA BooksStep ==
  ASSUME IInv, [AsrNext]_asrVars, AsrTypeOK'
  PROVE  Waiting' /\ Ledger' /\ Counted' /\ TimesLagByTheLost'
<1>1. asr \in {"idle", "aborted"} => encOut = <<>>
  BY DEF IInv, Waiting
<1>2. CASE Accept
  BY <1>1, <1>2, OtherStep DEF Accept
<1>3. CASE WriteFeatures
  BY <1>1, <1>3, OtherStep DEF WriteFeatures
<1>4. CASE ChunkRefused
  BY <1>4, AcceptNullStep DEF ChunkRefused
<1>5. CASE RunGraph
  <2>1. CASE AcceptNull
    BY <2>1, AcceptNullStep
  <2>2. CASE asr' = "read" /\ UNCHANGED <<fits, feat, cur, rows, pos, encOut, spoken>>
    BY <2>2, OtherStep
  <2>. QED
    BY <1>5, <2>1, <2>2 DEF RunGraph
<1>6. CASE ReadFails
  BY <1>6, AcceptNullStep DEF ReadFails
<1>7. CASE ReadEncoding
  BY <1>7, ReadEncodingStep
<1>8. CASE Greedy
  BY <1>8, GreedyStep
<1>9. CASE Reset
  <2>1. /\ pos' = 0 /\ encOut' = <<>> /\ decoded' = <<>> /\ times' = <<>> /\ framePos' = 0 /\ lost' = {}
    BY <1>9 DEF Reset
  <2>. QED
    BY <2>1, FS_EmptySet DEF Waiting, Ledger, Counted, TimesLagByTheLost, Settled
<1>10. CASE ResetAborts
  BY <1>1, <1>10, OtherStep DEF ResetAborts
<1>11. CASE UNCHANGED asrVars
  BY <1>1, <1>11, OtherStep DEF asrVars
<1>. QED
  BY <1>2, <1>3, <1>4, <1>5, <1>6, <1>7, <1>8, <1>9, <1>10, <1>11 DEF AsrNext, AsrStep

\* The invariant holds initially and every step of the stream keeps it.
LEMMA AsrStepKeepsIInv ==
  ASSUME IInv, [AsrNext]_asrVars
  PROVE  IInv'
BY StagesStep, BooksStep DEF IInv

\* The invariant holds for every sequence of accepts and resets.
LEMMA InductiveInvariant == AsrSpec => []IInv
<1>1. AsrInit => IInv
  BY InitHolds
<1>2. IInv /\ [AsrNext]_asrVars => IInv'
  BY AsrStepKeepsIInv
<1>. QED
  BY <1>1, <1>2, PTL DEF AsrSpec

-----------------------------------------------------------------------------
(* The theorems *)

\* The types of the stream, pos within rows among them.
THEOREM AsrTypeCorrect == AsrSpec => []AsrTypeOK
<1>1. IInv => AsrTypeOK
  BY DEF IInv
<1>. QED
  BY InductiveInvariant, <1>1, PTL

\* What the invariant says of the states and of everything encoded so far.
LEMMA IInvCarries ==
  ASSUME IInv
  PROVE  CarriedState
<1>1. asr # "aborted" => sets[cur] = Upto(pos)
  BY DEF IInv, Stages
<1>2. \A e \in Range(encOut) : e = Upto(Len(e)) /\ Len(e) \in 1 .. pos
  BY WaitingFacts
<1>3. \A e \in Range(decoded) \cup lost : e = Upto(Len(e)) /\ Len(e) \in 1 .. Settled
  BY DEF IInv, Ledger, Range
<1>4. \A e \in Range(decoded) \cup lost : e = Upto(Len(e)) /\ Len(e) \in 1 .. pos
  BY <1>3, WaitingFacts
<1>. QED
  BY <1>1, <1>2, <1>4 DEF CarriedState

\* XasrLiteRT::chunk flips the sets only when everything succeeded, so whatever
\* fails, the next window is encoded from the states of exactly the windows
\* consumed.
THEOREM StatesAreCarried == AsrSpec => []CarriedState
BY InductiveInvariant, IInvCarries, PTL

\* What was decoded and what waits, put together, is in order.
LEMMA IInvAccounts ==
  ASSUME IInv
  PROVE  Accounted
<1>. DEFINE known == decoded \o encOut
<1>1. decoded \in Seq(Seq(Nat)) /\ encOut \in Seq(Seq(Nat)) /\ Len(decoded) \in Nat /\ Len(encOut) \in Nat
  BY DEF IInv, AsrTypeOK
<1>2. /\ Len(known) = Len(decoded) + Len(encOut)
      /\ DOMAIN known = 1 .. Len(decoded) + Len(encOut)
      /\ \A i \in DOMAIN decoded : known[i] = decoded[i]
      /\ \A i \in DOMAIN known \ DOMAIN decoded :
           i - Len(decoded) \in DOMAIN encOut /\ known[i] = encOut[i - Len(decoded)]
  BY <1>1, ConcatProperties
<1>3. Range(known) = Range(decoded) \cup Range(encOut)
  BY <1>1, RangeConcatenation
<1>. HIDE DEF known
<1>4. /\ pos \in Nat /\ Settled \in Nat /\ pos = Settled + Len(encOut)
      /\ \A i \in DOMAIN encOut : Len(encOut[i]) = Settled + i
      /\ \A e \in Range(encOut) : Len(e) \in Settled + 1 .. pos
  BY WaitingFacts
<1>5. ASSUME NEW i \in DOMAIN known, NEW j \in DOMAIN known, i < j
      PROVE  Len(known[i]) < Len(known[j])
  <2>1. CASE j \in DOMAIN decoded
    <3>1. i \in DOMAIN decoded
      BY <1>1, <1>2, <1>5, <2>1
    <3>. QED
      BY <1>2, <1>5, <2>1, <3>1 DEF IInv, Ledger
  <2>2. CASE j \notin DOMAIN decoded /\ i \in DOMAIN decoded
    <3>1. Len(known[i]) \in 1 .. Settled
      BY <1>2, <2>2 DEF IInv, Ledger
    <3>2. j - Len(decoded) \in DOMAIN encOut /\ known[j] = encOut[j - Len(decoded)] /\ j \in Nat
      BY <1>2, <2>2
    <3>3. Len(known[j]) = Settled + (j - Len(decoded)) /\ j - Len(decoded) \in 1 .. Len(encOut)
      BY <1>4, <3>2, WaitingFacts
    <3>. QED
      BY <1>1, <1>4, <3>1, <3>2, <3>3
  <2>3. CASE j \notin DOMAIN decoded /\ i \notin DOMAIN decoded
    <3>1. /\ Len(known[i]) = Settled + (i - Len(decoded)) /\ i \in Nat
          /\ Len(known[j]) = Settled + (j - Len(decoded)) /\ j \in Nat
      BY <1>2, <1>4, <2>3
    <3>. QED
      BY <1>1, <1>4, <1>5, <3>1
  <2>. QED
    BY <2>1, <2>2, <2>3
<1>6. \A e \in lost : e \notin Range(known)
  <2>1. \A e \in lost : e \notin Range(decoded) /\ Len(e) \in 1 .. Settled
    BY DEF IInv, Ledger, Range
  <2>. QED
    BY <1>3, <1>4, <2>1
<1>7. Cardinality(lost) + Len(known) = pos
  <2>1. IsFiniteSet(lost) /\ Cardinality(lost) + Len(decoded) = Settled
    BY DEF IInv, Counted
  <2>2. Cardinality(lost) \in Nat
    BY <2>1, FS_CardinalityType
  <2>. QED
    <3>1. Len(known) = Len(decoded) + Len(encOut) /\ pos = Settled + Len(encOut) /\ Settled \in Nat
      BY <1>2, <1>4
    <3>2. Len(decoded) \in Nat /\ Len(encOut) \in Nat
      BY <1>1
    <3>. QED
      BY <2>1, <2>2, <3>1, <3>2
<1>. QED
  BY <1>5, <1>6, <1>7 DEF Accounted, known

\* However often accepts fail and are retried, every window consumed is decoded
\* once, in order, or was dropped, and none is both.
THEOREM WindowsAreAccounted == AsrSpec => []Accounted
BY InductiveInvariant, IInvAccounts, PTL

\* The frame counter of the token-times patch is behind the audio by exactly the
\* windows whose encodings were dropped: without failures it is exact.
THEOREM TimesLag == AsrSpec => []TimesLagByTheLost
<1>1. IInv => TimesLagByTheLost
  BY DEF IInv
<1>. QED
  BY InductiveInvariant, <1>1, PTL

-----------------------------------------------------------------------------
(* The refinement *)

\* The history of the causal stream.
LEMMA HistoryIs ==
  ASSUME IInv
  PROVE  (IF asr = "aborted" THEN Upto(pos) ELSE sets[cur]) = Upto(pos)
BY DEF IInv, Stages

\* A window that was run, read and counted is a window taken; a reset is a
\* restart; all other steps, the failures among them, leave no trace.
LEMMA StepSimulated ==
  ASSUME IInv, IInv', [AsrNext]_asrVars
  PROVE  [Stream!Next]_(Stream!vars)
<1>. DEFINE history == IF asr = "aborted" THEN Upto(pos) ELSE sets[cur]
            said == Range(decoded) \cup Range(encOut) \cup lost
<1>1. history = Upto(pos) /\ history' = Upto(pos') /\ pos \in Nat /\ pos' \in Nat
  <2>1. history = Upto(pos)
    BY HistoryIs
  <2>2. history' = Upto(pos')
    BY DEF IInv, Stages, Upto
  <2>. QED
    BY <2>1, <2>2 DEF IInv, AsrTypeOK
<1>2. decoded \in Seq(Seq(Nat)) /\ encOut \in Seq(Seq(Nat))
  BY DEF IInv, AsrTypeOK
<1>3. Range(<<>>) = {}
  BY DEF Range
<1>. HIDE DEF history, said
<1>4. SUFFICES \/ Len(history') = Len(history) + 1 /\ SubSeq(history', 1, Len(history)) = history
                  /\ said' = said \cup {history'}
               \/ history' = <<>> /\ said' = {}
               \/ UNCHANGED <<history, said>>
  BY <1>4 DEF Stream!Next, Stream!Take, Stream!Restart, Stream!vars, history, said
<1>5. CASE UNCHANGED <<pos, encOut, spoken>>
  BY <1>1, <1>5 DEF spoken, said, Range
<1>6. CASE AcceptNull
  <2>1. pos' = pos /\ decoded' = decoded /\ encOut' = <<>> /\ lost' = lost \cup Range(encOut)
    BY <1>6 DEF AcceptNull
  <2>2. said' = said
    BY <1>3, <2>1 DEF said
  <2>. QED
    BY <1>1, <2>1, <2>2
<1>7. CASE ReadEncoding
  <2>1. /\ pos' = pos + 1 /\ encOut' = Append(encOut, enc) /\ enc = Upto(pos + 1)
        /\ UNCHANGED <<decoded, lost>>
    BY <1>7 DEF ReadEncoding, IInv, Stages, spoken
  <2>2. /\ Len(Upto(pos)) = pos /\ Len(Upto(pos + 1)) = pos + 1
        /\ SubSeq(Upto(pos + 1), 1, pos) = Upto(pos) /\ Upto(pos + 1) \in Seq(Nat)
    <3>1. pos + 1 \in Nat
      BY <1>1
    <3>. QED
      BY <1>1, <3>1, UptoFacts
  <2>3. Range(encOut') = Range(encOut) \cup {enc}
    <3>1. <<enc>> \in Seq(Seq(Nat)) /\ Range(<<enc>>) = {enc}
      BY <2>1, <2>2 DEF Range
    <3>2. encOut' = encOut \o <<enc>>
      BY <1>2, <2>1, <2>2, AppendIsConcat
    <3>3. \A one \in Seq(Seq(Nat)) : Range(encOut \o one) = Range(encOut) \cup Range(one)
      BY <1>2, RangeConcatenation
    <3>. QED
      BY <3>1, <3>2, <3>3
  <2>4. said' = said \cup {history'}
    BY <1>1, <2>1, <2>3 DEF said
  <2>. QED
    BY <1>1, <2>1, <2>2, <2>4
<1>8. CASE Greedy
  <2>1. pos' = pos /\ decoded' = decoded \o encOut /\ encOut' = <<>> /\ lost' = lost
    BY <1>8 DEF Greedy
  <2>2. said' = said
    BY <1>2, <1>3, <2>1, RangeConcatenation DEF said
  <2>. QED
    BY <1>1, <2>1, <2>2
<1>9. CASE Reset
  <2>1. pos' = 0 /\ encOut' = <<>> /\ decoded' = <<>> /\ lost' = {}
    BY <1>9 DEF Reset
  <2>. QED
    BY <1>1, <1>3, <2>1, UptoFacts DEF said
<1>10. asr = "idle" => encOut = <<>>
  BY DEF IInv, Waiting
<1>11. CASE Accept \/ ResetAborts
  BY <1>5, <1>10, <1>11 DEF Accept, ResetAborts
<1>12. CASE WriteFeatures \/ UNCHANGED asrVars
  BY <1>5, <1>12 DEF WriteFeatures, asrVars
<1>13. CASE ChunkRefused \/ ReadFails
  BY <1>6, <1>13 DEF ChunkRefused, ReadFails
<1>14. CASE RunGraph
  BY <1>5, <1>6, <1>14 DEF RunGraph
<1>. QED
  BY <1>7, <1>8, <1>9, <1>11, <1>12, <1>13, <1>14 DEF AsrNext, AsrStep

\* XasrLiteRT with its two sets, and the loop that feeds it and forgets what a
\* failed accept encoded, implement a stream that takes each window once.
THEOREM ImplementsCausalStream == AsrSpec => LayerOverStream
<1>1. AsrInit => Stream!Init
  <2>1. Range(<<>>) = {}
    BY DEF Range
  <2>. QED
    BY <2>1 DEF AsrInit, Stream!Init
<1>2. IInv /\ IInv' /\ [AsrNext]_asrVars => [Stream!Next]_(Stream!vars)
  BY StepSimulated
<1>. QED
  BY InductiveInvariant, <1>1, <1>2, PTL DEF AsrSpec, LayerOverStream, Stream!Spec

-----------------------------------------------------------------------------
(* The inductive invariant *)

Record(F, I, M, R, P) == [frames : F, in : I, masked : M, rope : R, placed : P]

\* A graph as DiarCrispASR holds it: an input tensor as long as its window.
IsGraph(g) ==
  /\ \E F, I, M, R, P : g \in Record(F, I, M, R, P)
  /\ g.frames \in Frames
  /\ DOMAIN g.in = 1 .. g.frames

\* At most one graph is cached, at most one under construction, and never both.
Arena ==
  /\ graph = {} \/ \E g : graph = {g} /\ IsGraph(g) /\ g.rope = g.frames
  /\ building = {} \/ \E g : building = {g} /\ IsGraph(g)
  /\ building = {} \/ graph = {}

\* Where a call on ggml is: the graph is the one for its window, and after
\* feeding it holds this call's embeddings and mask, whatever it held before.
OnGgml(r) ==
  /\ diar = "build" => backend = "ggml" /\ \A g \in building : g.frames = r.frames
  /\ diar \in {"feed", "run", "read"} /\ backend = "ggml" =>
       \E g : graph = {g} /\ IsGraph(g) /\ g.frames = r.frames /\ g.rope = g.frames
  /\ diar = "run" /\ backend = "ggml" =>
       \A g \in graph : g.in = Embeddings(r) /\ g.masked = (r.valid + 1) .. r.frames
  /\ diar = "read" /\ backend = "ggml" => outBuf = Meaning(r)

\* Where a call on LiteRT is: the buffers hold its window and zeros behind it.
OnLiteRt(r) ==
  /\ diar = "valid" => backend = "litert"
  /\ diar \in {"valid", "run", "read"} /\ backend = "litert" => r.frames <= MaxFrames /\ embBuf = Padded(r)
  /\ diar = "run" /\ backend = "litert" => validBuf = r.valid
  /\ diar = "read" /\ backend = "litert" =>
       outBuf = Network(embBuf, [k \in 1 .. r.valid |-> embBuf[k]], MaxFrames, {})

DInv ==
  /\ DiarTypeOK
  /\ Arena
  /\ building # {} => diar = "build"
  /\ \A r \in asked : OnGgml(r) /\ OnLiteRt(r)
  /\ asked # {} => answer = Failed

\* Feeding the position tables, or the embeddings and the mask, leaves the rest of
\* a graph as it is.
Placed(g, x, y) == [g EXCEPT !.rope = x, !.placed = y]
Fed(g, x, y) == [g EXCEPT !.in = x, !.masked = y]

\* A finished graph differs from the one begun in its tables and its placement only.
LEMMA PlacedFacts ==
  ASSUME NEW g, IsGraph(g), NEW x, NEW y
  PROVE  /\ IsGraph(Placed(g, x, y)) /\ Placed(g, x, y).rope = x
         /\ Placed(g, x, y).frames = g.frames /\ Placed(g, x, y).in = g.in
<1>1. PICK F, I, M, R, P : g \in Record(F, I, M, R, P)
  BY DEF IsGraph
<1>2. Placed(g, x, y) = [[g EXCEPT !.rope = x] EXCEPT !.placed = y]
  BY DEF Placed
<1>3. /\ Placed(g, x, y) \in Record(F, I, M, {x}, {y}) /\ Placed(g, x, y).rope = x
      /\ Placed(g, x, y).frames = g.frames /\ Placed(g, x, y).in = g.in
  BY <1>1, <1>2 DEF Record
<1>. QED
  BY <1>3 DEF IsGraph

\* Feeding a graph changes its inputs only.
LEMMA FedFacts ==
  ASSUME NEW g, IsGraph(g), NEW x, NEW y, DOMAIN x = 1 .. g.frames
  PROVE  /\ IsGraph(Fed(g, x, y)) /\ Fed(g, x, y).in = x /\ Fed(g, x, y).masked = y
         /\ Fed(g, x, y).frames = g.frames /\ Fed(g, x, y).rope = g.rope
<1>1. PICK F, I, M, R, P : g \in Record(F, I, M, R, P)
  BY DEF IsGraph
<1>2. Fed(g, x, y) = [[g EXCEPT !.in = x] EXCEPT !.masked = y]
  BY DEF Fed
<1>3. /\ Fed(g, x, y) \in Record(F, {x}, {y}, R, P) /\ Fed(g, x, y).in = x /\ Fed(g, x, y).masked = y
      /\ Fed(g, x, y).frames = g.frames /\ Fed(g, x, y).rope = g.rope
  BY <1>1, <1>2 DEF Record
<1>. QED
  BY <1>3 DEF IsGraph

\* What a request is.
LEMMA RequestFacts ==
  ASSUME NEW r \in Request
  PROVE  r.of \in Audio /\ r.frames \in Frames /\ r.frames \in Nat \ {0} /\ r.valid \in 0 .. r.frames
<1>1. PICK f \in Frames : r \in [of : Audio, frames : {f}, valid : 0 .. f, fault : {"none", "stacked", "embeddings"}]
  BY DEF Request
<1>. QED
  BY <1>1, DiarAssumption

\* What the exported graph returns for a padded window, cut to the window, is
\* what a graph of the window's own length returns.
LEMMA KeptIsMeaning ==
  ASSUME NEW r \in Request, r.frames <= MaxFrames
  PROVE  Kept(Network(Padded(r), [k \in 1 .. r.valid |-> Padded(r)[k]], MaxFrames, {}), r.frames) = Meaning(r)
<1>. DEFINE p == Padded(r)
            out == Network(p, [k \in 1 .. r.valid |-> p[k]], MaxFrames, {})
<1>1. MaxFrames \in Nat /\ r.frames \in Nat /\ r.valid \in 0 .. r.frames
  BY RequestFacts, DiarAssumption
<1>2. p = [k \in 1 .. MaxFrames |-> IF k <= r.frames THEN r.of ELSE Zero]
  BY DEF Padded, Written
<1>. HIDE DEF p
<1>3. out.rows = p /\ out.keys = [k \in 1 .. r.valid |-> p[k]]
  BY DEF Network
<1>. HIDE DEF out
<1>4. [k \in 1 .. r.frames |-> out.rows[k]] = [k \in 1 .. r.frames |-> r.of]
  BY <1>1, <1>2, <1>3
<1>5. out.keys = [k \in 1 .. r.valid |-> r.of]
  BY <1>1, <1>2, <1>3
<1>6. {out.rows[k] : k \in (r.frames + 1) .. MaxFrames} \ {Zero} = {}
  <2>1. \A k \in (r.frames + 1) .. MaxFrames : out.rows[k] = Zero
    BY <1>1, <1>2, <1>3
  <2>. QED
    BY <2>1
<1>7. Kept(out, r.frames) = Meaning(r)
  BY <1>4, <1>5, <1>6 DEF Kept, Meaning, Embeddings
<1>. QED
  BY <1>7 DEF out, p

\* What a graph fed with a call computes.
LEMMA ComputedIsMeaning ==
  ASSUME NEW r \in Request, NEW g, g.frames = r.frames, g.rope = r.frames,
         g.in = Embeddings(r), g.masked = (r.valid + 1) .. r.frames
  PROVE  Computed(g) = Meaning(r)
<1>1. r.frames \in Nat /\ r.valid \in 0 .. r.frames
  BY RequestFacts
<1>2. (1 .. g.frames) \ g.masked = 1 .. r.valid
  BY <1>1
<1>3. \A k \in 1 .. r.valid : g.in[k] = r.of
  BY <1>1 DEF Embeddings
<1>4. [k \in (1 .. g.frames) \ g.masked |-> g.in[k]] = [k \in 1 .. r.valid |-> r.of]
  BY <1>2, <1>3
<1>. QED
  BY <1>4 DEF Computed, Meaning

-----------------------------------------------------------------------------
(* The steps *)

\* No graph, no call.
LEMMA DiarInitHolds ==
  ASSUME DiarInit
  PROVE  DInv
BY DEF DiarInit, DInv, DiarTypeOK, Arena

\* A call that failed leaves whatever it left: nothing of it is believed.
LEMMA ThrowStep ==
  ASSUME DInv, Throw, Arena', building' = {},
         \A g \in graph' : g.rope = g.frames /\ DOMAIN g.in = 1 .. g.frames,
         DOMAIN embBuf' = DOMAIN embBuf
  PROVE  DInv'
BY DEF DInv, DiarTypeOK, Throw, hooks

\* The arena does not change when graph and building do not.
LEMMA ArenaKept ==
  ASSUME DInv, UNCHANGED <<graph, building>>
  PROVE  Arena'
BY DEF DInv, Arena

\* A new call forgets the answer to the last one.
LEMMA CallStep ==
  ASSUME DInv, Call
  PROVE  DInv'
<1>1. PICK r \in Request : asked' = {r}
  BY DEF Call
<1>2. /\ diar = "idle" /\ diar' = (IF pre THEN "pre" ELSE Entry)
      /\ answer' = Failed /\ UNCHANGED <<hooks, tensors>>
  BY DEF Call
<1>3. building = {} /\ asked = {}
  BY <1>2 DEF DInv, DiarTypeOK
<1>4. DiarTypeOK'
  BY <1>1, <1>2 DEF DInv, DiarTypeOK, Entry, hooks, tensors
<1>5. Arena'
  BY <1>2, ArenaKept DEF tensors
<1>6. diar' \in {"pre", "build", "feed"} /\ (diar' = "build" => backend' = "ggml") /\ building' = {}
  BY <1>2, <1>3 DEF Entry, hooks, tensors
<1>7. diar' = "feed" => backend' # "ggml"
  BY <1>2 DEF Entry, hooks
<1>8. \A q \in asked' : OnGgml(q)' /\ OnLiteRt(q)'
  BY <1>6, <1>7 DEF OnGgml, OnLiteRt
<1>. QED
  BY <1>2, <1>4, <1>5, <1>6, <1>8 DEF DInv

\* The pre-encoder leaves graphs and buffers alone.
LEMMA PreEncodeStep ==
  ASSUME DInv, PreEncode
  PROVE  DInv'
<1>1. diar = "pre" /\ diar' = Entry /\ UNCHANGED <<hooks, asked, tensors, answer>> /\ asked # {}
  BY DEF PreEncode
<1>2. building' = {}
  BY <1>1 DEF DInv, tensors
<1>3. DiarTypeOK' /\ Arena'
  BY <1>1, ArenaKept DEF DInv, DiarTypeOK, Entry, hooks, tensors
<1>4. \A q \in asked' : OnGgml(q)' /\ OnLiteRt(q)'
  BY <1>1, <1>2 DEF OnGgml, OnLiteRt, Entry, hooks
<1>. QED
  BY <1>1, <1>2, <1>3, <1>4 DEF DInv

\* All the ways a call fails without touching the graphs.
LEMMA PlainFailures ==
  ASSUME DInv, PreEncodeFails \/ Reject \/ LiteRtFails
  PROVE  DInv'
<1>1. Throw /\ UNCHANGED <<graph, building, embBuf>>
  BY DEF PreEncodeFails, Reject, LiteRtFails, tensors
<1>2. building = {}
  BY DEF DInv, DiarTypeOK, PreEncodeFails, Reject, LiteRtFails
<1>. QED
  BY <1>1, <1>2, ArenaKept, ThrowStep DEF DInv, DiarTypeOK

\* The old graph goes, a new one for the frames asked for is begun.
LEMMA DropGraphStep ==
  ASSUME DInv, DropGraph
  PROVE  DInv'
<1>1. PICK r \in asked : ~ Rejected(r) /\ building' = {Begun(r)}
  BY DEF DropGraph
<1>2. /\ diar = "build" /\ graph' = {}
      /\ UNCHANGED <<hooks, asked, diar, embBuf, validBuf, outBuf, answer>>
  BY DEF DropGraph
<1>3. asked = {r} /\ r \in Request
  BY <1>1 DEF DInv, DiarTypeOK
<1>4. IsGraph(Begun(r)) /\ Begun(r).frames = r.frames
  <2>1. r.frames \in Frames
    BY <1>3, RequestFacts
  <2>2. Begun(r) \in Record({r.frames}, {[k \in 1 .. r.frames |-> Junk]}, {Junk}, {Junk}, {FALSE})
    BY DEF Begun, Record
  <2>. QED
    BY <2>1, <2>2 DEF IsGraph, Begun
<1>5. Arena'
  BY <1>1, <1>2, <1>4 DEF Arena
<1>6. DiarTypeOK'
  BY <1>2 DEF DInv, DiarTypeOK, hooks
<1>7. backend = "ggml"
  BY <1>1, <1>2 DEF DInv, OnGgml
<1>8. \A q \in asked' : OnGgml(q)' /\ OnLiteRt(q)'
  BY <1>1, <1>2, <1>3, <1>4, <1>7 DEF OnGgml, OnLiteRt, hooks
<1>. QED
  BY <1>2, <1>5, <1>6, <1>8 DEF DInv

\* A graph that could not be finished is gone, and so is the old one.
LEMMA BuildFailsStep ==
  ASSUME DInv, BuildFails
  PROVE  DInv'
<1>1. Throw /\ building # {} /\ building' = {} /\ UNCHANGED <<graph, embBuf>>
  BY DEF BuildFails
<1>2. Arena'
  BY <1>1 DEF DInv, Arena
<1>. QED
  BY <1>1, <1>2, ThrowStep DEF DInv, DiarTypeOK

\* The graph that is cached has its tables.
LEMMA BuildGraphStep ==
  ASSUME DInv, BuildGraph
  PROVE  DInv'
<1>1. PICK g \in building, placed \in BOOLEAN :
        graph' = {Placed(g, g.frames, placed)}
  BY DEF BuildGraph, Placed
<1>2. /\ diar = "build" /\ diar' = "feed" /\ building' = {}
      /\ UNCHANGED <<hooks, asked, embBuf, validBuf, outBuf, answer>>
  BY DEF BuildGraph
<1>. DEFINE h == Placed(g, g.frames, placed)
<1>3. IsGraph(g)
  BY <1>1 DEF DInv, Arena
<1>4. h.frames = g.frames /\ h.in = g.in /\ h.rope = g.frames /\ IsGraph(h)
  BY <1>3, PlacedFacts
<1>5. graph' = {h}
  BY <1>1
<1>. HIDE DEF h
<1>6. Arena' /\ DiarTypeOK'
  BY <1>2, <1>4, <1>5 DEF DInv, Arena, DiarTypeOK, hooks, IsGraph
<1>7. ASSUME NEW q \in asked'
      PROVE  OnGgml(q)' /\ OnLiteRt(q)'
  <2>1. g.frames = q.frames /\ backend = "ggml"
    BY <1>1, <1>2 DEF DInv, OnGgml
  <2>. QED
    BY <1>2, <1>4, <1>5, <2>1 DEF OnGgml, OnLiteRt, hooks
<1>. QED
  BY <1>2, <1>6, <1>7 DEF DInv

\* A graph is kept only for the frames it was built for.
LEMMA KeepGraphStep ==
  ASSUME DInv, KeepGraph
  PROVE  DInv'
<1>1. PICK r \in asked : ~ NeedsGraph(r)
  BY DEF KeepGraph
<1>2. /\ diar = "build" /\ building = {} /\ diar' = "feed"
      /\ UNCHANGED <<hooks, asked, tensors, answer>>
  BY DEF KeepGraph
<1>3. asked = {r}
  BY <1>1 DEF DInv, DiarTypeOK
<1>4. PICK g : graph = {g} /\ IsGraph(g) /\ g.rope = g.frames /\ g.frames = r.frames
  BY <1>1 DEF DInv, Arena, NeedsGraph
<1>5. backend = "ggml"
  BY <1>1, <1>2 DEF DInv, OnGgml
<1>6. Arena' /\ DiarTypeOK'
  BY <1>2, ArenaKept DEF DInv, DiarTypeOK, hooks, tensors
<1>7. \A q \in asked' : OnGgml(q)' /\ OnLiteRt(q)'
  BY <1>2, <1>3, <1>4, <1>5 DEF OnGgml, OnLiteRt, hooks, tensors
<1>. QED
  BY <1>2, <1>6, <1>7 DEF DInv, tensors
\* Every call feeds the embeddings and the mask: nothing of an earlier call with
\* the same frame count is left in the cached graph.
LEMMA FeedGraphStep ==
  ASSUME DInv, FeedGraph
  PROVE  DInv'
<1>. DEFINE fed(r, g) == Fed(g, Written(r, g.in), (r.valid + 1) .. r.frames)
<1>1. PICK r \in asked, g \in graph : graph' = {fed(r, g)}
  BY DEF FeedGraph, Fed
<1>2. /\ diar = "feed" /\ backend = "ggml" /\ diar' = "run"
      /\ UNCHANGED <<hooks, asked, building, embBuf, validBuf, outBuf, answer>>
  BY DEF FeedGraph
<1>3. asked = {r} /\ r \in Request
  BY <1>1 DEF DInv, DiarTypeOK
<1>4. graph = {g} /\ IsGraph(g) /\ g.frames = r.frames /\ g.rope = g.frames
  BY <1>1, <1>2 DEF DInv, OnGgml
<1>5. DOMAIN Written(r, g.in) = 1 .. g.frames
  BY <1>4 DEF Written, IsGraph
<1>6. Written(r, g.in) = Embeddings(r)
  <2>1. r.frames \in Nat
    BY <1>3, RequestFacts
  <2>2. DOMAIN g.in = 1 .. r.frames
    BY <1>4 DEF IsGraph
  <2>. QED
    BY <2>1, <2>2 DEF Written, Embeddings
<1>7. /\ IsGraph(fed(r, g)) /\ fed(r, g).frames = r.frames /\ fed(r, g).in = Embeddings(r)
      /\ fed(r, g).masked = (r.valid + 1) .. r.frames /\ fed(r, g).rope = r.frames
  BY <1>4, <1>5, <1>6, FedFacts
<1>. HIDE DEF fed
<1>8. Arena'
  <2>1. building' = {}
    BY <1>2 DEF DInv
  <2>. QED
    BY <1>1, <1>7, <2>1 DEF Arena
<1>9. DiarTypeOK'
  BY <1>1, <1>2, <1>7 DEF DInv, DiarTypeOK, hooks, IsGraph
<1>10. \A q \in asked' : OnGgml(q)' /\ OnLiteRt(q)'
  BY <1>1, <1>2, <1>3, <1>7 DEF OnGgml, OnLiteRt, hooks
<1>. QED
  BY <1>2, <1>8, <1>9, <1>10 DEF DInv

\* What a fed graph computes is the meaning of the call.
LEMMA ComputeGraphStep ==
  ASSUME DInv, ComputeGraph
  PROVE  DInv'
<1>1. diar = "run" /\ backend = "ggml" /\ UNCHANGED <<graph, building, embBuf, validBuf>>
  BY DEF ComputeGraph
<1>2. Arena' /\ building = {}
  BY <1>1, ArenaKept DEF DInv
<1>3. CASE Throw
  BY <1>1, <1>2, <1>3, ThrowStep DEF DInv, DiarTypeOK
<1>4. ASSUME NEW g \in graph, outBuf' = Computed(g), diar' = "read", UNCHANGED <<hooks, asked, answer>>
      PROVE  DInv'
  <2>1. ASSUME NEW r \in asked
        PROVE  outBuf' = Meaning(r) /\ graph = {g} /\ IsGraph(g) /\ g.frames = r.frames /\ g.rope = g.frames
    <3>1. /\ graph = {g} /\ IsGraph(g) /\ g.frames = r.frames /\ g.rope = g.frames
          /\ g.in = Embeddings(r) /\ g.masked = (r.valid + 1) .. r.frames
      BY <1>1 DEF DInv, OnGgml
    <3>2. r \in Request
      BY DEF DInv, DiarTypeOK
    <3>. QED
      BY <1>4, <3>1, <3>2, ComputedIsMeaning
  <2>2. DiarTypeOK'
    BY <1>1, <1>4 DEF DInv, DiarTypeOK, hooks
  <2>3. \A r \in asked' : OnGgml(r)' /\ OnLiteRt(r)'
    BY <1>1, <1>4, <2>1 DEF OnGgml, OnLiteRt, hooks
  <2>. QED
    BY <1>1, <1>2, <1>4, <2>2, <2>3 DEF DInv
<1>5. CASE diar' = "crashed" /\ UNCHANGED <<hooks, asked, answer>>
  <2>1. DiarTypeOK'
    BY <1>1, <1>5 DEF DInv, DiarTypeOK, hooks
  <2>2. \A r \in asked' : OnGgml(r)' /\ OnLiteRt(r)'
    BY <1>5 DEF OnGgml, OnLiteRt
  <2>. QED
    BY <1>1, <1>2, <1>5, <2>1, <2>2 DEF DInv
<1>. QED
  BY <1>3, <1>4, <1>5 DEF ComputeGraph

\* The three steps that fill the buffers and run the exported graph.
LEMMA LiteRtSteps ==
  ASSUME DInv, WriteWindow \/ WriteValid \/ RunLiteRt
  PROVE  DInv'
<1>1. PICK r : asked = {r} /\ r \in Request
  BY DEF DInv, DiarTypeOK, WriteWindow, WriteValid, RunLiteRt
<1>2. UNCHANGED <<hooks, asked, graph, building, answer>> /\ backend = "litert"
  BY <1>1 DEF DInv, OnLiteRt, WriteWindow, WriteValid, RunLiteRt
<1>3. diar \in {"feed", "valid", "run"} /\ diar' \in {"valid", "run", "read"} /\ building = {}
  BY DEF DInv, WriteWindow, WriteValid, RunLiteRt
<1>4. DOMAIN Padded(r) = 1 .. MaxFrames
  BY DEF Padded, Written
<1>5. DOMAIN embBuf' = 1 .. MaxFrames
  BY <1>1, <1>4 DEF DInv, DiarTypeOK, WriteWindow, WriteValid, RunLiteRt
<1>6. Arena' /\ DiarTypeOK'
  BY <1>2, <1>3, <1>5, ArenaKept DEF DInv, DiarTypeOK, hooks
<1>7. OnLiteRt(r)'
  <2>1. CASE WriteWindow
    <3>1. r.frames <= MaxFrames
      <4>1. ~ (r.frames > MaxFrames) /\ r.frames \in Nat /\ MaxFrames \in Nat
        BY <1>1, <1>2, <2>1, RequestFacts, DiarAssumption DEF WriteWindow, Rejected
      <4>. QED
        BY <4>1
    <3>. QED
      BY <1>1, <1>2, <2>1, <3>1 DEF WriteWindow, OnLiteRt, hooks
  <2>2. CASE WriteValid
    BY <1>1, <1>2, <2>2 DEF WriteValid, OnLiteRt, DInv, hooks
  <2>3. CASE RunLiteRt
    BY <1>1, <1>2, <2>3 DEF RunLiteRt, OnLiteRt, DInv, hooks
  <2>. QED
    BY <2>1, <2>2, <2>3
<1>8. OnGgml(r)'
  BY <1>2, <1>3 DEF OnGgml, hooks
<1>. QED
  BY <1>1, <1>2, <1>3, <1>6, <1>7, <1>8 DEF DInv

\* What is returned is the meaning of the call, or no answer.
LEMMA ReadOutputStep ==
  ASSUME DInv, ReadOutput
  PROVE  DInv' /\ Pure!Reply
<1>1. PICK r \in asked : Return(IF backend = "ggml" THEN outBuf ELSE Kept(outBuf, r.frames))
  BY DEF ReadOutput
<1>2. diar = "read" /\ asked' = {} /\ diar' = "idle" /\ UNCHANGED <<hooks, tensors>>
  BY <1>1 DEF ReadOutput, Return
<1>3. r \in Request
  BY DEF DInv, DiarTypeOK
<1>4. backend \in {"ggml", "litert"}
  BY DiarAssumption DEF DInv, DiarTypeOK
<1>5. ASSUME backend = "ggml"
      PROVE  Pure!Reply
  BY <1>1, <1>2, <1>5 DEF DInv, OnGgml, Return, Pure!Reply
<1>6. ASSUME backend = "litert"
      PROVE  Pure!Reply
  <2>1. /\ r.frames <= MaxFrames
        /\ outBuf = Network(Padded(r), [k \in 1 .. r.valid |-> Padded(r)[k]], MaxFrames, {})
    BY <1>2, <1>6 DEF DInv, OnLiteRt
  <2>2. Kept(outBuf, r.frames) = Meaning(r)
    BY <1>3, <2>1, KeptIsMeaning
  <2>. QED
    BY <1>1, <1>2, <1>6, <2>2 DEF Return, Pure!Reply
<1>7. Pure!Reply
  BY <1>4, <1>5, <1>6
<1>8. DInv'
  BY <1>2, ArenaKept DEF DInv, DiarTypeOK, hooks, tensors
<1>. QED
  BY <1>7, <1>8

\* Each step keeps the invariant, and is a call, an answer or neither for whoever
\* holds the hook.
LEMMA DiarStepKeepsDInv ==
  ASSUME DInv, [DiarNext]_diarVars
  PROVE  DInv' /\ [Pure!Next]_(Pure!vars)
<1>1. CASE Call
  <2>1. Pure!Ask
    BY <1>1 DEF Call, DInv, DiarTypeOK, Pure!Ask
  <2>. QED
    BY <1>1, <2>1, CallStep DEF Pure!Next
<1>2. CASE PreEncode
  BY <1>2, PreEncodeStep DEF PreEncode, Pure!vars
<1>3. ASSUME Throw, diar # "idle"
      PROVE  Pure!Reply
  BY <1>3 DEF Throw, DInv, DiarTypeOK, Pure!Reply
<1>4. CASE PreEncodeFails \/ Reject \/ LiteRtFails
  BY <1>3, <1>4, PlainFailures DEF PreEncodeFails, Reject, LiteRtFails, Pure!Next
<1>5. CASE DropGraph
  BY <1>5, DropGraphStep DEF DropGraph, Pure!vars
<1>6. CASE BuildFails
  BY <1>3, <1>6, BuildFailsStep DEF BuildFails, Pure!Next
<1>7. CASE BuildGraph
  BY <1>7, BuildGraphStep DEF BuildGraph, Pure!vars
<1>8. CASE KeepGraph
  BY <1>8, KeepGraphStep DEF KeepGraph, Pure!vars
<1>9. CASE FeedGraph
  BY <1>9, FeedGraphStep DEF FeedGraph, Pure!vars
<1>10. CASE ComputeGraph
  <2>1. Throw \/ UNCHANGED <<asked, answer>>
    BY <1>10 DEF ComputeGraph
  <2>2. diar # "idle"
    BY <1>10 DEF ComputeGraph
  <2>. QED
    BY <1>3, <1>10, <2>1, <2>2, ComputeGraphStep DEF Pure!Next, Pure!vars
<1>11. CASE WriteWindow \/ WriteValid \/ RunLiteRt
  BY <1>11, LiteRtSteps DEF WriteWindow, WriteValid, RunLiteRt, Pure!vars
<1>12. CASE ReadOutput
  BY <1>12, ReadOutputStep DEF Pure!Next
<1>13. CASE UNCHANGED diarVars
  <2>1. UNCHANGED <<backend, pre, asked, diar, graph, building, embBuf, validBuf, outBuf, answer>>
    BY <1>13 DEF diarVars, hooks, tensors
  <2>2. DInv'
    BY <2>1 DEF DInv, DiarTypeOK, Arena, OnGgml, OnLiteRt
  <2>. QED
    BY <2>1, <2>2 DEF Pure!vars
<1>. QED
  BY <1>1, <1>2, <1>4, <1>5, <1>6, <1>7, <1>8, <1>9, <1>10, <1>11, <1>12, <1>13 DEF DiarNext, DiarStep

\* The invariant holds for every sequence of calls.
LEMMA DiarInductiveInvariant == DiarSpec => []DInv
<1>1. DiarInit => DInv
  BY DiarInitHolds
<1>2. DInv /\ [DiarNext]_diarVars => DInv'
  BY DiarStepKeepsDInv
<1>. QED
  BY <1>1, <1>2, PTL DEF DiarSpec

-----------------------------------------------------------------------------
(* The theorems *)

\* The types of the hooks, and that a cached graph is a finished one.
THEOREM DiarTypeCorrect == DiarSpec => []DiarTypeOK
<1>1. DInv => DiarTypeOK
  BY DEF DInv
<1>. QED
  BY DiarInductiveInvariant, <1>1, PTL

\* The old graph is freed before the new one is allocated, on every path through
\* a rebuild that fails: their arenas never add up.
LEMMA DInvOneArena ==
  ASSUME DInv
  PROVE  OneArena
<1>1. Cardinality({}) = 0
  BY FS_EmptySet
<1>2. \A g : Cardinality({g}) = 1
  BY FS_Singleton
<1>3. Cardinality(graph) \in {0, 1} /\ Cardinality(building) \in {0, 1}
  BY <1>1, <1>2 DEF DInv, Arena
<1>4. Cardinality(graph) = 0 \/ Cardinality(building) = 0
  BY <1>1 DEF DInv, Arena
<1>. QED
  BY <1>3, <1>4 DEF OneArena

\* DiarCrispASR::encode never has two graphs alive at once.
THEOREM NeverTwoArenas == DiarSpec => []OneArena
BY DiarInductiveInvariant, DInvOneArena, PTL

\* Both encoders, with the graph or the buffers they keep between calls and with
\* every failure at every step, answer each call as if it were the first.
THEOREM ImplementsPureEncoder == DiarSpec => LayerOverEncoder
<1>1. DiarInit => Pure!Init
  BY DEF DiarInit, Pure!Init
<1>2. DInv /\ [DiarNext]_diarVars => [Pure!Next]_(Pure!vars)
  BY DiarStepKeepsDInv
<1>. QED
  BY DiarInductiveInvariant, <1>1, <1>2, PTL DEF DiarSpec, LayerOverEncoder, Pure!Spec

-----------------------------------------------------------------------------
(* Each backend sees a legal caller *)

\* A step of the run is a step of each backend, or none of its concern.
LEMMA StepsOfTheParts ==
  ASSUME [Next]_vars
  PROVE  [AsrNext]_asrVars /\ [DiarNext]_diarVars
BY DEF Next, vars, AskEncoder, InHook, EndPush, EndDecode, AcceptPiece, InAccept, StartOver,
       StartOverAborts, Stop, AsrNext, DiarNext

\* The run loop only ever uses the recognizer's stream as its specification says.
THEOREM StreamIsUsedProperly == Spec => AsrSpec
<1>1. Init => AsrInit
  BY DEF Init
<1>2. [Next]_vars => [AsrNext]_asrVars
  BY StepsOfTheParts
<1>. QED
  BY <1>1, <1>2, PTL DEF Spec, AsrSpec

\* It only ever lets the diarizer use its encoder as the specification says.
THEOREM EncoderIsUsedProperly == Spec => DiarSpec
<1>1. Init => DiarInit
  BY DEF Init
<1>2. [Next]_vars => [DiarNext]_diarVars
  BY StepsOfTheParts
<1>. QED
  BY <1>1, <1>2, PTL DEF Spec, DiarSpec

-----------------------------------------------------------------------------
(* What holds of the parts holds in the run *)

\* The states fed to the recognizer are those of the windows consumed.
THEOREM RunCarriesStates == Spec => []CarriedState
BY StreamIsUsedProperly, StatesAreCarried, PTL

\* No window is decoded twice or forgotten silently.
THEOREM RunAccountsForWindows == Spec => []Accounted
BY StreamIsUsedProperly, WindowsAreAccounted, PTL

\* A frame's time is early by the windows dropped before it.
THEOREM RunTimesLag == Spec => []TimesLagByTheLost
BY StreamIsUsedProperly, TimesLag, PTL

\* Two arenas are never alive at once.
THEOREM RunHasOneArena == Spec => []OneArena
BY EncoderIsUsedProperly, NeverTwoArenas, PTL

\* The recognizer gets a causal stream.
THEOREM RunStreams == Spec => LayerOverStream
BY StreamIsUsedProperly, ImplementsCausalStream, PTL

\* The diarizer gets a pure encoder.
THEOREM RunEncodesPurely == Spec => LayerOverEncoder
BY EncoderIsUsedProperly, ImplementsPureEncoder, PTL

-----------------------------------------------------------------------------
(* The composition *)

\* Who may be called when.
Callers ==
  /\ phase \in {"push", "accept", "hear", "decode", "done", "failed", "aborted"}
  /\ piece \in 0 .. Pieces /\ nulls \in BOOLEAN
  /\ phase = "accept" => piece < Pieces
  /\ diar # "idle" => phase \in {"push", "decode", "aborted"}
  /\ phase = "hear" <=> asr \notin {"idle", "aborted"}
  /\ asr = "aborted" => phase = "aborted"

\* As long as no accept returned NULL nothing is lost, and between accepts
\* nothing is behind.
Complete ==
  ~ nulls => (lost = {} /\ (asr = "idle" => pos = rows))

RInv == IInv /\ DInv /\ Callers /\ Complete

\* A run starts with both backends idle.
LEMMA RunInitHolds ==
  ASSUME Init
  PROVE  RInv
<1>1. IInv /\ DInv
  BY InitHolds, DiarInitHolds DEF Init
<1>2. Callers
  BY PiecesAssumption DEF Init, AsrInit, DiarInit, Callers
<1>3. Complete
  BY DEF Init, AsrInit, Complete
<1>. QED
  BY <1>1, <1>2, <1>3 DEF RInv

\* Where an accept ends, and with what.
LEMMA AcceptEnds ==
  ASSUME IInv, AsrStep, asr \notin {"idle", "aborted"}
  PROVE  /\ asr' \in {"idle", "next", "run", "read"}
         /\ (asr' = "idle" /\ pos < rows) \/ (UNCHANGED lost /\ (asr' = "idle" => pos' = rows'))
<1>1. asr \in {"run", "read"} => pos < rows
  BY DEF IInv, Stages
<1>. QED
  BY <1>1 DEF AsrStep, WriteFeatures, ChunkRefused, RunGraph, ReadFails, ReadEncoding, Greedy,
              AcceptNull, spoken

\* Every step of the run keeps both backends and the order of their callers.
LEMMA RunStep ==
  ASSUME RInv, [Next]_vars
  PROVE  RInv'
<1>1. IInv' /\ DInv'
  BY StepsOfTheParts, AsrStepKeepsIInv, DiarStepKeepsDInv DEF RInv
<1>2. IInv /\ DInv /\ Callers /\ Complete
  BY DEF RInv
<1>3. CASE AskEncoder
  BY <1>1, <1>2, <1>3 DEF AskEncoder, Call, Callers, Complete, RInv, asrVars, runVars, spoken
<1>4. CASE InHook
  <2>1. /\ phase \in {"push", "decode"} /\ phase' = AfterHook
        /\ UNCHANGED <<asrVars, piece, nulls>>
    BY <1>4 DEF InHook
  <2>2. phase' \in {"push", "decode", "aborted"} \/ (diar' = "idle" /\ phase' \in {"failed", "done"})
    BY <2>1 DEF AfterHook
  <2>. QED
    BY <1>1, <1>2, <2>1, <2>2 DEF Callers, Complete, RInv, asrVars, spoken
<1>5. CASE EndPush \/ EndDecode
  BY <1>1, <1>2, <1>5, PiecesAssumption
  DEF EndPush, EndDecode, Callers, Complete, RInv, asrVars, diarVars, spoken
<1>6. CASE AcceptPiece
  <2>1. /\ phase = "accept" /\ asr = "idle" /\ asr' = "next" /\ phase' = "hear" /\ piece' = piece + 1
        /\ UNCHANGED <<diarVars, nulls, lost>>
    BY <1>6 DEF AcceptPiece, Accept, spoken
  <2>. QED
    BY <1>1, <1>2, <2>1, PiecesAssumption DEF Callers, Complete, RInv, diarVars
<1>7. CASE InAccept
  <2>1. /\ phase = "hear" /\ phase' = (IF asr' = "idle" THEN "push" ELSE "hear")
        /\ nulls' = (nulls \/ (asr' = "idle" /\ pos < rows))
        /\ UNCHANGED <<diarVars, piece>>
    BY <1>7 DEF InAccept
  <2>2. /\ asr' \in {"idle", "next", "run", "read"}
        /\ (asr' = "idle" /\ pos < rows) \/ (UNCHANGED lost /\ (asr' = "idle" => pos' = rows'))
    BY <1>2, <1>7, AcceptEnds DEF InAccept, Callers
  <2>3. Callers'
    BY <1>2, <2>1, <2>2 DEF Callers, diarVars
  <2>4. Complete'
    BY <1>2, <2>1, <2>2 DEF Complete
  <2>. QED
    BY <1>1, <2>3, <2>4 DEF RInv
<1>8. CASE StartOver
  BY <1>1, <1>2, <1>8 DEF StartOver, Reset, Callers, Complete, RInv, diarVars
<1>9. CASE StartOverAborts
  BY <1>1, <1>2, <1>9 DEF StartOverAborts, ResetAborts, Callers, Complete, RInv, diarVars, spoken
<1>10. CASE UNCHANGED vars
  BY <1>1, <1>2, <1>10 DEF vars, asrVars, diarVars, runVars, spoken, Callers, Complete, RInv
<1>. QED
  BY <1>3, <1>4, <1>5, <1>6, <1>7, <1>8, <1>9, <1>10 DEF Next, Stop

\* The invariant holds throughout a run.
LEMMA RunInductiveInvariant == Spec => []RInv
<1>1. Init => RInv
  BY RunInitHolds
<1>2. RInv /\ [Next]_vars => RInv'
  BY RunStep
<1>. QED
  BY <1>1, <1>2, PTL DEF Spec

\* One caller at a time: no hook inside an accept, no chunk inside a push.
LEMMA RInvTypes ==
  ASSUME RInv
  PROVE  TypeOK
BY DEF RInv, IInv, DInv, Callers, TypeOK

\* A run keeps all types, and calls one backend at a time (Engine::run).
THEOREM RunTypeCorrect == Spec => []TypeOK
BY RunInductiveInvariant, RInvTypes, PTL

\* Nothing was dropped, so the k-th encoding decoded has the time k - 1 and is
\* late by nothing: it is the k-th window.
LEMMA RInvComplete ==
  ASSUME RInv
  PROVE  CompleteUnlessNull
<1>. SUFFICES ASSUME phase \in {"push", "accept", "decode", "done"}, ~ nulls
              PROVE  /\ pos = rows
                     /\ decoded = [n \in 1 .. pos |-> Upto(n)]
                     /\ times = [n \in 1 .. pos |-> n - 1]
  BY DEF CompleteUnlessNull
<1>1. asr = "idle" /\ lost = {} /\ pos = rows
  BY DEF RInv, Callers, Complete, IInv, AsrTypeOK
<1>2. Settled = pos /\ pos \in Nat
  BY <1>1 DEF RInv, IInv, Waiting, Settled, AsrTypeOK
<1>3. /\ Len(decoded) = pos /\ Len(times) = pos
      /\ \A i \in DOMAIN times : times[i] = i - 1
  BY <1>1, <1>2, FS_EmptySet DEF RInv, IInv, Counted, AsrTypeOK
<1>4. /\ decoded \in Seq(Seq(Nat)) /\ DOMAIN decoded = 1 .. pos
      /\ times \in Seq(Nat) /\ DOMAIN times = 1 .. pos
      /\ decoded = [i \in 1 .. pos |-> decoded[i]] /\ times = [i \in 1 .. pos |-> times[i]]
  BY <1>3 DEF RInv, IInv, AsrTypeOK
<1>5. ASSUME NEW i \in 1 .. pos
      PROVE  decoded[i] = Upto(i)
  <2>. DEFINE earlier == {e \in lost : Len(e) < Len(decoded[i])}
  <2>1. times[i] = Len(decoded[i]) - 1 - Cardinality(earlier)
    BY <1>4 DEF RInv, IInv, TimesLagByTheLost
  <2>2. earlier = {}
    BY <1>1
  <2>. HIDE DEF earlier
  <2>3. Cardinality(earlier) = 0
    BY <2>2, FS_EmptySet
  <2>4. times[i] = i - 1
    BY <1>3, <1>4
  <2>5. decoded[i] = Upto(Len(decoded[i])) /\ Len(decoded[i]) \in Nat
    BY <1>2, <1>4 DEF RInv, IInv, Ledger
  <2>6. Len(decoded[i]) = i
    BY <2>1, <2>3, <2>4, <2>5
  <2>. QED
    BY <2>5, <2>6
<1>. QED
  BY <1>1, <1>3, <1>4, <1>5

\* A run that finished, none of whose accepts returned NULL, has decoded every
\* window of features there was, from an unbroken history, at its own time.
THEOREM NothingIsLostWithoutNull == Spec => []CompleteUnlessNull
BY RunInductiveInvariant, RInvComplete, PTL
=============================================================================
