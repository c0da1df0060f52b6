------------------------- MODULE TurnTimelineProofs -------------------------
(***************************************************************************)
(* Proofs about TurnTimeline for every tolerance, every set of labels and  *)
(* every set of snapshots.                                                 *)
(***************************************************************************)
EXTENDS TurnTimeline, SequenceTheorems, TLAPS

-----------------------------------------------------------------------------
(* The elementary operators *)

\* A refined turn is a turn with the start it had, an end that is not earlier
\* than either end, and a label if it had one.
LEMMA RestatedFacts ==
  ASSUME NEW e \in Turn, NEW t \in Turn
  PROVE  /\ Restated(e, t) \in Turn
         /\ Restated(e, t).start = e.start
         /\ e.end <= Restated(e, t).end
         /\ t.end <= Restated(e, t).end
         /\ e.speaker # NoLabel => Restated(e, t).speaker # NoLabel
BY DEF Restated, Turn, Larger

\* Refining one entry keeps the entries apart, because no start moves.
LEMMA RefineApart ==
  ASSUME NEW ts \in Seq(Turn), Apart(ts), NEW i \in DOMAIN ts, NEW t \in Turn
  PROVE  LET us == [ts EXCEPT ![i] = Restated(@, t)]
         IN  us \in Seq(Turn) /\ DOMAIN us = DOMAIN ts /\ Apart(us)
<1> DEFINE us == [ts EXCEPT ![i] = Restated(@, t)]
<1>1. ts[i] \in Turn
  BY ElementOfSeq
<1>2. Restated(ts[i], t) \in Turn /\ Restated(ts[i], t).start = ts[i].start
  BY <1>1, RestatedFacts
<1>3. us \in Seq(Turn) /\ DOMAIN us = DOMAIN ts
  BY <1>2, ExceptSeq
<1>4. \A j \in DOMAIN ts : us[j].start = ts[j].start
  BY <1>2
<1>5. Apart(us)
  BY <1>3, <1>4 DEF Apart, Near
<1>. QED
  BY <1>3, <1>5

\* Appending a turn that matches no entry keeps the entries apart.
LEMMA AppendApart ==
  ASSUME NEW ts \in Seq(Turn), Apart(ts), NEW t \in Turn, ~ HasMatch(ts, t)
  PROVE  /\ Append(ts, t) \in Seq(Turn)
         /\ Apart(Append(ts, t))
<1> DEFINE us == Append(ts, t)
<1>1. /\ us \in Seq(Turn)
      /\ DOMAIN us = 1 .. Len(ts) + 1
      /\ \A i \in 1 .. Len(ts) : us[i] = ts[i]
      /\ us[Len(ts) + 1] = t
  OBVIOUS
<1>2. DOMAIN ts = 1 .. Len(ts) /\ Len(ts) \in Nat
  OBVIOUS
<1>3. \A i \in 1 .. Len(ts) : ~ Near(ts[i], t) /\ ~ Near(t, ts[i])
  BY <1>2 DEF HasMatch, Near
<1>4. ASSUME NEW i \in DOMAIN us, NEW j \in DOMAIN us, i # j
      PROVE  ~ Near(us[i], us[j])
  BY <1>1, <1>2, <1>3, <1>4 DEF Apart
<1>. QED
  BY <1>1, <1>4 DEF Apart

\* us holds the entries of ts, perhaps in another order.
Rearranged(us, ts) ==
  \E p \in Permutation(DOMAIN ts) :
    DOMAIN us = DOMAIN ts /\ \A i \in DOMAIN ts : us[i] = ts[p[i]]

\* A rearranged list has the same turns, as far apart.
LEMMA RearrangedFacts ==
  ASSUME NEW ts \in Seq(Turn), NEW us, Rearranged(us, ts)
  PROVE  /\ \A i \in DOMAIN us : \E j \in DOMAIN ts : us[i] = ts[j]
         /\ \A j \in DOMAIN ts : \E i \in DOMAIN us : us[i] = ts[j]
         /\ Apart(ts) => Apart(us)
<1>1. PICK p \in Permutation(DOMAIN ts) :
        DOMAIN us = DOMAIN ts /\ \A i \in DOMAIN ts : us[i] = ts[p[i]]
  BY DEF Rearranged
<1>2. /\ p \in [DOMAIN ts -> DOMAIN ts]
      /\ \A i, j \in DOMAIN ts : p[i] = p[j] => i = j
      /\ \A j \in DOMAIN ts : \E i \in DOMAIN ts : p[i] = j
  BY DEF Permutation
<1>3. \A i \in DOMAIN us : \E j \in DOMAIN ts : us[i] = ts[j]
  BY <1>1, <1>2
<1>4. \A j \in DOMAIN ts : \E i \in DOMAIN us : us[i] = ts[j]
  BY <1>1, <1>2
<1>5. Apart(ts) => Apart(us)
  BY <1>1, <1>2 DEF Apart
<1>. QED
  BY <1>3, <1>4, <1>5

\* What an iteration leaves in the list: a rearrangement, whether it is the
\* one that sorts or not; ordered if it sorts.
LEMMA EndIterationFacts ==
  ASSUME NEW ts \in Seq(Turn), EndIteration(ts)
  PROVE  /\ turns' \in Seq(Turn)
         /\ Rearranged(turns', ts)
         /\ pending' = <<>> => Ordered(turns')
<1>1. CASE Tail(pending) = <<>>
  <2>1. PICK p \in Permutation(DOMAIN ts) :
          turns' = [i \in DOMAIN ts |-> ts[p[i]]]
    BY <1>1 DEF EndIteration, SortedOf
  <2>2. p \in [DOMAIN ts -> DOMAIN ts]
    BY DEF Permutation
  <2>3. turns' \in [1 .. Len(ts) -> Turn]
    BY <2>1, <2>2
  <2>4. turns' \in Seq(Turn)
    BY <2>3, IsASeq
  <2>5. Rearranged(turns', ts)
    BY <2>1 DEF Rearranged
  <2>6. Ordered(turns')
    BY <1>1 DEF EndIteration, SortedOf
  <2>. QED
    BY <2>4, <2>5, <2>6
<1>2. CASE Tail(pending) # <<>>
  <2>1. turns' = ts /\ pending' # <<>>
    BY <1>2 DEF EndIteration
  <2>2. [i \in DOMAIN ts |-> i] \in Permutation(DOMAIN ts)
    BY DEF Permutation
  <2>3. Rearranged(turns', ts)
    BY <2>1, <2>2 DEF Rearranged
  <2>. QED
    BY <2>1, <2>3
<1>. QED
  BY <1>1, <1>2

-----------------------------------------------------------------------------
(* One iteration *)

\* What both kinds of iteration do to the list before the sort: the entries
\* stay apart, none is forgotten, and the turn visited is represented.
Places(ts) ==
  /\ ts \in Seq(Turn)
  /\ Apart(ts)
  /\ \A i \in DOMAIN turns : Survives(turns[i], ts)
  /\ Represented(Head(pending), ts)

\* Merging a turn into its match keeps every place.
LEMMA RefinePlaces ==
  ASSUME TypeOK, Separated, ~ Idle,
         NEW i, FirstMatch(turns, Head(pending), i)
  PROVE  Places([turns EXCEPT ![i] = Restated(@, Head(pending))])
<1> DEFINE t == Head(pending)
           ts == [turns EXCEPT ![i] = Restated(@, t)]
<1>1. t \in Turn
  BY DEF TypeOK, Idle
<1>2. i \in DOMAIN turns /\ Near(turns[i], t)
  BY DEF FirstMatch
<1>3. turns \in Seq(Turn) /\ Apart(turns)
  BY DEF TypeOK, Separated
<1>4. ts \in Seq(Turn) /\ DOMAIN ts = DOMAIN turns /\ Apart(ts)
  BY <1>1, <1>2, <1>3, RefineApart
<1>5. \A j \in DOMAIN turns : turns[j] \in Turn
  BY <1>3, ElementOfSeq
<1>6. /\ ts[i] = Restated(turns[i], t)
      /\ \A j \in DOMAIN turns \ {i} : ts[j] = turns[j]
  BY <1>2
<1>7. /\ ts[i].start = turns[i].start
      /\ turns[i].end <= ts[i].end
      /\ t.end <= ts[i].end
      /\ turns[i].speaker # NoLabel => ts[i].speaker # NoLabel
  BY <1>1, <1>2, <1>5, <1>6, RestatedFacts
<1>8. \A j \in DOMAIN turns : Survives(turns[j], ts)
  <2> SUFFICES ASSUME NEW j \in DOMAIN turns
               PROVE  Survives(turns[j], ts)
    OBVIOUS
  <2>1. CASE j = i
    BY <2>1, <1>4, <1>7 DEF Survives
  <2>2. CASE j # i
    <3>1. turns[j].end <= turns[j].end
      BY <1>5 DEF Turn
    <3>. QED
      BY <2>2, <3>1, <1>4, <1>6 DEF Survives
  <2>. QED
    BY <2>1, <2>2
<1>9. Near(ts[i], t)
  BY <1>2, <1>7 DEF Near
<1>. QED
  BY <1>2, <1>4, <1>7, <1>8, <1>9 DEF Places, Represented

\* A turn without a match gets a place of its own.
LEMMA AppendPlaces ==
  ASSUME TypeOK, Separated, ~ Idle, ~ HasMatch(turns, Head(pending)),
         Tol \in Nat
  PROVE  Places(Append(turns, Head(pending)))
<1> DEFINE t == Head(pending)
           ts == Append(turns, t)
<1>1. t \in Turn
  BY DEF TypeOK, Idle
<1>2. turns \in Seq(Turn) /\ Apart(turns)
  BY DEF TypeOK, Separated
<1>3. ts \in Seq(Turn) /\ Apart(ts)
  BY <1>1, <1>2, AppendApart
<1>4. /\ DOMAIN turns = 1 .. Len(turns) /\ Len(turns) \in Nat
      /\ DOMAIN ts = 1 .. Len(turns) + 1
      /\ \A j \in 1 .. Len(turns) : ts[j] = turns[j]
      /\ ts[Len(turns) + 1] = t
  BY <1>1, <1>2
<1>5. \A j \in DOMAIN turns : turns[j] \in Turn
  BY <1>2, ElementOfSeq
<1>6. \A j \in DOMAIN turns : Survives(turns[j], ts)
  <2> SUFFICES ASSUME NEW j \in DOMAIN turns
               PROVE  Survives(turns[j], ts)
    OBVIOUS
  <2>1. j \in DOMAIN ts /\ ts[j] = turns[j]
    BY <1>4
  <2>2. turns[j].end <= turns[j].end
    BY <1>5 DEF Turn
  <2>. QED
    BY <2>1, <2>2 DEF Survives
<1>7. Near(t, t) /\ t.end <= t.end
  BY <1>1 DEF Near, Turn
<1>8. Len(turns) + 1 \in DOMAIN ts
  BY <1>4
<1>. QED
  BY <1>3, <1>4, <1>6, <1>7, <1>8 DEF Places, Represented

\* What is represented in a list is represented in any list its entries
\* survive in.
LEMMA StillRepresented ==
  ASSUME NEW ts \in Seq(Turn), NEW us \in Seq(Turn), NEW t \in Turn,
         \A i \in DOMAIN ts : Survives(ts[i], us),
         Represented(t, ts)
  PROVE  Represented(t, us)
<1>1. PICK i \in DOMAIN ts : Near(ts[i], t) /\ t.end <= ts[i].end
  BY DEF Represented
<1>2. PICK j \in DOMAIN us : /\ us[j].start = ts[i].start
                            /\ ts[i].end <= us[j].end
  BY DEF Survives
<1>3. ts[i] \in Turn /\ us[j] \in Turn
  BY ElementOfSeq
<1>4. Near(us[j], t)
  BY <1>1, <1>2 DEF Near
<1>5. t.end <= us[j].end
  BY <1>1, <1>2, <1>3 DEF Turn
<1>. QED
  BY <1>4, <1>5 DEF Represented

\* An iteration that keeps every place keeps the invariant.
LEMMA IterationKeepsInv ==
  ASSUME IInv, ~ Idle, NEW ts, Places(ts), EndIteration(ts)
  PROVE  /\ IInv'
         /\ \A i \in DOMAIN turns : Survives(turns[i], turns')
<1>1. ts \in Seq(Turn) /\ Apart(ts)
  BY DEF Places
<1>2. /\ turns' \in Seq(Turn)
      /\ Rearranged(turns', ts)
      /\ pending' = <<>> => Ordered(turns')
  BY <1>1, EndIterationFacts
<1>3. /\ \A j \in DOMAIN ts : \E i \in DOMAIN turns' : turns'[i] = ts[j]
      /\ Apart(turns')
  BY <1>1, <1>2, RearrangedFacts
<1>4. \A i \in DOMAIN turns : Survives(turns[i], turns')
  BY <1>3 DEF Places, Survives
<1>5. /\ turns \in Seq(Turn) /\ pending \in Seq(Turn) /\ told \in Seq(Turn)
      /\ pending # <<>>
      /\ pending' = Tail(pending)
      /\ told' = told
  BY DEF IInv, TypeOK, Idle, EndIteration
<1>6. TypeOK'
  BY <1>2, <1>5 DEF TypeOK
<1>7. Separated'
  BY <1>3 DEF Separated
<1>8. /\ Len(pending) \in Nat \ {0} /\ Len(told) \in Nat
      /\ Len(pending') = Len(pending) - 1
      /\ \A k \in DOMAIN pending' : pending'[k] = pending[k + 1]
      /\ Head(pending) = pending[1]
      /\ DOMAIN pending = 1 .. Len(pending)
      /\ DOMAIN pending' = 1 .. Len(pending')
      /\ DOMAIN told = 1 .. Len(told)
  BY <1>5
<1>9. /\ Visited \in 0 .. Len(told)
      /\ \A k \in DOMAIN pending : pending[k] = told[Visited + k]
      /\ \A k \in 1 .. Visited : Represented(told[k], turns)
  BY DEF IInv, LoopInv
<1>10. Visited' = Visited + 1 /\ Visited' \in 0 .. Len(told)
  BY <1>5, <1>8, <1>9 DEF Visited
<1>11. ASSUME NEW k \in DOMAIN pending'
       PROVE  pending'[k] = told'[Visited' + k]
  <2>1. k + 1 \in DOMAIN pending /\ pending'[k] = pending[k + 1]
    BY <1>8
  <2>2. pending[k + 1] = told[Visited + (k + 1)]
    BY <2>1, <1>9
  <2>3. Visited + (k + 1) = Visited' + k
    BY <1>8, <1>9, <1>10
  <2>. QED
    BY <2>1, <2>2, <2>3, <1>5
<1>12. Represented(Head(pending), turns')
  BY <1>3 DEF Places, Represented
<1>13. told[Visited'] = Head(pending)
  BY <1>8, <1>9, <1>10
<1>14. ASSUME NEW k \in 1 .. Visited'
       PROVE  Represented(told'[k], turns')
  <2>1. CASE k = Visited'
    BY <2>1, <1>5, <1>12, <1>13
  <2>2. CASE k # Visited'
    <3>1. k \in 1 .. Visited /\ k \in DOMAIN told
      BY <2>2, <1>8, <1>9, <1>10
    <3>2. told[k] \in Turn
      BY <3>1, <1>5, ElementOfSeq
    <3>. QED
      BY <3>1, <3>2, <1>2, <1>4, <1>5, <1>9, StillRepresented
  <2>. QED
    BY <2>1, <2>2
<1>15. LoopInv'
  BY <1>2, <1>5, <1>10, <1>11, <1>14 DEF LoopInv, Idle
<1>. QED
  BY <1>4, <1>6, <1>7, <1>15 DEF IInv

-----------------------------------------------------------------------------
(* The theorems *)

\* The list starts empty.
LEMMA InitInv == Init => IInv
BY DEF Init, IInv, TypeOK, Separated, Apart, LoopInv, Visited, Idle, Ordered

\* One step keeps the inductive invariant, and no entry is forgotten.
LEMMA StepInv ==
  ASSUME IInv, [Next]_vars
  PROVE  /\ IInv'
         /\ \A i \in DOMAIN turns : Survives(turns[i], turns')
<1> USE TurnsAssumption
<1>0. ASSUME UNCHANGED turns
      PROVE  \A i \in DOMAIN turns : Survives(turns[i], turns')
  <2>1. \A i \in DOMAIN turns : turns[i] \in Turn
    BY ElementOfSeq DEF IInv, TypeOK
  <2>2. \A i \in DOMAIN turns : turns[i].end <= turns[i].end
    BY <2>1 DEF Turn
  <2>. QED
    BY <1>0, <2>2 DEF Survives
<1>1. ASSUME NEW s \in Snapshots, BeginUpdate(s)
      PROVE  /\ IInv'
             /\ \A i \in DOMAIN turns : Survives(turns[i], turns')
  <2>1. /\ s \in Seq(Turn) /\ s # <<>>
        /\ pending' = s /\ told' = s /\ UNCHANGED turns
    BY <1>1, SnapshotsAssumption DEF BeginUpdate
  <2>2. TypeOK' /\ Separated'
    BY <2>1 DEF IInv, TypeOK, Separated
  <2>3. Visited' = 0 /\ Len(s) \in Nat
    BY <2>1 DEF Visited
  <2>4. LoopInv'
    BY <2>1, <2>3 DEF LoopInv, Idle
  <2>. QED
    BY <1>0, <2>1, <2>2, <2>4 DEF IInv
<1>2. ASSUME NEW i \in DOMAIN turns, RefineTurn(i)
      PROVE  /\ IInv'
             /\ \A k \in DOMAIN turns : Survives(turns[k], turns')
  <2> DEFINE ts == [turns EXCEPT ![i] = Restated(@, Head(pending))]
  <2>1. ~ Idle /\ FirstMatch(turns, Head(pending), i) /\ EndIteration(ts)
    BY <1>2 DEF RefineTurn
  <2>2. Places(ts)
    BY <2>1, RefinePlaces DEF IInv
  <2> HIDE DEF ts
  <2>. QED
    BY <2>1, <2>2, IterationKeepsInv
<1>3. ASSUME AppendTurn
      PROVE  /\ IInv'
             /\ \A k \in DOMAIN turns : Survives(turns[k], turns')
  <2> DEFINE ts == Append(turns, Head(pending))
  <2>1. ~ Idle /\ ~ HasMatch(turns, Head(pending)) /\ EndIteration(ts)
    BY <1>3 DEF AppendTurn
  <2>2. Places(ts)
    BY <2>1, AppendPlaces DEF IInv
  <2> HIDE DEF ts
  <2>. QED
    BY <2>1, <2>2, IterationKeepsInv
<1>4. CASE UNCHANGED vars
  <2>1. IInv'
    BY <1>4 DEF vars, IInv, TypeOK, Separated, LoopInv, Visited, Idle
  <2>. QED
    BY <1>0, <1>4, <2>1 DEF vars
<1>. QED
  BY <1>1, <1>2, <1>3, <1>4 DEF Next

\* The invariant holds for any sequence of snapshots.
THEOREM InductiveInvariant == Spec => []IInv
<1>1. IInv /\ [Next]_vars => IInv'
  BY StepInv
<1>. QED
  BY InitInv, <1>1, PTL DEF Spec

\* The turn list is a list of turns throughout (Fusion::turns_).
THEOREM TypeCorrect == Spec => []TypeOK
<1>1. IInv => TypeOK
  BY DEF IInv
<1>. QED
  BY InductiveInvariant, <1>1, PTL

\* update_turns never holds two turns that start within the tolerance.
THEOREM TurnsSeparated == Spec => []Separated
<1>1. IInv => Separated
  BY DEF IInv
<1>. QED
  BY InductiveInvariant, <1>1, PTL

\* After a call the list is ordered and represents the whole snapshot.
THEOREM SnapshotIsRepresented == Spec => []SnapshotRepresented
<1>1. IInv => SnapshotRepresented
  <2> SUFFICES ASSUME IInv, Idle
               PROVE  Ordered(turns) /\ \A k \in DOMAIN told : Represented(told[k], turns)
    BY DEF SnapshotRepresented
  <2>1. Visited = Len(told) /\ DOMAIN told = 1 .. Len(told)
    BY DEF IInv, TypeOK, Idle, Visited
  <2>. QED
    BY <2>1 DEF IInv, LoopInv
<1>. QED
  BY InductiveInvariant, <1>1, PTL

\* update_turns forgets no turn, shortens none and unlabels none.
THEOREM NothingIsForgotten == Spec => NothingForgotten
<1>1. IInv /\ [Next]_vars => [\A i \in DOMAIN turns : Survives(turns[i], turns')]_vars
  BY StepInv
<1>. QED
  BY InductiveInvariant, <1>1, PTL DEF Spec, NothingForgotten

\* A restatement with the original start refines its own entry only.
THEOREM RestatementIsExact == Spec => RestatementHitsItsOwn
<1> DEFINE Exact == \A i \in DOMAIN turns :
                      ~ Idle /\ turns[i].start = Head(pending).start => OthersUntouched(i)
<1>1. ASSUME IInv, Next
      PROVE  Exact
  <2> SUFFICES ASSUME NEW i \in DOMAIN turns, ~ Idle,
                      turns[i].start = Head(pending).start
               PROVE  OthersUntouched(i)
    OBVIOUS
  <2>1. /\ turns \in Seq(Turn) /\ Head(pending) \in Turn /\ turns[i] \in Turn
        /\ Apart(turns)
    BY <1>1, ElementOfSeq DEF IInv, TypeOK, Separated, Idle
  <2>2. Near(turns[i], Head(pending))
    BY <2>1, TurnsAssumption DEF Near, Turn
  <2>3. PICK m \in DOMAIN turns : RefineTurn(m)
    BY <1>1, <2>2 DEF Next, BeginUpdate, AppendTurn, HasMatch
  <2>4. Near(turns[m], Head(pending))
    BY <2>3 DEF RefineTurn, FirstMatch
  <2>5. m = i
    <3>1. Near(turns[m], turns[i])
      BY <2>4 DEF Near
    <3>. QED
      BY <3>1, <2>1 DEF Apart
  <2> DEFINE ts == [turns EXCEPT ![i] = Restated(@, Head(pending))]
  <2>6. EndIteration(ts) /\ ts \in Seq(Turn) /\ DOMAIN ts = DOMAIN turns
    BY <2>1, <2>3, <2>5, RefineApart DEF RefineTurn
  <2>7. \A j \in DOMAIN turns \ {i} : ts[j] = turns[j]
    OBVIOUS
  <2> HIDE DEF ts
  <2>8. \A j \in DOMAIN ts : \E k \in DOMAIN turns' : turns'[k] = ts[j]
    BY <2>6, EndIterationFacts, RearrangedFacts
  <2>. QED
    BY <2>6, <2>7, <2>8 DEF OthersUntouched
<1>2. IInv /\ [Next]_vars => [Exact]_vars
  BY <1>1
<1>. QED
  BY InductiveInvariant, <1>2, PTL DEF Spec, RestatementHitsItsOwn
=============================================================================
