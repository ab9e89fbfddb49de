----------------------------- MODULE DriverProofs -----------------------------
(***************************************************************************)
(* Proofs about the driver, for every set of programs and every number of  *)
(* labels: the types, the label numbers, what an assembled program is, and *)
(* that the outcome does not depend on the schedule.                       *)
(***************************************************************************)
EXTENDS Driver, FunctionTheorems, FiniteSetTheorems, WellFoundedInduction, SequenceTheorems,
        TLAPS

-----------------------------------------------------------------------------
(* The label lock.                                                         *)

\* Only the worker that holds the lock is between g.Lock() and g.Unlock(), and
\* only its newest label can still be the next one to be given.
LockInv ==
    /\ \A i \in Indices : i >= line => workerPc[i] = "absent"
    /\ \A i \in Indices : workerPc[i] \in {"locked", "taken"} <=> mutex = i
    /\ \A i \in Indices : \A k \in DOMAIN labels[i] :
          /\ labels[i][k] <= availableId
          /\ labels[i][k] = availableId => /\ workerPc[i] = "taken"
                                           /\ k = Len(labels[i])

LInv == TypeOK /\ LockInv /\ UniqueLabels

\* The length of a program is a number.
LEMMA LengthIsNat == ASSUME TypeOK PROVE Len(source) \in Nat
BY SourcesAssumption DEF TypeOK

\* The invariant holds initially.
LEMMA LInvInit == Init => LInv
<1>1. SUFFICES ASSUME Init PROVE LInv
  OBVIOUS
<1>2. Len(source) \in Nat
  BY <1>1, SourcesAssumption DEF Init
<1>3. TypeOK
  <2>1. <<>> \in Seq(Indices) /\ Len(<<>>) = 0
    OBVIOUS
  <2>2. workerPc \in [Indices -> WorkerPcs] /\ labels \in [Indices -> Seq(Nat)]
    BY <1>1 DEF Init, WorkerPcs
  <2>3. source \in Sources /\ line \in 1 .. Len(source) + 1 /\ mutex \in Indices \cup {0}
    BY <1>1, <1>2 DEF Init
  <2>4. current \in 1 .. Len(workOrders) + 1 /\ mainPc = "parse"
    BY <1>1, <2>1 DEF Init
  <2> QED BY <1>1, <2>1, <2>2, <2>3, <2>4 DEF Init, TypeOK, Statuses
<1>4. LockInv /\ UniqueLabels
  BY <1>1, <1>2 DEF Init, LockInv, UniqueLabels, Indices
<1> QED BY <1>3, <1>4 DEF LInv

\* An element of a sequence, by its place.
LEMMA ElementOf ==
    ASSUME NEW S, NEW s \in Seq(S), NEW i \in 1 .. Len(s)
    PROVE  s[i] \in S
OBVIOUS

\* The work order that the loop is at.
LEMMA OrderType ==
    ASSUME TypeOK, current <= Len(workOrders)
    PROVE  order \in Indices
<1>1. workOrders \in Seq(Indices) /\ current \in 1 .. Len(workOrders) + 1
  BY DEF TypeOK
<1>2. Len(workOrders) \in Nat
  BY <1>1, LenProperties
<1>3. current \in 1 .. Len(workOrders)
  BY <1>1, <1>2
<1> QED BY <1>1, <1>3, ElementOf DEF order

\* Types survive every step.
LEMMA TypeStep == ASSUME TypeOK, [Next]_vars PROVE TypeOK'
<1>1. Len(source) \in Nat
  BY LengthIsNat
<1> USE <1>1 DEF TypeOK, Indices, Statuses, WorkerPcs, mainVars, labelVars
<1>2. CASE ParseBadLine
  BY <1>2 DEF ParseBadLine
<1>3. CASE ParseItem
  <2>1. line \in Indices /\ line' \in 1 .. Len(source) + 1
    BY <1>3 DEF ParseItem
  <2>2. /\ workOrders' \in Seq(Indices)
        /\ current \in 1 .. Len(workOrders') + 1
        /\ mainPc = "check" => current <= Len(workOrders')
    <3>1. workOrders' \in {workOrders, Append(workOrders, line)}
      BY <1>3 DEF ParseItem
    <3>2. /\ Append(workOrders, line) \in Seq(Indices)
          /\ Len(Append(workOrders, line)) = Len(workOrders) + 1
      BY <2>1
    <3>3. workOrders' \in Seq(Indices) /\ Len(workOrders') \in {Len(workOrders), Len(workOrders) + 1}
      BY <3>1, <3>2
    <3>4. Len(workOrders) \in Nat /\ current \in 1 .. Len(workOrders) + 1
      OBVIOUS
    <3> QED BY <3>3, <3>4
  <2>3. workerPc' \in [Indices -> WorkerPcs]
    BY <1>3 DEF ParseItem
  <2> QED BY <1>3, <2>1, <2>2, <2>3 DEF ParseItem
<1>4. CASE EndParsing
  BY <1>4 DEF EndParsing
<1>5. CASE EmitExtern
  <2>1. order \in Indices
    BY <1>5, OrderType DEF EmitExtern, AtOrder
  <2>2. output' \in Seq(Indices)
    BY <1>5, <2>1 DEF EmitExtern
  <2> QED BY <1>5, <2>2 DEF EmitExtern, AtOrder
<1>6. CASE ReceiveUserError
  <2>1. order \in Indices
    BY <1>6, OrderType DEF ReceiveUserError, AtOrder
  <2>2. displayed' \in Seq(Indices)
    BY <1>6, <2>1 DEF ReceiveUserError
  <2>3. workerPc' \in [Indices -> WorkerPcs]
    BY <1>6 DEF ReceiveUserError
  <2> QED BY <1>6, <2>2, <2>3 DEF ReceiveUserError, AtOrder
<1>7. CASE ReceiveOut
  BY <1>7 DEF ReceiveOut, AtOrder, order
<1>8. CASE CheckAndGenerate
  <2>1. order \in Indices
    BY <1>8, OrderType DEF CheckAndGenerate
  <2>2. Append(output, order) \in Seq(Indices) /\ Append(displayed, order) \in Seq(Indices)
    BY <2>1
  <2>3. output' \in Seq(Indices) /\ displayed' \in Seq(Indices)
    BY <1>8, <2>2 DEF CheckAndGenerate
  <2>4. status' \in Statuses
    BY <1>8 DEF CheckAndGenerate
  <2>5. /\ current' \in 1 .. Len(workOrders) + 1 /\ mainPc' \in {"select", "check"}
        /\ mainPc' = "check" => current' <= Len(workOrders)
    BY <1>8 DEF CheckAndGenerate
  <2> QED BY <1>8, <2>3, <2>4, <2>5 DEF CheckAndGenerate
<1>9. CASE Finish
  BY <1>9 DEF Finish
<1>10. CASE \E i \in Indices : Worker(i)
  <2>1. PICK i \in Indices : Worker(i)
    BY <1>10
  <2>2. CASE LockLabels(i)
    BY <2>2 DEF LockLabels
  <2>3. CASE TakeLabel(i)
    <3>1. labels' \in [Indices -> Seq(Nat)]
      <4>1. labels[i] \in Seq(Nat) /\ availableId \in Nat
        BY <2>1
      <4>2. Append(labels[i], availableId) \in Seq(Nat)
        BY <4>1
      <4> QED BY <2>3, <4>2 DEF TakeLabel
    <3>2. workerPc' \in [Indices -> WorkerPcs]
      BY <2>3 DEF TakeLabel
    <3> QED BY <2>3, <3>1, <3>2 DEF TakeLabel
  <2>4. CASE UnlockLabels(i)
    BY <2>4 DEF UnlockLabels
  <2>5. CASE EndGeneration(i)
    BY <2>5 DEF EndGeneration
  <2> QED BY <2>1, <2>2, <2>3, <2>4, <2>5 DEF Worker
<1>11. CASE UNCHANGED vars
  BY <1>11 DEF vars
<1> QED
  BY <1>2, <1>3, <1>4, <1>5, <1>6, <1>7, <1>8, <1>9, <1>10, <1>11 DEF Next, Main

\* What the lock is for: the labels stay distinct over the three steps of
\* GenLabel, and no other step gives labels.
LEMMA LockStep == ASSUME LInv, [Next]_vars PROVE (LockInv /\ UniqueLabels)'
<1>1. TypeOK /\ LockInv /\ UniqueLabels /\ Len(source) \in Nat
  BY LengthIsNat DEF LInv
<1>2. ASSUME UNCHANGED <<source, labels, availableId, mutex>>,
             \A j \in Indices :
                /\ workerPc'[j] \in {"locked", "taken"} <=> workerPc[j] \in {"locked", "taken"}
                /\ workerPc[j] = "taken" => workerPc'[j] = "taken"
                /\ j >= line' => workerPc'[j] = "absent"
      PROVE  (LockInv /\ UniqueLabels)'
  BY <1>1, <1>2 DEF LockInv, UniqueLabels, Indices
<1>3. line \in Nat
  BY <1>1 DEF TypeOK
<1>4. CASE ParseBadLine
  <2>1. \A j \in Indices : j >= line' => workerPc'[j] = "absent"
    <3>1. line' = line + 1 /\ workerPc' = workerPc
      BY <1>4 DEF ParseBadLine
    <3>2. \A j \in Indices : j \in Nat /\ (j >= line' => j >= line)
      <4>1. \A j \in 1 .. Len(source) : j \in Nat
        BY <1>1
      <4> QED BY <1>3, <3>1, <4>1 DEF Indices
    <3> QED BY <1>1, <3>1, <3>2 DEF LockInv
  <2> QED BY <1>2, <1>4, <2>1 DEF ParseBadLine, labelVars
<1>5. CASE ParseItem
  <2>1. line \in Indices /\ workerPc[line] = "absent" /\ line' = line + 1
    <3>1. line \in 1 .. Len(source) /\ line' = line + 1
      BY <1>1, <1>5 DEF ParseItem, TypeOK
    <3>2. line \in Indices /\ line >= line
      BY <1>3, <3>1 DEF Indices
    <3> QED BY <1>1, <3>1, <3>2 DEF LockInv
  <2>2. workerPc' = workerPc \/ workerPc' = [workerPc EXCEPT ![line] = "generate"]
    BY <1>5 DEF ParseItem
  <2>3. \A j \in Indices : /\ workerPc'[j] \in {workerPc[j], "generate"}
                           /\ j # line => workerPc'[j] = workerPc[j]
    BY <1>1, <2>2 DEF TypeOK
  <2>4. \A j \in Indices : j >= line' => workerPc'[j] = "absent"
    <3>1. \A j \in Indices : j \in Nat /\ (j >= line' => j >= line /\ j # line)
      <4>1. \A j \in 1 .. Len(source) : j \in Nat
        BY <1>1
      <4> QED BY <1>3, <2>1, <4>1 DEF Indices
    <3> QED BY <1>1, <2>3, <3>1 DEF LockInv
  <2>5. \A j \in Indices : \/ workerPc'[j] = workerPc[j]
                           \/ workerPc[j] = "absent" /\ workerPc'[j] = "generate"
    BY <2>1, <2>3
  <2> QED BY <1>2, <1>5, <2>4, <2>5 DEF ParseItem, labelVars
<1>6. CASE EndParsing \/ EmitExtern \/ CheckAndGenerate \/ Finish \/ UNCHANGED vars
  <2>1. UNCHANGED <<source, labels, availableId, mutex, workerPc, line>>
    BY <1>6 DEF EndParsing, EmitExtern, CheckAndGenerate, Finish, mainVars, labelVars, vars
  <2> QED BY <1>1, <2>1 DEF LockInv, UniqueLabels, Indices
<1>7. CASE ReceiveUserError \/ ReceiveOut
  <2>1. /\ workerPc[order] \in {"sendError", "sendOut"}
        /\ workerPc' = [workerPc EXCEPT ![order] = "done"]
        /\ UNCHANGED <<source, labels, availableId, mutex, line>>
    BY <1>7 DEF ReceiveUserError, ReceiveOut, labelVars
  <2>2. \A j \in Indices : \/ workerPc'[j] = workerPc[j]
                           \/ workerPc[j] \in {"sendError", "sendOut"} /\ workerPc'[j] = "done"
    BY <1>1, <2>1 DEF TypeOK
  <2>3. \A j \in Indices : j >= line => workerPc'[j] = "absent"
    BY <1>1, <2>2 DEF LockInv
  <2> QED BY <1>2, <2>1, <2>2, <2>3
<1>8. ASSUME NEW i \in Indices, LockLabels(i)
      PROVE  (LockInv /\ UniqueLabels)'
  <2>1. /\ mutex = 0 /\ mutex' = i /\ workerPc[i] = "generate"
        /\ workerPc' = [workerPc EXCEPT ![i] = "locked"]
        /\ UNCHANGED <<source, labels, availableId, line>>
    BY <1>8 DEF LockLabels, At, mainVars
  <2>2. \A j \in Indices : j # 0 /\ workerPc[j] \notin {"locked", "taken"}
    BY <1>1, <2>1 DEF LockInv, Indices
  <2>3. \A j \in Indices : workerPc'[j] = IF j = i THEN "locked" ELSE workerPc[j]
    BY <1>1, <2>1 DEF TypeOK
  <2> QED BY <1>1, <2>1, <2>2, <2>3 DEF LockInv, UniqueLabels, Indices
<1>9. ASSUME NEW i \in Indices, TakeLabel(i)
      PROVE  (LockInv /\ UniqueLabels)'
  <2>1. /\ workerPc[i] = "locked" /\ workerPc' = [workerPc EXCEPT ![i] = "taken"]
        /\ labels' = [labels EXCEPT ![i] = Append(@, availableId)]
        /\ UNCHANGED <<source, mutex, availableId, line>>
    BY <1>9 DEF TakeLabel, At, mainVars
  <2>2. mutex = i /\ \A j \in Indices : workerPc[j] = "taken" => j = i
    BY <1>1, <1>9, <2>1 DEF LockInv
  <2>3. \A j \in Indices : workerPc'[j] = IF j = i THEN "taken" ELSE workerPc[j]
    BY <1>1, <2>1 DEF TypeOK
  <2>4. \A j \in Indices : \A k \in DOMAIN labels[j] :
            labels[j][k] \in Nat /\ labels[j][k] < availableId
    <3>1. availableId \in Nat /\ \A j \in Indices : labels[j] \in Seq(Nat)
      BY <1>1 DEF TypeOK
    <3>2. \A j \in Indices : workerPc[j] # "taken"
      BY <2>1, <2>2
    <3> QED BY <1>1, <3>1, <3>2 DEF LockInv
  <2>5. /\ labels[i] \in Seq(Nat) /\ availableId \in Nat
        /\ \A j \in Indices : j # i => labels'[j] = labels[j]
        /\ labels'[i] = Append(labels[i], availableId)
    BY <1>1, <2>1 DEF TypeOK
  <2>6. /\ Len(labels'[i]) = Len(labels[i]) + 1 /\ Len(labels[i]) \in Nat
        /\ DOMAIN labels'[i] = DOMAIN labels[i] \cup {Len(labels[i]) + 1}
        /\ \A k \in DOMAIN labels[i] : labels'[i][k] = labels[i][k]
        /\ labels'[i][Len(labels[i]) + 1] = availableId
    BY <2>5
  <2>7. UniqueLabels'
    <3>1. \A k \in DOMAIN labels'[i] :
             \/ k \in DOMAIN labels[i] /\ labels'[i][k] = labels[i][k]
             \/ k = Len(labels[i]) + 1 /\ labels'[i][k] = availableId
      BY <2>6
    <3> QED BY <1>1, <2>1, <2>4, <2>5, <3>1 DEF UniqueLabels, Indices
  <2>8. \A j \in Indices : \A k \in DOMAIN labels'[j] :
          /\ labels'[j][k] <= availableId
          /\ labels'[j][k] = availableId => j = i /\ k = Len(labels'[i])
    <3>1. \A n \in Nat : n < availableId => n <= availableId /\ n # availableId
      BY <2>5
    <3>2. ASSUME NEW j \in Indices, j # i, NEW k \in DOMAIN labels'[j]
          PROVE  labels'[j][k] <= availableId /\ labels'[j][k] # availableId
      BY <2>4, <2>5, <3>1, <3>2
    <3>3. ASSUME NEW k \in DOMAIN labels[i]
          PROVE  labels'[i][k] <= availableId /\ labels'[i][k] # availableId
      BY <2>4, <2>6, <3>1, <3>3
    <3>4. \A k \in DOMAIN labels'[i] :
             /\ labels'[i][k] <= availableId
             /\ labels'[i][k] = availableId => k = Len(labels'[i])
      BY <2>5, <2>6, <3>3
    <3> QED BY <3>2, <3>4
  <2>9. \A j \in Indices : j >= line => workerPc'[j] = "absent"
    BY <1>1, <2>1, <2>3 DEF LockInv
  <2> QED BY <1>1, <2>1, <2>2, <2>3, <2>7, <2>8, <2>9 DEF LockInv, Indices
<1>10. ASSUME NEW i \in Indices, UnlockLabels(i)
       PROVE  (LockInv /\ UniqueLabels)'
  <2>1. /\ workerPc[i] = "taken" /\ workerPc' = [workerPc EXCEPT ![i] = "generate"]
        /\ availableId' = availableId + 1 /\ mutex' = 0
        /\ UNCHANGED <<source, labels, line>>
    BY <1>10 DEF UnlockLabels, At, mainVars
  <2>2. mutex = i /\ \A j \in Indices : j # 0 /\ (workerPc[j] \in {"locked", "taken"} => j = i)
    BY <1>1, <1>10, <2>1 DEF LockInv, Indices
  <2>3. \A j \in Indices : workerPc'[j] = IF j = i THEN "generate" ELSE workerPc[j]
    BY <1>1, <2>1 DEF TypeOK
  <2>4. \A j \in Indices : \A k \in DOMAIN labels[j] :
            labels[j][k] <= availableId' /\ labels[j][k] # availableId'
    <3>1. availableId \in Nat /\ \A j \in Indices : \A k \in DOMAIN labels[j] : labels[j][k] \in Nat
      BY <1>1 DEF TypeOK
    <3> QED BY <1>1, <2>1, <3>1 DEF LockInv
  <2> QED BY <1>1, <2>1, <2>2, <2>3, <2>4 DEF LockInv, UniqueLabels, Indices
<1>11. ASSUME NEW i \in Indices, EndGeneration(i)
       PROVE  (LockInv /\ UniqueLabels)'
  <2>1. /\ workerPc[i] = "generate"
        /\ \/ workerPc' = workerPc
           \/ workerPc' = [workerPc EXCEPT ![i] = "sendOut"]
           \/ workerPc' = [workerPc EXCEPT ![i] = "sendError"]
        /\ UNCHANGED <<source, labels, availableId, mutex, line>>
    BY <1>11 DEF EndGeneration, At, mainVars, labelVars
  <2>2. \A j \in Indices :
           \/ workerPc'[j] = workerPc[j]
           \/ workerPc[j] = "generate" /\ workerPc'[j] \in {"sendOut", "sendError"}
    BY <1>1, <2>1 DEF TypeOK
  <2>3. \A j \in Indices : j >= line => workerPc'[j] = "absent"
    BY <1>1, <2>2 DEF LockInv
  <2> QED BY <1>2, <2>1, <2>2, <2>3
<1> QED
  BY <1>4, <1>5, <1>6, <1>7, <1>8, <1>9, <1>10, <1>11 DEF Next, Main, Worker

\* The inductive invariant of the label lock.
LEMMA LockInvariance == Spec => []LInv
<1>1. LInv /\ [Next]_vars => LInv'
  BY TypeStep, LockStep DEF LInv
<1> QED BY LInvInit, <1>1, PTL DEF Spec

\* Every variable of the driver keeps its type.
THEOREM DriverTypes == Spec => []TypeOK
BY LockInvariance, PTL DEF LInv

\* However the workers are scheduled, GenLabel never gives a number twice.
THEOREM LabelsAlwaysUnique == Spec => []UniqueLabels
BY LockInvariance, PTL DEF LInv

-----------------------------------------------------------------------------
(* What an assembled program is.                                           *)

UpTo(n) == [i \in 1 .. n |-> i]

\* Main took the procedure from its worker and found nothing wrong.
Received(i) == /\ IsProc(i) /\ source[i].gen = "ok"
               /\ workerPc[i] = "done" /\ Len(labels[i]) = Labels
Handled(i) == /\ source[i].kind \in {"proc", "foreign"}
              /\ IsProc(i) => Received(i) /\ source[i] = Proc("ok", "ok")

\* While nothing is wrong, the work orders are the items read so far.
Parsing ==
    /\ ~ parseFailed => \A i \in Indices : i < line => source[i].kind # "badLine"
    /\ ~ parseFailed /\ (\A i \in Indices : i < line => source[i].kind # "badType")
          => workOrders = UpTo(line - 1)
    /\ mainPc = "parse" => /\ current = 1 /\ output = <<>> /\ status # "assembled"
                           /\ ~ parseFailed => displayed = <<>>
    /\ mainPc # "parse" => /\ line = Len(source) + 1 /\ ~ parseFailed
                           /\ \A i \in Indices : source[i].kind # "badType"

\* A worker sends IR only when it came through, after the end of its labels.
Sending ==
    \A i \in Indices :
        /\ workerPc[i] # "absent" => IsProc(i)
        /\ workerPc[i] = "sendOut" => source[i].gen = "ok" /\ Len(labels[i]) = Labels

\* While no error was seen, everything before the current work order is fine.
Emitting ==
    /\ mainPc = "check" => Received(current)
    /\ mainPc # "parse" /\ ~ sawError /\ status \in {"running", "assembled"} =>
          /\ output = UpTo(current - 1) /\ displayed = <<>>
          /\ \A i \in Indices : i < current => Handled(i)
    /\ status = "assembled" => ~ sawError /\ current > Len(workOrders)

EInv == TypeOK /\ Parsing /\ Sending /\ Emitting

\* The counting sequence.
LEMMA UpToFacts ==
    ASSUME NEW n \in Nat
    PROVE  /\ Len(UpTo(n)) = n
           /\ Append(UpTo(n), n + 1) = UpTo(n + 1)
           /\ UpTo(0) = <<>>
           /\ \A i \in 1 .. n : UpTo(n)[i] = i
<1>1. UpTo(n) \in Seq(Nat) /\ Len(UpTo(n)) = n
  BY DEF UpTo
<1>2. UpTo(0) = <<>>
  BY DEF UpTo
<1>3. Append(UpTo(n), n + 1) = UpTo(n + 1)
  <2>1. Append(UpTo(n), n + 1) \in Seq(Nat) /\ UpTo(n + 1) \in Seq(Nat)
    BY <1>1 DEF UpTo
  <2>2. Len(Append(UpTo(n), n + 1)) = n + 1 /\ Len(UpTo(n + 1)) = n + 1
    BY <1>1 DEF UpTo
  <2>3. \A i \in 1 .. n + 1 : Append(UpTo(n), n + 1)[i] = UpTo(n + 1)[i]
    BY <1>1 DEF UpTo
  <2> QED BY <1>1, <2>1, <2>2, <2>3, SeqEqual
<1> QED BY <1>1, <1>2, <1>3 DEF UpTo

\* One more item.
LEMMA UpToNext ==
    ASSUME NEW n \in Nat \ {0}
    PROVE  Append(UpTo(n - 1), n) = UpTo((n + 1) - 1)
<1>1. n - 1 \in Nat /\ (n - 1) + 1 = n /\ (n + 1) - 1 = n
  OBVIOUS
<1> QED BY <1>1, UpToFacts

\* Behind the parser the work orders are the items, so main is at its current one.
LEMMA OrdersAreItems ==
    ASSUME EInv, mainPc # "parse"
    PROVE  /\ Len(source) \in Nat /\ Len(workOrders) = Len(source)
           /\ current \in Nat \ {0}
           /\ current <= Len(workOrders) => order = current /\ current \in Indices
           /\ \A i \in Indices : source[i].kind \in {"proc", "foreign"}
<1>1. Len(source) \in Nat /\ source \in Seq(Items)
  BY LengthIsNat, SourcesAssumption DEF EInv, TypeOK
<1>2. \A i \in Indices : i < line
  BY <1>1 DEF EInv, Parsing, Indices
<1>3. workOrders = UpTo(Len(source))
  BY <1>1, <1>2 DEF EInv, Parsing
<1>4. Len(workOrders) = Len(source) /\ \A i \in Indices : workOrders[i] = i
  BY <1>1, <1>3, UpToFacts DEF Indices
<1>5. current \in Nat \ {0} /\ (current <= Len(workOrders) => current \in Indices)
  BY <1>1, <1>4 DEF EInv, TypeOK, Indices
<1>6. \A i \in Indices : source[i].kind \in {"proc", "foreign"}
  <2>1. \A i \in Indices : source[i] \in Items
    BY <1>1 DEF Indices
  <2>2. \A i \in Indices : source[i].kind \in {"proc", "foreign", "badLine", "badType"}
    BY <2>1 DEF Items
  <2> QED BY <1>2, <2>2 DEF EInv, Parsing
<1> QED BY <1>1, <1>4, <1>5, <1>6 DEF order

\* Initially nothing was read.
LEMMA EInvInit == Init => EInv
<1>1. SUFFICES ASSUME Init PROVE EInv
  OBVIOUS
<1>2. TypeOK
  BY <1>1, LInvInit DEF LInv
<1>3. Parsing
  <2>1. workOrders = UpTo(line - 1)
    BY <1>1, UpToFacts DEF Init
  <2>2. \A i \in Indices : ~ (i < line)
    BY <1>1, <1>2, LengthIsNat DEF Init, Indices
  <2> QED BY <1>1, <2>1, <2>2 DEF Init, Parsing
<1>4. Sending
  <2>1. \A i \in Indices : workerPc[i] = "absent"
    BY <1>1 DEF Init
  <2> QED BY <2>1 DEF Sending
<1>5. mainPc = "parse" /\ status = "running"
  BY <1>1 DEF Init
<1>6. Emitting
  BY <1>5 DEF Emitting
<1> QED BY <1>2, <1>3, <1>4, <1>6 DEF EInv

\* A step of a worker leaves the main goroutine and the procedures that were
\* received alone.
LEMMA WorkerFrame ==
    ASSUME TypeOK, Sending, NEW i \in Indices, Worker(i)
    PROVE  /\ UNCHANGED <<source, mainVars>>
           /\ status' \in {status, "crashed"}
           /\ Sending'
           /\ \A j \in Indices : Received(j) => Received(j)'
           /\ \A j \in Indices : Handled(j) => Handled(j)'
<1>1. /\ UNCHANGED <<source, mainVars>> /\ status' \in {status, "crashed"}
  BY DEF Worker, LockLabels, TakeLabel, UnlockLabels, EndGeneration
<1>2. Indices' = Indices /\ \A j : IsProc(j)' = IsProc(j)
  BY <1>1 DEF Indices, IsProc
<1>3. /\ workerPc[i] \in {"generate", "locked", "taken"} /\ workerPc'[i] # "done"
      /\ workerPc'[i] = "sendOut" => source[i].gen = "ok" /\ Len(labels'[i]) = Labels
  <2>1. CASE LockLabels(i)
    BY <2>1 DEF LockLabels, At, TypeOK
  <2>2. CASE TakeLabel(i)
    BY <2>2 DEF TakeLabel, At, TypeOK
  <2>3. CASE UnlockLabels(i)
    BY <2>3 DEF UnlockLabels, At, TypeOK
  <2>4. CASE EndGeneration(i)
    BY <2>4 DEF EndGeneration, At, TypeOK, labelVars
  <2> QED BY <2>1, <2>2, <2>3, <2>4 DEF Worker
<1>4. \A j \in Indices : j # i => workerPc'[j] = workerPc[j] /\ labels'[j] = labels[j]
  BY DEF Worker, LockLabels, TakeLabel, UnlockLabels, EndGeneration, TypeOK, labelVars
<1>5. Sending'
  <2>1. IsProc(i)
    BY <1>3 DEF Sending
  <2>2. \A j \in Indices : /\ workerPc'[j] # "absent" => IsProc(j)
                           /\ workerPc'[j] = "sendOut" => source[j].gen = "ok" /\ Len(labels'[j]) = Labels
    BY <1>3, <1>4, <2>1 DEF Sending
  <2> QED BY <1>1, <1>2, <2>2 DEF Sending
<1>6. \A j \in Indices : Received(j) => Received(j)'
  <2>1. ASSUME NEW j \in Indices, Received(j) PROVE Received(j)'
    <3>1. j # i
      BY <1>3, <2>1 DEF Received
    <3> QED BY <1>1, <1>2, <1>4, <2>1, <3>1 DEF Received
  <2> QED BY <2>1
<1>7. \A j \in Indices : Handled(j) => Handled(j)'
  BY <1>1, <1>2, <1>6 DEF Handled
<1> QED BY <1>1, <1>5, <1>6, <1>7

\* Each step keeps the work orders in step with the source.
LEMMA ParsingStep == ASSUME EInv, [Next]_vars PROVE Parsing'
<1>1. TypeOK /\ Parsing /\ Sending /\ Len(source) \in Nat /\ line \in 1 .. Len(source) + 1
  BY LengthIsNat DEF EInv, TypeOK
<1>2. ASSUME UNCHANGED <<source, line, parseFailed, workOrders>>, mainPc # "parse", mainPc' # "parse"
      PROVE  Parsing'
  BY <1>1, <1>2 DEF Parsing, Indices
<1>3. CASE ParseBadLine
  BY <1>1, <1>3 DEF ParseBadLine, Parsing, Indices
<1>4. CASE ParseItem
  <2>1. /\ line \in 1 .. Len(source) /\ line' = line + 1 /\ source[line].kind # "badLine"
        /\ mainPc = "parse" /\ UNCHANGED <<source, parseFailed, mainPc, current, output, status, displayed>>
        /\ parseFailed \/ source[line].kind = "badType" => workOrders' = workOrders
        /\ ~ parseFailed /\ source[line].kind # "badType" => workOrders' = Append(workOrders, line)
    BY <1>1, <1>4 DEF ParseItem
  <2>2. \A i \in Indices : i < line' <=> i < line \/ i = line
    BY <1>1, <2>1 DEF Indices
  <2>3. ~ parseFailed => \A i \in Indices : i < line' => source[i].kind # "badLine"
    BY <1>1, <2>1, <2>2 DEF Parsing
  <2>4. ASSUME ~ parseFailed, \A i \in Indices : i < line' => source[i].kind # "badType"
        PROVE  workOrders' = UpTo(line' - 1)
    <3>1. line \in Indices /\ line < line'
      BY <2>1, <1>1 DEF Indices
    <3>2. workOrders = UpTo(line - 1)
      BY <1>1, <2>2, <2>4 DEF Parsing
    <3>3. workOrders' = Append(UpTo(line - 1), line)
      BY <2>1, <2>4, <3>1, <3>2
    <3>4. line - 1 \in Nat /\ (line - 1) + 1 = line /\ line' - 1 = line
      BY <2>1, <1>1
    <3> QED BY <3>3, <3>4, UpToFacts
  <2> QED BY <1>1, <2>1, <2>3, <2>4 DEF Parsing, Indices
<1>5. CASE EndParsing
  BY <1>1, <1>5 DEF EndParsing, Parsing, Indices
<1>6. CASE EmitExtern \/ ReceiveUserError \/ ReceiveOut \/ CheckAndGenerate \/ Finish
  BY <1>1, <1>2, <1>6 DEF EmitExtern, ReceiveUserError, ReceiveOut, CheckAndGenerate, Finish, AtOrder, mainVars
<1>7. ASSUME NEW i \in Indices, Worker(i) PROVE Parsing'
  BY <1>1, <1>7, WorkerFrame DEF Parsing, Indices, mainVars
<1>8. CASE UNCHANGED vars
  BY <1>1, <1>8 DEF Parsing, Indices, vars, mainVars
<1> QED BY <1>3, <1>4, <1>5, <1>6, <1>7, <1>8 DEF Next, Main

\* Each step keeps what a worker that sends IR stands for.
LEMMA SendingStep == ASSUME EInv, [Next]_vars PROVE Sending'
<1>1. TypeOK /\ Sending /\ Len(source) \in Nat
  BY LengthIsNat DEF EInv
<1>2. ASSUME UNCHANGED <<source, labels>>,
             \A i \in Indices : \/ workerPc'[i] = workerPc[i]
                                \/ IsProc(i) /\ workerPc'[i] \in {"generate", "done"}
      PROVE  Sending'
  BY <1>1, <1>2 DEF Sending, Indices, IsProc
<1>3. CASE ParseBadLine \/ EndParsing \/ EmitExtern \/ CheckAndGenerate \/ Finish \/ UNCHANGED vars
  BY <1>2, <1>3 DEF ParseBadLine, EndParsing, EmitExtern, CheckAndGenerate, Finish, vars, labelVars
<1>4. CASE ParseItem
  <2>1. \/ workerPc' = workerPc
        \/ IsProc(line) /\ workerPc' = [workerPc EXCEPT ![line] = "generate"]
    BY <1>4 DEF ParseItem
  <2>2. \A i \in Indices : \/ workerPc'[i] = workerPc[i]
                           \/ IsProc(i) /\ workerPc'[i] = "generate"
    BY <1>1, <2>1 DEF TypeOK
  <2> QED BY <1>2, <1>4, <2>2 DEF ParseItem, labelVars
<1>5. CASE ReceiveUserError \/ ReceiveOut
  <2>1. /\ workerPc[order] \in {"sendError", "sendOut"} /\ UNCHANGED <<source, labels>>
        /\ workerPc' = [workerPc EXCEPT ![order] = "done"]
    BY <1>5 DEF ReceiveUserError, ReceiveOut, labelVars
  <2>2. \A i \in Indices : \/ workerPc'[i] = workerPc[i]
                           \/ IsProc(i) /\ workerPc'[i] = "done"
    BY <1>1, <2>1 DEF TypeOK, Sending
  <2> QED BY <1>2, <2>1, <2>2
<1>6. ASSUME NEW i \in Indices, Worker(i) PROVE Sending'
  BY <1>1, <1>6, WorkerFrame
<1> QED BY <1>3, <1>4, <1>5, <1>6 DEF Next, Main

\* Each step that emits something, emits the next item.
LEMMA EmittingStep == ASSUME EInv, [Next]_vars PROVE Emitting'
<1>1. TypeOK /\ Parsing /\ Sending /\ Emitting /\ Len(source) \in Nat
  BY LengthIsNat DEF EInv
<1>2. ASSUME mainPc # "parse"
      PROVE  /\ Len(workOrders) = Len(source)
             /\ current \in Nat \ {0}
             /\ current <= Len(workOrders) => order = current /\ current \in Indices
             /\ \A i \in Indices : source[i].kind \in {"proc", "foreign"}
  BY <1>2, OrdersAreItems
<1>3. CASE ParseBadLine \/ ParseItem
  BY <1>1, <1>3 DEF ParseBadLine, ParseItem, Emitting, Parsing
<1>4. CASE EndParsing
  <2>1. /\ mainPc = "parse" /\ current = 1 /\ output = <<>> /\ status = "running"
        /\ ~ parseFailed => displayed = <<>>
    BY <1>1, <1>4 DEF EndParsing, Running, Parsing
  <2>2. /\ UNCHANGED <<source, current, output, displayed, workerPc, labels>>
        /\ \/ mainPc' = "parse" /\ status' \in {"exit1", "crashed"}
           \/ mainPc' = "select" /\ status' = "running" /\ ~ parseFailed
    BY <1>1, <1>4, <2>1 DEF EndParsing, labelVars
  <2>3. UpTo(current' - 1) = <<>>
    BY <2>1, <2>2, UpToFacts
  <2>4. \A i \in Indices' : ~ (i < current')
    BY <1>1, <2>1, <2>2 DEF Indices
  <2> QED BY <2>1, <2>2, <2>3, <2>4 DEF Emitting
<1>5. CASE EmitExtern
  <2>1. /\ mainPc = "select" /\ status = "running" /\ order = current /\ current \in Indices
        /\ current \in Nat \ {0} /\ ~ IsProc(current) /\ source[current].kind \in {"proc", "foreign"}
    BY <1>2, <1>5 DEF EmitExtern, AtOrder, Running
  <2>2. /\ output' = Append(output, current) /\ current' = current + 1
        /\ UNCHANGED <<source, mainPc, sawError, displayed, status, workerPc, labels>>
    BY <1>5, <2>1 DEF EmitExtern, labelVars
  <2>3. output = UpTo(current - 1) => output' = UpTo(current' - 1)
    BY <2>1, <2>2, UpToNext
  <2>4. \A i \in Indices : /\ i < current' => i < current \/ i = current
                           /\ Handled(i) => Handled(i)'
    BY <1>1, <2>1, <2>2 DEF Indices, Handled, Received, IsProc
  <2>5. \A i \in Indices : i = current => Handled(i)'
    BY <2>1, <2>2 DEF Handled, IsProc
  <2> QED BY <1>1, <2>1, <2>2, <2>3, <2>4, <2>5 DEF Emitting, Indices
<1>6. CASE ReceiveUserError
  BY <1>6 DEF ReceiveUserError, AtOrder, Running, Emitting
<1>7. CASE ReceiveOut
  <2>1. /\ mainPc = "select" /\ status = "running" /\ order = current /\ current \in Indices
        /\ current \in Nat \ {0} /\ workerPc[current] = "sendOut"
    BY <1>2, <1>7 DEF ReceiveOut, AtOrder, Running
  <2>2. /\ workerPc' = [workerPc EXCEPT ![current] = "done"] /\ mainPc' = "check"
        /\ UNCHANGED <<source, current, sawError, displayed, output, status, labels>>
    BY <1>7, <2>1 DEF ReceiveOut, labelVars
  <2>3. Received(current)'
    BY <1>1, <2>1, <2>2 DEF Received, Sending, IsProc, TypeOK
  <2>4. \A i \in Indices : Handled(i) => Handled(i)'
    BY <1>1, <2>1, <2>2 DEF Handled, Received, IsProc, TypeOK
  <2> QED BY <1>1, <2>1, <2>2, <2>3, <2>4 DEF Emitting, Indices
<1>8. CASE CheckAndGenerate
  <2>1. /\ mainPc = "check" /\ status = "running" /\ order = current /\ current \in Indices
        /\ current \in Nat \ {0} /\ Received(current)
    BY <1>1, <1>2, <1>8 DEF CheckAndGenerate, Running, TypeOK, Emitting
  <2>2. UNCHANGED <<source, sawError, workerPc, labels>>
    BY <1>8 DEF CheckAndGenerate, labelVars
  <2>3. CASE source[order].check = "ok"
    <3>1. /\ output' = Append(output, current) /\ current' = current + 1 /\ mainPc' = "select"
          /\ UNCHANGED <<displayed, status>>
      BY <1>8, <2>1, <2>3 DEF CheckAndGenerate
    <3>2. output = UpTo(current - 1) => output' = UpTo(current' - 1)
      BY <2>1, <3>1, UpToNext
    <3>3. \A i \in Indices : /\ i < current' => i < current \/ i = current
                             /\ Handled(i) => Handled(i)'
      BY <1>1, <2>1, <2>2, <3>1 DEF Indices, Handled, Received, IsProc
    <3>4. source[current] = Proc("ok", "ok")
      <4>1. source[current] \in Items
        BY <1>1, <2>1, SourcesAssumption DEF TypeOK, Indices
      <4>2. source[current].kind = "proc" /\ source[current].gen = "ok" /\ source[current].check = "ok"
        BY <2>1, <2>3 DEF Received, IsProc
      <4> QED BY <4>1, <4>2 DEF Items, Proc
    <3>5. \A i \in Indices : i = current => Handled(i)'
      BY <2>1, <2>2, <3>4 DEF Handled, Received, IsProc
    <3> QED BY <1>1, <2>1, <2>2, <3>1, <3>2, <3>3, <3>5 DEF Emitting, Indices
  <2>4. CASE source[order].check # "ok"
    <3>1. /\ status' \in {"exit1", "crashed"} /\ UNCHANGED <<current, mainPc>>
      BY <1>8, <2>4 DEF CheckAndGenerate
    <3> QED BY <1>1, <2>1, <2>2, <3>1 DEF Emitting, Received, IsProc
  <2> QED BY <2>3, <2>4
<1>9. CASE Finish
  <2>1. /\ mainPc = "select" /\ status = "running" /\ current > Len(workOrders)
        /\ status' = IF sawError THEN "exit1" ELSE "assembled"
        /\ UNCHANGED <<source, current, mainPc, sawError, displayed, output, workerPc, labels, workOrders>>
    BY <1>9 DEF Finish, Running, mainVars, labelVars
  <2>2. \A i \in Indices : Handled(i)' = Handled(i)
    BY <2>1 DEF Handled, Received, IsProc
  <2> QED BY <1>1, <2>1, <2>2 DEF Emitting, Indices
<1>10. ASSUME NEW i \in Indices, Worker(i) PROVE Emitting'
  <2>1. /\ UNCHANGED <<source, current, mainPc, sawError, displayed, output, workOrders>>
        /\ status' \in {status, "crashed"}
        /\ \A j \in Indices : (Received(j) => Received(j)') /\ (Handled(j) => Handled(j)')
    BY <1>1, <1>10, WorkerFrame DEF mainVars
  <2>2. mainPc = "check" => current \in Indices
    BY <1>1, <1>2 DEF TypeOK
  <2> QED BY <1>1, <1>10, <2>1, <2>2 DEF Emitting, Indices, Worker, LockLabels, TakeLabel,
              UnlockLabels, EndGeneration, At, Running
<1>11. CASE UNCHANGED vars
  BY <1>1, <1>11 DEF Emitting, vars, mainVars, labelVars, Handled, Received, IsProc, Indices
<1> QED
  BY <1>3, <1>4, <1>5, <1>6, <1>7, <1>8, <1>9, <1>10, <1>11 DEF Next, Main

\* The inductive invariant of the emission.
LEMMA EmissionInvariance == Spec => []EInv
<1>1. EInv /\ [Next]_vars => EInv'
  BY TypeStep, ParsingStep, SendingStep, EmittingStep DEF EInv
<1> QED BY EInvInit, <1>1, PTL DEF Spec

\* A program is assembled only when all its procedures came through, and then
\* a.asm holds them in source order, however the workers were scheduled.
THEOREM AssembledAlwaysSound == Spec => []AssembledOnlyIfSound
<1>1. ASSUME EInv, status = "assembled" PROVE AssembledOnlyIfSound
  <2>1. mainPc # "parse" /\ ~ sawError /\ current > Len(workOrders)
    BY <1>1 DEF EInv, Emitting, Parsing
  <2>2. Len(workOrders) = Len(source) /\ Len(source) \in Nat
    BY <1>1, <2>1, OrdersAreItems
  <2>3. current = Len(source) + 1
    BY <1>1, <2>1, <2>2 DEF EInv, TypeOK
  <2>4. /\ output = UpTo(Len(source)) /\ displayed = <<>>
        /\ \A i \in Indices : Handled(i)
    BY <1>1, <2>1, <2>2, <2>3 DEF EInv, Emitting, Indices
  <2> QED BY <2>4 DEF AssembledOnlyIfSound, Handled, Received, UpTo, Indices
<1>2. EInv => AssembledOnlyIfSound
  BY <1>1 DEF AssembledOnlyIfSound
<1> QED BY EmissionInvariance, <1>2, PTL

-----------------------------------------------------------------------------
(* The outcome does not depend on the schedule.                            *)

\* q goes through S, from the smallest to the largest.
Lists(q, S) ==
    /\ \A m, n \in DOMAIN q : m < n => q[m] < q[n]
    /\ \A m \in DOMAIN q : q[m] \in S
    /\ \A x \in S : \E m \in DOMAIN q : q[m] = x

\* A set of natural numbers has a least element.
LEMMA LeastNatural ==
    ASSUME NEW T, T \subseteq Nat, T # {}
    PROVE  \E k \in T : \A j \in T : k <= j
<1> DEFINE Below(k) == {j \in T : j <= k}
<1> DEFINE F == {Below(k) : k \in T}
<1>0. \A k \in T : k \in Nat
  OBVIOUS
<1>1. F # {} /\ F \subseteq FiniteSubsetsOf(T)
  <2>1. ASSUME NEW k \in T PROVE IsFiniteSet(Below(k))
    <3>1. IsFiniteSet(0 .. k)
      BY FS_Interval
    <3>2. Below(k) \subseteq 0 .. k
      <4> SUFFICES ASSUME NEW j \in T, j <= k PROVE j \in 0 .. k
        BY Zenon
      <4>1. j \in Nat /\ k \in Nat
        BY <1>0
      <4> QED BY <4>1
    <3> QED BY <3>1, <3>2, FS_Subset
  <2> QED BY <2>1 DEF FiniteSubsetsOf
<1>2. PICK X \in F : \A Y \in F : ~ (<<Y, X>> \in StrictSubsetOrdering(T))
  BY <1>1, FS_StrictSubsetOrderingWellFounded, WFMin
<1>3. PICK k \in T : X = Below(k)
  OBVIOUS
<1>4. ASSUME NEW j \in T, ~ (k <= j)
      PROVE  FALSE
  <2>1. Below(j) \in F /\ Below(j) \subseteq T /\ X \subseteq T
    BY <1>3
  <2>2. Below(j) \subseteq X /\ k \in X /\ k \notin Below(j)
    <3>1. k \in Nat /\ j \in Nat /\ j < k
      BY <1>0, <1>4
    <3>2. \A h \in T : h <= j => h <= k
      BY <1>0, <3>1
    <3>3. k <= k /\ ~ (k <= j)
      BY <3>1
    <3>4. Below(j) \subseteq Below(k)
      BY <3>2, Zenon
    <3>5. k \in Below(k) /\ k \notin Below(j)
      BY <3>3, Zenon
    <3> QED BY <1>3, <3>4, <3>5
  <2>3. <<Below(j), X>> \in StrictSubsetOrdering(T)
    BY <2>1, <2>2 DEF StrictSubsetOrdering
  <2> QED BY <1>2, <2>1, <2>3
<1> QED BY <1>4

\* Two sequences of one length that go through a set in order are the same: at
\* the first place where they differ, one of them has left an element out.
LEMMA ListsAgree ==
    ASSUME NEW S \in SUBSET Nat, NEW N \in Nat, NEW q \in [1 .. N -> S], NEW r \in [1 .. N -> S],
           Lists(q, S), Lists(r, S)
    PROVE  q = r
<1> DEFINE T == {k \in 1 .. N : q[k] # r[k]}
<1>1. SUFFICES ASSUME T # {} PROVE FALSE
  OBVIOUS
<1>2. T \subseteq Nat
  OBVIOUS
<1>3. PICK k \in T : \A j \in T : k <= j
  BY <1>1, <1>2, LeastNatural
<1>4. ASSUME NEW f \in [1 .. N -> S], NEW g \in [1 .. N -> S], Lists(f, S), Lists(g, S),
             f[k] < g[k], \A j \in 1 .. N : j < k => f[j] = g[j]
      PROVE  FALSE
  <2>1. k \in 1 .. N /\ DOMAIN g = 1 .. N /\ DOMAIN f = 1 .. N
    OBVIOUS
  <2>2. PICK m \in 1 .. N : g[m] = f[k]
    BY <1>4, <2>1 DEF Lists
  <2>3. g[m] \in Nat /\ g[k] \in Nat /\ f[m] \in Nat
    BY <2>1
  <2>4. m < k
    <3>1. k < m => g[k] < g[m]
      BY <1>4, <2>1, <2>2 DEF Lists
    <3>2. ~ (k < m) /\ m # k
      BY <1>4, <2>2, <2>3, <3>1
    <3>3. m \in Nat /\ k \in Nat
      BY <2>1, <2>2
    <3> QED BY <3>2, <3>3
  <2>5. f[m] = f[k] /\ f[m] < f[k]
    BY <1>4, <2>1, <2>2, <2>4 DEF Lists
  <2> QED BY <2>3, <2>5
<1>5. \A j \in 1 .. N : j < k => q[j] = r[j]
  <2>1. \A j \in 1 .. N : j < k => ~ (k <= j)
    OBVIOUS
  <2> QED BY <1>3, <2>1
<1>6. k \in 1 .. N /\ q[k] \in Nat /\ r[k] \in Nat /\ q[k] # r[k]
  OBVIOUS
<1>7. q[k] < r[k] \/ r[k] < q[k]
  BY <1>6
<1> QED BY <1>4, <1>5, <1>7

\* An ascending sequence repeats nothing.
LEMMA AscendingInjective ==
    ASSUME NEW S \in SUBSET Nat, NEW N \in Nat, NEW q \in [1 .. N -> S],
           \A m, n \in DOMAIN q : m < n => q[m] < q[n]
    PROVE  q \in Injection(1 .. N, S)
<1>1. ASSUME NEW m \in 1 .. N, NEW n \in 1 .. N, q[m] = q[n] PROVE m = n
  <2>1. q[m] \in Nat /\ q[n] \in Nat /\ DOMAIN q = 1 .. N
    OBVIOUS
  <2>2. (m < n => q[m] < q[n]) /\ (n < m => q[n] < q[m])
    BY <2>1
  <2> QED BY <1>1, <2>1, <2>2
<1> QED BY <1>1, Fun_IsInj

\* What goes through S in order is the sequence Ascending(S).
LEMMA ListsAscending ==
    ASSUME NEW S \in SUBSET Nat, NEW q \in Seq(Nat), Lists(q, S)
    PROVE  q = Ascending(S)
<1> DEFINE N == Len(q)
<1>1. N \in Nat /\ q \in [1 .. N -> S]
  BY DEF Lists
<1>2. q \in Bijection(1 .. N, S)
  <2>1. q \in Injection(1 .. N, S)
    BY <1>1, AscendingInjective DEF Lists
  <2>2. q \in Surjection(1 .. N, S)
    BY <1>1, Fun_IsSurj DEF Lists
  <2> QED BY <2>1, <2>2 DEF Bijection
<1>3. IsFiniteSet(1 .. N) /\ Cardinality(1 .. N) = N
  <2>1. \A n \in Nat : IsFiniteSet(1 .. n) /\ Cardinality(1 .. n) = n
    <3>1. ASSUME NEW n \in Nat PROVE IsFiniteSet(1 .. n) /\ Cardinality(1 .. n) = n
      <4>1. /\ IsFiniteSet(1 .. n)
            /\ Cardinality(1 .. n) = IF 1 > n THEN 0 ELSE n - 1 + 1
        BY FS_Interval
      <4> QED BY <4>1
    <3> QED BY <3>1
  <2> QED BY <1>1, <2>1
<1>4. IsFiniteSet(S) /\ Cardinality(S) = N
  <2>1. ExistsBijection(1 .. N, S)
    BY <1>2 DEF ExistsBijection
  <2> QED BY <1>3, <2>1, FS_Bijection
<1> HIDE DEF N
<1> DEFINE Rising(r) == \A m, n \in DOMAIN r : m < n => r[m] < r[n]
<1>5. Ascending(S) \in [1 .. N -> S] /\ Rising(Ascending(S))
  <2>1. \E r \in [1 .. N -> S] : Rising(r)
    BY <1>1 DEF Lists
  <2> QED BY <1>4, <2>1 DEF Ascending
<1>6. Lists(Ascending(S), S)
  <2>1. Ascending(S) \in Injection(1 .. N, S)
    BY <1>1, <1>5, AscendingInjective
  <2>2. Ascending(S) \in Surjection(1 .. N, S)
    BY <1>3, <1>4, <2>1, FS_Injection
  <2>3. \A x \in S : \E m \in 1 .. N : Ascending(S)[m] = x
    BY <2>2 DEF Surjection
  <2>4. DOMAIN Ascending(S) = 1 .. N /\ \A m \in 1 .. N : Ascending(S)[m] \in S
    BY <1>5
  <2> QED BY <1>5, <2>3, <2>4 DEF Lists
<1> QED BY <1>1, <1>5, <1>6, ListsAgree

\* One more element, behind all of the others.
LEMMA ListsAppend ==
    ASSUME NEW S \in SUBSET Nat, NEW q \in Seq(Nat), Lists(q, S), NEW x \in Nat,
           \A y \in S : y < x
    PROVE  Append(q, x) \in Seq(Nat) /\ Lists(Append(q, x), S \cup {x})
<1> DEFINE r == Append(q, x)
<1>1. /\ r \in Seq(Nat) /\ DOMAIN r = DOMAIN q \cup {Len(q) + 1} /\ Len(q) \in Nat
      /\ DOMAIN q = 1 .. Len(q) /\ r[Len(q) + 1] = x
      /\ \A m \in DOMAIN q : r[m] = q[m]
  OBVIOUS
<1> HIDE DEF r
<1>2. \A m, n \in DOMAIN r : m < n => r[m] < r[n]
  <2>1. \A m, n \in DOMAIN r : m < n => m \in DOMAIN q
    BY <1>1
  <2>2. \A m \in DOMAIN q : r[m] < x
    BY <1>1 DEF Lists
  <2> QED BY <1>1, <2>1, <2>2 DEF Lists
<1>3. \A m \in DOMAIN r : r[m] \in S \cup {x}
  BY <1>1 DEF Lists
<1>4. \A y \in S \cup {x} : \E m \in DOMAIN r : r[m] = y
  BY <1>1 DEF Lists
<1>5. Lists(r, S \cup {x})
  BY <1>2, <1>3, <1>4 DEF Lists
<1> QED BY <1>1, <1>5 DEF r

\* What main has been through when it is at n.
FirstOf(S, n) == {i \in S : i < n}

\* Main goes on by one, past an element of S or past something else.
LEMMA ListsNext ==
    ASSUME NEW S \in SUBSET Nat, NEW n \in Nat, NEW q \in Seq(Nat), Lists(q, FirstOf(S, n))
    PROVE  /\ n \in S => Lists(Append(q, n), FirstOf(S, n + 1))
           /\ n \notin S => Lists(q, FirstOf(S, n + 1))
<1>1. FirstOf(S, n) \in SUBSET Nat /\ \A y \in FirstOf(S, n) : y < n
  BY DEF FirstOf
<1>2. \A y \in S : y < n + 1 <=> y < n \/ y = n
  OBVIOUS
<1>3. n \in S => FirstOf(S, n + 1) = FirstOf(S, n) \cup {n}
  BY <1>2 DEF FirstOf
<1>4. n \notin S => FirstOf(S, n + 1) = FirstOf(S, n)
  BY <1>2 DEF FirstOf
<1>5. Lists(Append(q, n), FirstOf(S, n) \cup {n})
  BY <1>1, ListsAppend
<1> QED BY <1>3, <1>4, <1>5

NoIce == GenIs("ice") = {}
Emitted == GenIs("ok") \cup KindIs("foreign")
Shown == FirstOf(GenIs("userError"), current)

\* Up to the end of the source, the bad lines are shown as they are read.
Reading ==
    /\ mainPc = "parse" => ~ sawError /\ Lists(displayed, FirstOf(KindIs("badLine"), line))
    /\ parseFailed => \E i \in KindIs("badLine") : i < line
    /\ mainPc = "parse" /\ ~ Running /\ NoIce =>
          /\ line > Len(source)
          /\ status = IF parseFailed THEN "exit1" ELSE "crashed"
          /\ ~ parseFailed => KindIs("badType") # {}

\* A worker that reports an error has one.
Reporting == \A i \in Indices : workerPc[i] = "sendError" => source[i].gen = "userError"

\* Behind it, main has been through everything before the current work order,
\* in order, and nothing there stopped it.
Ordered ==
    mainPc # "parse" =>
        /\ \A stop \in Stops : current <= stop
        /\ Lists(output, FirstOf(Emitted, current))
        /\ sawError <=> Shown # {}
        /\ Running => Lists(displayed, Shown)

\* What ends it is the end of the work orders, or the current one.
Ended ==
    mainPc # "parse" /\ ~ Running /\ NoIce =>
        \/ /\ current > Len(workOrders) /\ Lists(displayed, Shown)
           /\ status = IF sawError THEN "exit1" ELSE "assembled"
        \/ /\ current \in Stops /\ source[current].check = "userError"
           /\ Lists(displayed, Shown \cup {current}) /\ status = "exit1"
        \/ /\ current \in Stops /\ source[current].check = "ice"
           /\ Lists(displayed, Shown) /\ status = "crashed"

OInv == EInv /\ Reading /\ Reporting /\ Ordered /\ Ended

\* The source is never written.
LEMMA SourceStays ==
    ASSUME [Next]_vars
    PROVE  /\ source' = source
           /\ Indices' = Indices /\ Stops' = Stops /\ Emitted' = Emitted /\ NoIce' = NoIce
           /\ KindIs("badLine")' = KindIs("badLine") /\ KindIs("badType")' = KindIs("badType")
           /\ GenIs("userError")' = GenIs("userError")
<1>1. ASSUME Main PROVE source' = source
  BY <1>1 DEF Main, ParseBadLine, ParseItem, EndParsing, EmitExtern, ReceiveUserError,
              ReceiveOut, CheckAndGenerate, Finish
<1>2. ASSUME NEW i \in Indices, Worker(i) PROVE source' = source
  BY <1>2 DEF Worker, LockLabels, TakeLabel, UnlockLabels, EndGeneration
<1>3. source' = source
  BY <1>1, <1>2 DEF Next, vars
<1> QED BY <1>3 DEF Indices, Stops, Emitted, NoIce, KindIs, GenIs, IsProc

\* The items are numbered.
LEMMA ItemsAreNumbers ==
    ASSUME TypeOK
    PROVE  /\ Indices \in SUBSET (Nat \ {0}) /\ line \in Nat
           /\ KindIs("badLine") \in SUBSET Nat /\ GenIs("userError") \in SUBSET Nat
           /\ Emitted \in SUBSET Nat /\ Stops \in SUBSET Indices
           /\ displayed \in Seq(Nat) /\ output \in Seq(Nat)
<1>1. Len(source) \in Nat
  BY LengthIsNat
<1>2. Indices \in SUBSET (Nat \ {0})
  BY <1>1 DEF Indices
<1>3. displayed \in Seq(Nat) /\ output \in Seq(Nat) /\ line \in Nat
  <2>1. ASSUME NEW q \in Seq(Indices) PROVE q \in Seq(Nat)
    <3>1. Indices \subseteq Nat
      BY <1>2
    <3> QED BY <3>1, SeqMonotonic
  <2>2. line \in Nat
    BY <1>1 DEF TypeOK
  <2> QED BY <2>1, <2>2 DEF TypeOK
<1> QED BY <1>2, <1>3 DEF KindIs, GenIs, Emitted, Stops

\* A worker only ends the process by an internal error of its procedure.
LEMMA WorkerEnds ==
    ASSUME TypeOK, Sending, NEW i \in Indices, Worker(i)
    PROVE  Running /\ (status' = status \/ ~ NoIce)
<1>1. CASE LockLabels(i) \/ TakeLabel(i) \/ UnlockLabels(i)
  BY <1>1 DEF LockLabels, TakeLabel, UnlockLabels, At
<1>2. CASE EndGeneration(i)
  BY <1>2 DEF EndGeneration, At, Sending, NoIce, GenIs
<1> QED BY <1>1, <1>2 DEF Worker

\* Each step keeps what is shown in step with the lines that were read.
LEMMA ReadingStep == ASSUME OInv, [Next]_vars PROVE Reading'
<1>1. /\ TypeOK /\ Sending /\ Reading /\ line \in Nat
      /\ KindIs("badLine") \in SUBSET Nat /\ displayed \in Seq(Nat)
  BY ItemsAreNumbers DEF OInv, EInv
<1>2. /\ NoIce' = NoIce /\ KindIs("badLine")' = KindIs("badLine") /\ source' = source
      /\ KindIs("badType")' = KindIs("badType")
  BY SourceStays
<1>3. CASE ParseBadLine
  <2>1. /\ mainPc = "parse" /\ line \in KindIs("badLine") /\ Running /\ line < line'
        /\ displayed' = Append(displayed, line) /\ line' = line + 1
        /\ UNCHANGED <<status, sawError>>
    <3>1. line \in Indices
      BY <1>1, <1>3 DEF ParseBadLine, TypeOK, Indices
    <3> QED BY <1>1, <1>3, <3>1 DEF ParseBadLine, KindIs
  <2>2. Lists(displayed', FirstOf(KindIs("badLine"), line'))
    BY <1>1, <2>1, ListsNext DEF Reading
  <2> QED BY <1>1, <1>2, <2>1, <2>2 DEF Reading, Running
<1>4. CASE ParseItem
  <2>1. /\ mainPc = "parse" /\ line \notin KindIs("badLine") /\ Running /\ line' = line + 1
        /\ UNCHANGED <<displayed, status, parseFailed, sawError>>
    BY <1>4 DEF ParseItem, KindIs
  <2>2. Lists(displayed', FirstOf(KindIs("badLine"), line'))
    BY <1>1, <2>1, ListsNext DEF Reading
  <2>3. \A i \in KindIs("badLine") : i < line => i < line'
    BY <1>1, <2>1
  <2> QED BY <1>1, <1>2, <2>1, <2>2, <2>3 DEF Reading, Running
<1>5. CASE EndParsing
  BY <1>1, <1>2, <1>5 DEF EndParsing, Reading, Running, KindIs, mainVars
<1>6. CASE EmitExtern \/ ReceiveUserError \/ ReceiveOut \/ CheckAndGenerate \/ Finish
  <2>1. mainPc # "parse" /\ mainPc' # "parse" /\ UNCHANGED <<line, parseFailed>>
    BY <1>6 DEF EmitExtern, ReceiveUserError, ReceiveOut, CheckAndGenerate, Finish, AtOrder, mainVars
  <2> QED BY <1>1, <1>2, <2>1 DEF Reading
<1>7. ASSUME NEW i \in Indices, Worker(i) PROVE Reading'
  <2>1. UNCHANGED mainVars /\ Running /\ (status' = status \/ ~ NoIce)
    BY <1>1, <1>7, WorkerFrame, WorkerEnds
  <2> QED BY <1>1, <1>2, <2>1 DEF Reading, Running, mainVars
<1>8. CASE UNCHANGED vars
  BY <1>1, <1>2, <1>8 DEF Reading, Running, vars, mainVars
<1> QED BY <1>3, <1>4, <1>5, <1>6, <1>7, <1>8 DEF Next, Main

\* Each step keeps what a worker that sends an error stands for.
LEMMA ReportingStep == ASSUME OInv, [Next]_vars PROVE Reporting'
<1>1. TypeOK /\ Sending /\ Reporting /\ source' = source /\ Indices' = Indices
  BY SourceStays DEF OInv, EInv
<1>2. ASSUME \A i \in Indices : workerPc'[i] = "sendError" =>
                 workerPc[i] = "sendError" \/ source[i].gen = "userError"
      PROVE  Reporting'
  BY <1>1, <1>2 DEF Reporting
<1>3. CASE Main \/ UNCHANGED vars
  BY <1>1, <1>2, <1>3 DEF Main, ParseBadLine, ParseItem, EndParsing, EmitExtern, ReceiveUserError,
        ReceiveOut, CheckAndGenerate, Finish, vars, TypeOK
<1>4. ASSUME NEW i \in Indices, LockLabels(i) \/ TakeLabel(i) \/ UnlockLabels(i) PROVE Reporting'
  BY <1>1, <1>2, <1>4 DEF LockLabels, TakeLabel, UnlockLabels, TypeOK
<1>5. ASSUME NEW i \in Indices, EndGeneration(i) PROVE Reporting'
  <2>1. IsProc(i)
    BY <1>1, <1>5 DEF EndGeneration, At, Sending
  <2>2. source[i].gen \in Outcomes
    <3>1. source[i] \in Items
      BY <1>1, SourcesAssumption DEF TypeOK, Indices
    <3> QED BY <2>1, <3>1 DEF Items, IsProc
  <2>3. \A j \in Indices : workerPc'[j] = "sendError" =>
            workerPc[j] = "sendError" \/ (j = i /\ source[i].gen \notin {"ok", "ice"})
    BY <1>1, <1>5 DEF EndGeneration, TypeOK
  <2> QED BY <1>2, <2>2, <2>3 DEF Outcomes
<1> QED BY <1>3, <1>4, <1>5 DEF Next, Worker

\* What is at the current work order, and that the next one is behind it.
LEMMA AtCurrent ==
    ASSUME EInv, mainPc # "parse"
    PROVE  /\ current \in Nat /\ current + 1 \in Nat
           /\ \A stop \in Stops : stop \in Nat /\ (current <= stop /\ current # stop => current + 1 <= stop)
           /\ FirstOf(GenIs("userError"), current + 1) # {}
                 <=> FirstOf(GenIs("userError"), current) # {} \/ current \in GenIs("userError")
           /\ Shown \in SUBSET Nat /\ \A i \in Shown : i < current
<1>1. current \in Nat
  BY OrdersAreItems
<1>2. \A stop \in Stops : stop \in Nat
  BY ItemsAreNumbers DEF EInv
<1>3. \A i \in GenIs("userError") : i < current + 1 <=> i < current \/ i = current
  BY <1>1, ItemsAreNumbers DEF EInv
<1>4. Shown \in SUBSET Nat /\ \A i \in Shown : i < current
  BY ItemsAreNumbers DEF EInv, Shown, FirstOf
<1>5. \A stop \in Stops : current <= stop /\ current # stop => current + 1 <= stop
  BY <1>1, <1>2
<1>6. FirstOf(GenIs("userError"), current + 1) # {}
          <=> FirstOf(GenIs("userError"), current) # {} \/ current \in GenIs("userError")
  BY <1>3 DEF FirstOf
<1> QED BY <1>1, <1>2, <1>4, <1>5, <1>6

\* Each step of main goes past the current work order, stops at it, or ends.
LEMMA OrderedStep == ASSUME OInv, [Next]_vars PROVE Ordered' /\ Ended'
<1>1. /\ EInv /\ TypeOK /\ Sending /\ Reading /\ Reporting /\ Ordered /\ Ended
      /\ GenIs("userError") \in SUBSET Nat /\ Emitted \in SUBSET Nat /\ Stops \in SUBSET Indices
      /\ displayed \in Seq(Nat) /\ output \in Seq(Nat) /\ Indices \in SUBSET (Nat \ {0})
  BY ItemsAreNumbers DEF OInv, EInv
<1>2. /\ source' = source /\ Stops' = Stops /\ Emitted' = Emitted /\ NoIce' = NoIce
      /\ GenIs("userError")' = GenIs("userError")
      /\ Shown' = FirstOf(GenIs("userError"), current')
  BY SourceStays DEF Shown
<1>3. ASSUME mainPc # "parse"
      PROVE  /\ current <= Len(workOrders) => order = current /\ current \in Indices
             /\ \A i \in Indices : source[i].kind \in {"proc", "foreign"}
             /\ current \in Nat /\ Shown \in SUBSET Nat /\ \A i \in Shown : i < current
  BY <1>1, <1>3, OrdersAreItems, AtCurrent
\* Main goes past the current work order.
<1>4. ASSUME mainPc # "parse", Running, Running', current' = current + 1, current \notin Stops,
             output' = IF current \in Emitted THEN Append(output, current) ELSE output,
             displayed' = IF current \in GenIs("userError") THEN Append(displayed, current)
                          ELSE displayed,
             sawError' <=> (sawError \/ current \in GenIs("userError"))
      PROVE  Ordered' /\ Ended'
  <2>1. current \in Nat /\ \A stop \in Stops : current' <= stop
    BY <1>1, <1>4, AtCurrent DEF Ordered
  <2>2. Lists(output', FirstOf(Emitted, current'))
    BY <1>1, <1>4, <2>1, ListsNext DEF Ordered
  <2>3. Lists(displayed', Shown')
    BY <1>1, <1>2, <1>4, <2>1, ListsNext DEF Ordered, Shown
  <2>4. sawError' <=> Shown' # {}
    BY <1>1, <1>2, <1>4, AtCurrent DEF Ordered, Shown
  <2> QED BY <1>2, <1>4, <2>1, <2>2, <2>3, <2>4 DEF Ordered, Ended
\* Main stays where it is.
<1>5. ASSUME mainPc # "parse", Running, UNCHANGED <<current, output, sawError>>,
             Running' => displayed' = displayed
      PROVE  Ordered'
  BY <1>1, <1>2, <1>5 DEF Ordered, Shown
<1>6. CASE ParseBadLine \/ ParseItem
  BY <1>6 DEF ParseBadLine, ParseItem, Ordered, Ended
<1>7. CASE EndParsing
  <2>1. CASE mainPc' = "parse"
    BY <2>1 DEF Ordered, Ended
  <2>2. CASE mainPc' # "parse"
    <3>1. /\ current = 1 /\ output = <<>> /\ displayed = <<>> /\ ~ sawError /\ Running'
          /\ UNCHANGED <<current, output, displayed, sawError>>
      BY <1>1, <1>7, <2>2 DEF EndParsing, EInv, Parsing, Reading, mainVars, Running
    <3>2. Shown' = {} /\ FirstOf(Emitted, current') = {}
      <4>1. \A i \in Indices : ~ (i < 1)
        BY <1>1
      <4>2. GenIs("userError") \subseteq Indices /\ Emitted \subseteq Indices
        BY DEF GenIs, Emitted, KindIs
      <4> QED BY <1>2, <3>1, <4>1, <4>2 DEF FirstOf
    <3>3. Lists(<<>>, {})
      BY DEF Lists
    <3>4. \A stop \in Stops : 1 <= stop
      BY <1>1
    <3> QED BY <1>2, <3>1, <3>2, <3>3, <3>4 DEF Ordered, Ended
  <2> QED BY <2>1, <2>2
<1>8. CASE EmitExtern
  <2>1. /\ mainPc # "parse" /\ Running /\ Running' /\ order = current /\ current \in Indices
        /\ ~ IsProc(current) /\ current' = current + 1 /\ output' = Append(output, current)
        /\ UNCHANGED <<displayed, sawError>>
    BY <1>3, <1>8 DEF EmitExtern, AtOrder, Running
  <2>2. current \in Emitted /\ current \notin Stops /\ current \notin GenIs("userError")
    BY <1>3, <2>1 DEF Emitted, KindIs, Stops, GenIs, IsProc
  <2> QED BY <1>4, <2>1, <2>2
<1>9. CASE ReceiveUserError
  <2>1. /\ mainPc # "parse" /\ Running /\ Running' /\ order = current /\ current \in Indices
        /\ workerPc[current] = "sendError" /\ current' = current + 1 /\ sawError' = TRUE
        /\ output' = output /\ displayed' = Append(displayed, current)
    BY <1>3, <1>9 DEF ReceiveUserError, AtOrder, Running
  <2>2. IsProc(current) /\ source[current].gen = "userError"
    BY <1>1, <2>1 DEF Sending, Reporting
  <2>3. current \notin Emitted /\ current \notin Stops /\ current \in GenIs("userError")
    BY <2>1, <2>2 DEF Emitted, KindIs, Stops, GenIs, IsProc
  <2> QED BY <1>4, <2>1, <2>3
<1>10. CASE ReceiveOut
  <2>1. /\ mainPc # "parse" /\ mainPc' # "parse" /\ Running /\ Running'
        /\ UNCHANGED <<current, output, sawError, displayed>>
    BY <1>10 DEF ReceiveOut, AtOrder, Running
  <2> QED BY <1>5, <2>1 DEF Ended
<1>11. CASE CheckAndGenerate
  <2>1. /\ mainPc = "check" /\ Running /\ order = current /\ current \in Indices
        /\ Received(current) /\ sawError' = sawError
    BY <1>1, <1>3, <1>11 DEF CheckAndGenerate, TypeOK, EInv, Emitting
  <2>2. current \in GenIs("ok") /\ current \in Emitted /\ current \notin GenIs("userError")
    BY <2>1 DEF Received, Emitted, GenIs
  <2>3. CASE source[order].check = "ok"
    <3>1. /\ Running' /\ current' = current + 1 /\ output' = Append(output, current)
          /\ displayed' = displayed
      BY <1>11, <2>1, <2>3 DEF CheckAndGenerate, Running
    <3>2. current \notin Stops
      BY <2>1, <2>3 DEF Stops
    <3> QED BY <1>4, <2>1, <2>2, <3>1, <3>2
  <2>4. CASE source[order].check # "ok"
    <3>1. /\ UNCHANGED <<current, output, mainPc>> /\ ~ Running'
          /\ current \in Stops /\ Shown' = Shown
      BY <1>2, <1>11, <2>1, <2>2, <2>4 DEF CheckAndGenerate, Running, Stops, Shown
    <3>2. \/ /\ source[current].check = "userError" /\ status' = "exit1"
             /\ displayed' = Append(displayed, current)
          \/ /\ source[current].check = "ice" /\ status' = "crashed"
             /\ displayed' = displayed
      BY <1>11, <2>1, <2>4 DEF CheckAndGenerate
    <3>3. /\ Lists(displayed, Shown)
          /\ Lists(Append(displayed, current), Shown \cup {current})
      BY <1>1, <1>3, <2>1, ListsAppend DEF Ordered
    <3>4. Ordered'
      BY <1>5, <2>1, <3>1
    <3> QED BY <1>2, <3>1, <3>2, <3>3, <3>4 DEF Ended
  <2> QED BY <2>3, <2>4
<1>12. CASE Finish
  <2>1. /\ mainPc # "parse" /\ Running /\ ~ Running' /\ current > Len(workOrders)
        /\ status' = IF sawError THEN "exit1" ELSE "assembled"
        /\ UNCHANGED <<current, output, sawError, displayed, workOrders>>
    BY <1>12 DEF Finish, Running, mainVars
  <2>2. Lists(displayed, Shown) /\ Shown' = Shown
    BY <1>1, <1>2, <2>1 DEF Ordered, Shown
  <2> QED BY <1>5, <2>1, <2>2 DEF Ended
<1>13. ASSUME NEW i \in Indices, Worker(i) PROVE Ordered' /\ Ended'
  <2>1. UNCHANGED mainVars /\ Running /\ (status' = status \/ ~ NoIce)
    BY <1>1, <1>13, WorkerFrame, WorkerEnds
  <2>2. Ordered'
    BY <1>5, <2>1 DEF mainVars, Ordered
  <2> QED BY <1>2, <2>1, <2>2 DEF Ended, Running
<1>14. CASE UNCHANGED vars
  BY <1>1, <1>2, <1>14 DEF Ordered, Ended, Running, Shown, vars, mainVars
<1> QED
  BY <1>6, <1>7, <1>8, <1>9, <1>10, <1>11, <1>12, <1>13, <1>14 DEF Next, Main

\* Nothing is shown or written at first.
LEMMA OInvInit == Init => OInv
<1>1. SUFFICES ASSUME Init PROVE OInv
  OBVIOUS
<1>2. EInv /\ Indices \in SUBSET (Nat \ {0})
  BY <1>1, EInvInit, ItemsAreNumbers DEF EInv
<1>3. FirstOf(KindIs("badLine"), 1) = {}
  <2>1. \A i \in Indices : ~ (i < 1)
    BY <1>2
  <2> QED BY <2>1 DEF FirstOf, KindIs
<1>4. Lists(<<>>, {})
  BY DEF Lists
<1>5. Reading
  BY <1>1, <1>3, <1>4 DEF Init, Reading, Running
<1>6. Reporting /\ Ordered /\ Ended
  BY <1>1 DEF Init, Reporting, Ordered, Ended
<1> QED BY <1>2, <1>5, <1>6 DEF OInv

\* The inductive invariant of the outcome.
LEMMA OutcomeInvariance == Spec => []OInv
<1>1. OInv /\ [Next]_vars => OInv'
  BY TypeStep, ParsingStep, SendingStep, EmittingStep, ReadingStep, ReportingStep, OrderedStep
     DEF OInv, EInv
<1> QED BY OInvInit, <1>1, PTL DEF Spec

\* The whole of a set lies before a bound on it.
LEMMA FirstOfAll ==
    ASSUME NEW S, NEW n, \A i \in S : i < n
    PROVE  FirstOf(S, n) = S
BY DEF FirstOf

\* A compilation that ended while parsing.
LEMMA ParsingOutcome ==
    ASSUME OInv, ~ Running, NoIce, mainPc = "parse"
    PROVE  /\ displayed = ExpectedDisplayed /\ output = ExpectedOutput
           /\ status = ExpectedStatus
<1>1. /\ TypeOK /\ Parsing /\ Reading /\ Len(source) \in Nat
      /\ KindIs("badLine") \in SUBSET Nat /\ displayed \in Seq(Nat)
  BY ItemsAreNumbers, LengthIsNat DEF OInv, EInv
<1>2. \A i \in Indices : i < line
  BY <1>1 DEF Reading, TypeOK, Indices
<1>3. output = <<>>
  BY <1>1 DEF Parsing
<1>4. CASE parseFailed
  <2>1. KindIs("badLine") # {} /\ status = "exit1"
    BY <1>1, <1>4 DEF Reading
  <2>2. displayed = Ascending(KindIs("badLine"))
    <3>1. FirstOf(KindIs("badLine"), line) = KindIs("badLine")
      BY <1>2, FirstOfAll DEF KindIs
    <3> QED BY <1>1, <3>1, ListsAscending DEF Reading
  <2> QED BY <1>3, <2>1, <2>2 DEF ExpectedDisplayed, ExpectedOutput, ExpectedStatus
<1>5. CASE ~ parseFailed
  <2>1. KindIs("badLine") = {}
    BY <1>1, <1>2, <1>5 DEF Parsing, KindIs
  <2>2. KindIs("badType") # {} /\ status = "crashed" /\ displayed = <<>>
    BY <1>1, <1>5 DEF Reading, Parsing
  <2> QED BY <1>3, <2>1, <2>2 DEF ExpectedDisplayed, ExpectedOutput, ExpectedStatus
<1> QED BY <1>4, <1>5

\* A compilation that ended behind it.
LEMMA OrderedOutcome ==
    ASSUME OInv, ~ Running, NoIce, mainPc # "parse"
    PROVE  /\ displayed = ExpectedDisplayed /\ output = ExpectedOutput
           /\ status = ExpectedStatus
<1>1. /\ TypeOK /\ Parsing /\ Ordered /\ Ended /\ EInv
      /\ GenIs("userError") \in SUBSET Nat /\ Emitted \in SUBSET Nat /\ Stops \in SUBSET Indices
      /\ displayed \in Seq(Nat) /\ output \in Seq(Nat) /\ Indices \in SUBSET (Nat \ {0})
  BY ItemsAreNumbers DEF OInv, EInv
<1>2. KindIs("badLine") = {} /\ KindIs("badType") = {}
  <2>1. \A i \in Indices : source[i].kind \in {"proc", "foreign"}
    BY <1>1, OrdersAreItems
  <2> QED BY <2>1 DEF KindIs
<1>3. /\ Len(source) \in Nat /\ Len(workOrders) = Len(source) /\ current \in Nat
      /\ \A i \in Shown : i < current
  BY <1>1, OrdersAreItems, AtCurrent
<1>4. GenIs("userError") \subseteq Indices /\ Emitted \subseteq Indices
  BY DEF GenIs, Emitted, KindIs
<1>5. ASSUME current > Len(workOrders)
      PROVE  /\ Stops = {} /\ Before = Indices
             /\ Shown = GenIs("userError") /\ FirstOf(Emitted, current) = Emitted
  <2>1. \A i \in Indices : i < current /\ ~ (current <= i)
    BY <1>3, <1>5 DEF Indices
  <2>2. Stops = {}
    BY <1>1, <2>1 DEF Ordered
  <2> QED BY <1>4, <2>1, <2>2, FirstOfAll DEF Before, Shown
<1>6. ASSUME current \in Stops
      PROVE  /\ FirstStop = {current}
             /\ Shown = GenIs("userError") \cap Before
             /\ FirstOf(Emitted, current) = Emitted \cap Before
  <2>1. \A stop \in Stops : current <= stop /\ stop \in Nat
    BY <1>1 DEF Ordered
  <2>2. \A i \in Indices : i \in Before <=> i < current
    <3>1. \A i \in Nat : (\A stop \in Stops : i < stop) <=> i < current
      BY <1>3, <1>6, <2>1
    <3> QED BY <1>1, <3>1 DEF Before
  <2>3. FirstStop = {current}
    <3>1. \A i \in Stops : (\A stop \in Stops : i <= stop) <=> i = current
      BY <1>3, <1>6, <2>1
    <3> QED BY <1>6, <3>1 DEF FirstStop
  <2> QED BY <1>4, <2>2, <2>3 DEF Shown, FirstOf
<1>7. /\ output = Ascending(FirstOf(Emitted, current))
      /\ \A S : S \in SUBSET Nat /\ Lists(displayed, S) => displayed = Ascending(S)
      /\ Shown \in SUBSET Nat /\ Shown \cup {current} \in SUBSET Nat
  <2>1. FirstOf(Emitted, current) \in SUBSET Nat /\ Shown \in SUBSET Nat
    BY <1>1 DEF FirstOf, Shown
  <2> QED BY <1>1, <1>3, <2>1, ListsAscending DEF Ordered
<1>8. CASE current > Len(workOrders) /\ Lists(displayed, Shown)
           /\ status = IF sawError THEN "exit1" ELSE "assembled"
  <2>1. FirstStop = {} /\ FirstUserStop = {}
    BY <1>5, <1>8 DEF FirstStop, FirstUserStop
  <2>2. displayed = Ascending(GenIs("userError")) /\ output = Ascending(Emitted)
    BY <1>5, <1>7, <1>8
  <2>3. sawError <=> GenIs("userError") # {}
    BY <1>1, <1>5, <1>8 DEF Ordered
  <2>4. /\ (GenIs("userError") \cap Before) \cup FirstUserStop = GenIs("userError")
        /\ (GenIs("ok") \cup KindIs("foreign")) \cap Before = Emitted
    BY <1>4, <1>5, <1>8, <2>1 DEF Emitted
  <2> QED BY <1>2, <1>8, <2>1, <2>2, <2>3, <2>4
          DEF ExpectedDisplayed, ExpectedOutput, ExpectedStatus
<1>9. CASE current \in Stops /\ source[current].check = "userError"
           /\ Lists(displayed, Shown \cup {current}) /\ status = "exit1"
  <2>1. FirstStop = {current} /\ FirstUserStop = {current}
    BY <1>6, <1>9 DEF FirstUserStop
  <2>2. displayed = Ascending((GenIs("userError") \cap Before) \cup {current})
    BY <1>6, <1>7, <1>9
  <2>3. output = Ascending(Emitted \cap Before)
    BY <1>6, <1>7, <1>9
  <2> QED BY <1>2, <1>9, <2>1, <2>2, <2>3
          DEF ExpectedDisplayed, ExpectedOutput, ExpectedStatus, Emitted
<1>10. CASE current \in Stops /\ source[current].check = "ice"
            /\ Lists(displayed, Shown) /\ status = "crashed"
  <2>1. FirstStop = {current} /\ FirstUserStop = {}
    BY <1>6, <1>10 DEF FirstUserStop
  <2>2. displayed = Ascending((GenIs("userError") \cap Before) \cup FirstUserStop)
    BY <1>6, <1>7, <1>10, <2>1
  <2>3. output = Ascending(Emitted \cap Before)
    BY <1>6, <1>7, <1>10
  <2> QED BY <1>2, <1>10, <2>1, <2>2, <2>3
          DEF ExpectedDisplayed, ExpectedOutput, ExpectedStatus, Emitted
<1> QED BY <1>1, <1>8, <1>9, <1>10 DEF Ended

\* What is shown, what is in a.asm and how the process ends are those of handling
\* the procedures one after the other, for any number of workers and any schedule.
THEOREM OutcomeAlwaysSequential == Spec => []OutcomeIsSequential
<1>1. ASSUME OInv, ~ Running, NoIce PROVE OutcomeIsSequential
  BY <1>1, ParsingOutcome, OrderedOutcome DEF OutcomeIsSequential
<1>2. OInv => OutcomeIsSequential
  BY <1>1 DEF OutcomeIsSequential, NoIce
<1> QED BY OutcomeInvariance, <1>2, PTL

=============================================================================
