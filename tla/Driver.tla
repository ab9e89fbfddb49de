------------------------------- MODULE Driver -------------------------------
(***************************************************************************)
(* The driver of the compiler (doCompile in src/compiler.go).  The main    *)
(* goroutine parses the source; for every procedure whose end it reads it  *)
(* starts a worker goroutine that generates the IR (GenForProc) and hands  *)
(* it over a channel.  Main then takes the procedures in source order,     *)
(* waits for the worker of each, checks the types and emits the assembly.  *)
(* The workers share one generator of label numbers.                       *)
(*                                                                         *)
(* What the phases find out about a procedure is fixed by the source: an   *)
(* item of the source says how each of them ends.                          *)
(***************************************************************************)
EXTENDS Naturals, Sequences, FiniteSets

CONSTANTS
    Sources,   \* the programs: sequences of Items
    MaxItems,  \* bound on their length
    Labels     \* labels every procedure asks for

ASSUME LabelsAssumption == Labels \in Nat /\ MaxItems \in Nat

\* gen: how GenForProc ends ("ice" is a panic that is not a user error);
\* check: how the typer and the code generator end when gen is "ok".
Proc(gen, check) == [kind |-> "proc", gen |-> gen, check |-> check]
Outcomes == {"ok", "userError", "ice"}

\* A foreign procedure has no body.  A bad line does not parse.  A bad type is
\* a declaration whose type buildGlobalEnv can not resolve.
Items ==
    [kind : {"proc"}, gen : Outcomes, check : Outcomes]
        \cup [kind : {"foreign", "badLine", "badType"}]

ASSUME SourcesAssumption ==
    /\ Sources \subseteq Seq(Items)
    /\ \A program \in Sources : Len(program) <= MaxItems

VARIABLES
    source,     \* the program being compiled
    line,       \* next item main parses
    parseFailed,
    workOrders, \* the items of the work orders, in the order they were made
    current,    \* index of the work order main is at
    mainPc,
    sawError,
    displayed,  \* displayError's calls: the items at fault
    output,     \* what is in a.asm: the items of extern lines and procedures
    status,     \* "running", "assembled", "exit1" or "crashed"
    workerPc,   \* by item
    labels,     \* the label numbers each worker was given
    mutex,      \* the worker in GenLabel, 0 for none
    availableId

mainVars == <<line, parseFailed, workOrders, current, mainPc, sawError,
              displayed, output>>
labelVars == <<labels, mutex, availableId>>
vars == <<source, mainVars, status, workerPc, labelVars>>

Indices == 1 .. Len(source)
IsProc(i) == source[i].kind = "proc"
Running == status = "running"

Init ==
    /\ source \in Sources
    /\ line = 1 /\ parseFailed = FALSE /\ workOrders = <<>>
    /\ current = 1 /\ mainPc = "parse" /\ sawError = FALSE
    /\ displayed = <<>> /\ output = <<>>
    /\ status = "running"
    /\ workerPc = [i \in Indices |-> "absent"]
    /\ labels = [i \in Indices |-> <<>>]
    /\ mutex = 0 /\ availableId = 0

-----------------------------------------------------------------------------
(* The main goroutine: parsing.                                            *)

\* A line that does not parse is reported and the next ones are only parsed.
ParseBadLine ==
    /\ Running /\ mainPc = "parse" /\ line <= Len(source)
    /\ source[line].kind = "badLine"
    /\ parseFailed' = TRUE
    /\ displayed' = Append(displayed, line)
    /\ line' = line + 1
    /\ UNCHANGED <<source, workOrders, current, mainPc, sawError, output, status,
                   workerPc, labelVars>>

\* Wrong variants, named "faulty", show which property notices a mistake; the
\* specification does not use them.  This one waits for the end of the source.
faultyParseItem ==
    /\ Running /\ mainPc = "parse" /\ line <= Len(source)
    /\ source[line].kind # "badLine"
    /\ line' = line + 1
    /\ workOrders' = Append(workOrders, line)
    /\ UNCHANGED <<source, parseFailed, current, mainPc, sawError, displayed,
                   output, status, workerPc, labelVars>>

\* The end of a procedure makes a work order, and a worker unless it is foreign.
ParseItem ==
    /\ Running /\ mainPc = "parse" /\ line <= Len(source)
    /\ source[line].kind # "badLine"
    /\ line' = line + 1
    /\ IF parseFailed \/ source[line].kind = "badType"
       THEN UNCHANGED <<workOrders, workerPc>>
       ELSE /\ workOrders' = Append(workOrders, line)
            /\ workerPc' = IF IsProc(line) THEN [workerPc EXCEPT ![line] = "generate"]
                           ELSE workerPc
    /\ UNCHANGED <<source, parseFailed, current, mainPc, sawError, displayed,
                   output, status, labelVars>>

\* The end of the source.  os.Exit ends the workers with the process.
EndParsing ==
    /\ Running /\ mainPc = "parse" /\ line > Len(source)
    /\ \/ /\ parseFailed
          /\ status' = "exit1"
          /\ UNCHANGED mainPc
       \/ /\ ~ parseFailed
          /\ \E i \in Indices : source[i].kind = "badType"
          /\ status' = "crashed"
          /\ UNCHANGED mainPc
       \/ /\ ~ parseFailed
          /\ \A i \in Indices : source[i].kind # "badType"
          /\ mainPc' = "select"
          /\ UNCHANGED status
    /\ UNCHANGED <<source, line, parseFailed, workOrders, current, sawError,
                   displayed, output, workerPc, labelVars>>

-----------------------------------------------------------------------------
(* The main goroutine: the work orders.                                    *)

AtOrder == Running /\ mainPc = "select" /\ current <= Len(workOrders)
order == workOrders[current]

EmitExtern ==
    /\ AtOrder /\ ~ IsProc(order)
    /\ output' = Append(output, order)
    /\ current' = current + 1
    /\ UNCHANGED <<source, line, parseFailed, workOrders, mainPc, sawError,
                   displayed, status, workerPc, labelVars>>

\* The error is shown but not remembered.
faultyReceiveUserError ==
    /\ AtOrder /\ workerPc[order] = "sendError"
    /\ workerPc' = [workerPc EXCEPT ![order] = "done"]
    /\ displayed' = Append(displayed, order)
    /\ current' = current + 1
    /\ UNCHANGED <<source, line, parseFailed, workOrders, mainPc, sawError,
                   output, status, labelVars>>

\* err := <-workOrder.UserError
ReceiveUserError ==
    /\ AtOrder /\ workerPc[order] = "sendError"
    /\ workerPc' = [workerPc EXCEPT ![order] = "done"]
    /\ sawError' = TRUE
    /\ displayed' = Append(displayed, order)
    /\ current' = current + 1
    /\ UNCHANGED <<source, line, parseFailed, workOrders, mainPc, output, status,
                   labelVars>>

\* Whichever worker is ready is served.
faultyReceiveOut ==
    /\ Running /\ mainPc = "select"
    /\ \E k \in current .. Len(workOrders) :
          /\ workerPc[workOrders[k]] = "sendOut"
          /\ workerPc' = [workerPc EXCEPT ![workOrders[k]] = "done"]
          /\ workOrders' = [workOrders EXCEPT ![k] = order, ![current] = workOrders[k]]
    /\ mainPc' = "check"
    /\ UNCHANGED <<source, line, parseFailed, current, sawError, displayed,
                   output, status, labelVars>>

\* out := <-workOrder.Out
ReceiveOut ==
    /\ AtOrder /\ workerPc[order] = "sendOut"
    /\ workerPc' = [workerPc EXCEPT ![order] = "done"]
    /\ mainPc' = "check"
    /\ UNCHANGED <<source, line, parseFailed, workOrders, current, sawError,
                   displayed, output, status, labelVars>>

\* InferAndCheck and X86ForBlock.  A user error is a panic that catchUserError
\* turns into a message and an exit; the procedure leaves nothing in a.asm.
CheckAndGenerate ==
    /\ Running /\ mainPc = "check"
    /\ \/ /\ source[order].check = "ok"
          /\ output' = Append(output, order)
          /\ current' = current + 1 /\ mainPc' = "select"
          /\ UNCHANGED <<displayed, status>>
       \/ /\ source[order].check = "userError"
          /\ displayed' = Append(displayed, order)
          /\ status' = "exit1"
          /\ UNCHANGED <<output, current, mainPc>>
       \/ /\ source[order].check = "ice"
          /\ status' = "crashed"
          /\ UNCHANGED <<output, current, mainPc, displayed>>
    /\ UNCHANGED <<source, line, parseFailed, workOrders, sawError, workerPc,
                   labelVars>>

\* The rest of a.asm, and then nasm and ld; only without user errors.
Finish ==
    /\ Running /\ mainPc = "select" /\ current > Len(workOrders)
    /\ status' = IF sawError THEN "exit1" ELSE "assembled"
    /\ UNCHANGED <<source, mainVars, workerPc, labelVars>>

-----------------------------------------------------------------------------
(* A worker.                                                               *)

At(i, pc) == Running /\ workerPc[i] = pc

\* g.Lock() is not there.
faultyLockLabels(i) ==
    /\ At(i, "generate") /\ Len(labels[i]) < Labels
    /\ mutex' = i
    /\ workerPc' = [workerPc EXCEPT ![i] = "locked"]
    /\ UNCHANGED <<source, mainVars, status, labels, availableId>>

\* GenLabel: g.Lock()
LockLabels(i) ==
    /\ At(i, "generate") /\ Len(labels[i]) < Labels
    /\ mutex = 0
    /\ mutex' = i
    /\ workerPc' = [workerPc EXCEPT ![i] = "locked"]
    /\ UNCHANGED <<source, mainVars, status, labels, availableId>>

\* GenLabel: ret = fmt.Sprintf(template, g.availableId)
TakeLabel(i) ==
    /\ At(i, "locked")
    /\ labels' = [labels EXCEPT ![i] = Append(@, availableId)]
    /\ workerPc' = [workerPc EXCEPT ![i] = "taken"]
    /\ UNCHANGED <<source, mainVars, status, mutex, availableId>>

\* g.Unlock() is not reached.
faultyUnlockLabels(i) ==
    /\ At(i, "taken")
    /\ availableId' = availableId + 1
    /\ workerPc' = [workerPc EXCEPT ![i] = "generate"]
    /\ UNCHANGED <<source, mainVars, status, labels, mutex>>

\* GenLabel: g.availableId++ and g.Unlock()
UnlockLabels(i) ==
    /\ At(i, "taken")
    /\ availableId' = availableId + 1
    /\ mutex' = 0
    /\ workerPc' = [workerPc EXCEPT ![i] = "generate"]
    /\ UNCHANGED <<source, mainVars, status, labels>>

\* GenForProc is through, or stopped by a panic.  An internal error takes the
\* process down from whichever goroutine it happens in.
EndGeneration(i) ==
    /\ At(i, "generate") /\ Len(labels[i]) = Labels
    /\ \/ /\ source[i].gen = "ice"
          /\ status' = "crashed"
          /\ UNCHANGED workerPc
       \/ /\ source[i].gen # "ice"
          /\ workerPc' = [workerPc EXCEPT ![i] =
                IF source[i].gen = "ok" THEN "sendOut" ELSE "sendError"]
          /\ UNCHANGED status
    /\ UNCHANGED <<source, mainVars, labelVars>>

Main ==
    \/ ParseBadLine \/ ParseItem \/ EndParsing
    \/ EmitExtern \/ ReceiveUserError \/ ReceiveOut \/ CheckAndGenerate \/ Finish

Worker(i) ==
    LockLabels(i) \/ TakeLabel(i) \/ UnlockLabels(i) \/ EndGeneration(i)

Next == Main \/ \E i \in Indices : Worker(i)

\* The Go scheduler runs every goroutine that can run.  A worker that waits for
\* the lock needs no more: the others ask for finitely many labels.
Spec ==
    /\ Init /\ [][Next]_vars
    /\ WF_vars(Main)
    /\ \A i \in 1 .. MaxItems : WF_vars(i \in Indices /\ Worker(i))

-----------------------------------------------------------------------------
(* Properties.                                                             *)

Statuses == {"running", "assembled", "exit1", "crashed"}
WorkerPcs == {"absent", "generate", "locked", "taken", "sendOut", "sendError", "done"}

\* Every variable has its type (the variables of doCompile, main and GenLabel).
TypeOK ==
    /\ source \in Sources
    /\ line \in 1 .. Len(source) + 1
    /\ parseFailed \in BOOLEAN /\ sawError \in BOOLEAN
    /\ workOrders \in Seq(Indices)
    /\ displayed \in Seq(Indices) /\ output \in Seq(Indices)
    /\ current \in 1 .. Len(workOrders) + 1
    /\ mainPc \in {"parse", "select", "check"}
    /\ mainPc = "check" => current <= Len(workOrders)
    /\ status \in Statuses
    /\ workerPc \in [Indices -> WorkerPcs]
    /\ labels \in [Indices -> Seq(Nat)]
    /\ mutex \in Indices \cup {0}
    /\ availableId \in Nat

\* No label number is given twice, to one procedure or to two: the names end up
\* in one assembly file (GenLabel's lock, shared by all workers).
UniqueLabels ==
    \A i, j \in Indices : \A k \in DOMAIN labels[i], l \in DOMAIN labels[j] :
        labels[i][k] = labels[j][l] => i = j /\ k = l

\* A binary is made only when every procedure came through every phase; then
\* a.asm holds all of them in source order and no worker is left behind.
AssembledOnlyIfSound ==
    status = "assembled" =>
        /\ \A i \in Indices : source[i].kind \in {"proc", "foreign"}
        /\ \A i \in Indices : IsProc(i) => /\ source[i] = Proc("ok", "ok")
                                           /\ workerPc[i] = "done"
                                           /\ Len(labels[i]) = Labels
        /\ output = [i \in Indices |-> i]
        /\ displayed = <<>>

\* The outcome of compiling one procedure after the other: the first item that
\* stops the compiler, what is shown and what is written up to there.
Ascending(S) ==
    CHOOSE q \in [1 .. Cardinality(S) -> S] :
        \A m, n \in DOMAIN q : m < n => q[m] < q[n]
KindIs(kind) == {i \in Indices : source[i].kind = kind}
GenIs(end) == {i \in Indices : IsProc(i) /\ source[i].gen = end}
Stops == {i \in GenIs("ok") : source[i].check # "ok"}
Before == {i \in Indices : \A stop \in Stops : i < stop}
FirstStop == {i \in Stops : \A stop \in Stops : i <= stop}
FirstUserStop == {i \in FirstStop : source[i].check = "userError"}

ExpectedDisplayed ==
    IF KindIs("badLine") # {} THEN Ascending(KindIs("badLine"))
    ELSE IF KindIs("badType") # {} THEN <<>>
    ELSE Ascending((GenIs("userError") \cap Before) \cup FirstUserStop)
ExpectedOutput ==
    IF KindIs("badLine") \cup KindIs("badType") # {} THEN <<>>
    ELSE Ascending((GenIs("ok") \cup KindIs("foreign")) \cap Before)
ExpectedStatus ==
    IF KindIs("badLine") # {} THEN "exit1"
    ELSE IF KindIs("badType") # {} THEN "crashed"
    ELSE IF FirstStop # {} THEN IF FirstUserStop # {} THEN "exit1" ELSE "crashed"
    ELSE IF GenIs("userError") # {} THEN "exit1" ELSE "assembled"

\* Whatever the order in which the workers run, doCompile ends as if it handled
\* the procedures one after the other; a worker that dies of an internal error
\* is the exception, it may take the process down earlier.
OutcomeIsSequential ==
    ~ Running /\ GenIs("ice") = {} =>
        <<displayed, output, status>> =
            <<ExpectedDisplayed, ExpectedOutput, ExpectedStatus>>

\* The compiler ends: main finds each worker it waits for at the channel, and no
\* worker is stuck at the label lock.
Terminates == <>(~ Running)

=============================================================================
