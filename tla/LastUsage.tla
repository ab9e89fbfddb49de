----------------------------- MODULE LastUsage ------------------------------
(***************************************************************************)
(* When the code generator takes a variable's storage away, over the IR    *)
(* of every procedure that Frontend generates (src/backend/backend.go).    *)
(* There are two occasions: the instruction that findLastusage finds to be *)
(* the variable's last, and, for temporaries, the first instruction of a   *)
(* later source line (decommissionAllTempVars).  A variable whose address  *)
(* is taken has its pointer's last use; Frontend has no addresses.         *)
(***************************************************************************)
EXTENDS Frontend, FiniteSetsExt

opts == gen.opts

\* IterOverAllVars
Uses(i) == opts[i].reads \cup ({opts[i].mut} \ {none})

InstsOf(v) == {i \in DOMAIN opts : v \in Uses(i)}

\* The jumps back, each with the place of its label.
BackJumps ==
    UNION {{[from |-> i, head |-> head] : head \in {h \in Places(opts[i].label) : h < i}} :
               i \in {k \in Jumps : opts[k].type \in {"JumpIfFalse", "Jump"}}}

\* The way back is not taken into account.
faultyFindLastusage(v, back) == Max({0} \cup InstsOf(v))

\* findLastusage: the last instruction that has v, or a jump back to a label
\* before one that has it.
findLastusage(v, back) ==
    LET insts == InstsOf(v)
    IN  Max({0} \cup insts \cup
            {jump.from : jump \in {b \in back : insts \cap b.head .. b.from - 1 # {}}})

\* generateSingleInst: the instructions of a later line than all before.
NewLines == {i \in DOMAIN opts : \A j \in 1 .. i - 1 : opts[j].line < opts[i].line}

\* decommissionAllTempVars, at instruction i that starts a line.
decommissionedAt(i, v) ==
    v \notin gen.nonTemporaryVars /\ InstsOf(v) \cap 1 .. i - 1 # {}

\* Where v is gone: behind its last use, or from the start of a line on.
GoneAfterLastUse(v, back) ==
    LET last == findLastusage(v, back)
    IN  IF last \in InstsOf(v) THEN last + 1 .. Len(opts) ELSE {}

GoneAtNewLine(v, newLines) ==
    LET starts == {i \in newLines : decommissionedAt(i, v)}
    IN  IF starts = {} THEN {} ELSE Min(starts) .. Len(opts)

-----------------------------------------------------------------------------
(* Paths through the instructions, for the properties.                     *)

Leads(i) ==
    CASE opts[i].type \in {"Return", "EndProc"} -> {}
      [] opts[i].type = "Jump" -> Places(opts[i].label)
      [] opts[i].type \in {"JumpIfFalse", "ShortJumpIfFalse"} -> {i + 1} \cup Places(opts[i].label)
      [] OTHER -> {i + 1}

\* The instructions that can come after the ones of "seen", as long as v has not
\* been written: an instruction that writes v ends the path.  "last" are the
\* ones of "seen" whose successors are not yet in it.
RECURSIVE Reached(_, _, _, _)
Reached(leads, v, seen, last) ==
    IF last = {} THEN seen
    ELSE LET next == UNION {leads[i] : i \in {j \in last : opts[j].mut # v}}
         IN  Reached(leads, v, seen \cup next, next \ seen)

\* Some path from the instructions of S reads v before it writes it.
Needed(leads, S, v) == \E i \in Reached(leads, v, S, S) : v \in opts[i].reads

-----------------------------------------------------------------------------
(* Properties.                                                             *)

\* No instruction of S has v (for the generator that would be to "revive a
\* decommissioned variable"), and none leads back to one that still needs it.
Dispensable(leads, v, S) ==
    S # {} => InstsOf(v) \cap S = {} /\ ~ Needed(leads, S, v)

\* As a sequence.
Successors == [i \in DOMAIN opts |-> Leads(i)] \o <<>>

\* Behind the last use of a variable no path reads the value it had, around
\* loops either, and the generator never comes to the variable again.
LastUsageIsLast ==
    Finished => LET leads == Successors
                    back == BackJumps
                IN  \A v \in Variable : Dispensable(leads, v, GoneAfterLastUse(v, back))

\* The same of a temporary, behind the line that it was used on.
TemporariesDie ==
    Finished => LET leads == Successors
                    newLines == NewLines
                IN  \A v \in Variable : Dispensable(leads, v, GoneAtNewLine(v, newLines))

\* A variable is read only where every path has given it a value.  In
\* "this statement the name on the rhs refers to the var in the outer scope".
ReadsDefined ==
    Finished => LET leads == Successors
                IN  \A v \in Variable : v >= Len(Args) => ~ Needed(leads, {1}, v)

=============================================================================
