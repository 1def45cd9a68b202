------------------------------ MODULE Peephole ------------------------------
(***************************************************************************)
(* Peephole::OptimiseFile(): the lines a target wrote are gone through from *)
(* the first to the last, the first rule which fits the lines standing at a *)
(* place is carried out there, and the lines which are left are gone        *)
(* through again until no rule fits anywhere.                               *)
(*                                                                          *)
(* A line is a label or an instruction with its operand, and a text is the  *)
(* sequence of the pieces the rules can tell apart.                         *)
(***************************************************************************)
EXTENDS Integers, Sequences, LineMachine

CONSTANTS Targets,      \* the machines which have the pass
          Programs,     \* of each of them, the codes it is given
          Unreliable,   \* whether the file may refuse to be read or written
          Tested        \* how many of the tests of a run may come out either way

ASSUME TargetsAssumption == Targets \subseteq {"m6809", "arm64", "x86"}
ASSUME ProgramsAssumption ==
    /\ Programs \in [Targets -> SUBSET Codes]
    /\ \A machine \in Targets : \A one \in Programs[machine] : WellWritten(one)
ASSUME UnreliableAssumption == Unreliable \in BOOLEAN
ASSUME TestedAssumption == Tested \in Nat

VARIABLES
    target,
    source,     \* the lines the code generator wrote, a ghost
    file,       \* what stands in the file of code
    code,       \* the lines a pass goes through
    at,         \* the line it has come to
    written,    \* the lines it leaves
    fired,      \* whether a rule was carried out in it
    status      \* how far the file is: "written" and "cut short" answer alike

vars == <<target, source, file, code, at, written, fired, status>>

-----------------------------------------------------------------------------
\* ParseLine(): what a line is read as, of the code or of a rule.  A label is a
\* line of the name ":".
Instruction(name, operand) == [name |-> name, operand |-> operand]
Label(label) == Instruction(":", <<label>>)

Part == {"%1", "%2"}

Rule(matched, kept) == [matched |-> matched, kept |-> kept]
Both == <<"%1", ",", "%2">>
Swapped == <<"%2", ",", "%1">>

\* The mutant of StoreAndLoad() which does not ask for one place twice.
StoreAndAnyLoad(store, load, operand) ==
    Rule(<<Instruction(store, operand),
           Instruction(load, IF operand = Both THEN Both ELSE <<"%2">>)>>,
         <<Instruction(store, operand)>>)

StoreAndLoad(store, load, operand) ==
    Rule(<<Instruction(store, operand), Instruction(load, operand)>>,
         <<Instruction(store, operand)>>)

\* The mutant of JumpToNext() which leaves the jump where it is.
JumpAndNext(jump) ==
    LET both == <<Instruction(jump, <<"%1">>), Label("%1")>> IN Rule(both, both)

JumpToNext(jump) ==
    Rule(<<Instruction(jump, <<"%1">>), Label("%1")>>, <<Label("%1")>>)

M6809Rules == << StoreAndLoad("std", "ldd", <<"%1">>),
                 StoreAndLoad("stx", "ldx", <<"%1">>),
                 JumpToNext("jmp") >>

Arm64Rules == << StoreAndLoad("str", "ldr", Both),
                 StoreAndLoad("strb", "ldrb", Both),
                 JumpToNext("b") >>

X86Rules == << Rule(<<Instruction("movq", Both), Instruction("movq", Swapped)>>,
                    <<Instruction("movq", Both)>>),
               JumpToNext("jmp") >>

Rules == CASE target = "m6809" -> M6809Rules
           [] target = "arm64" -> Arm64Rules
           [] OTHER -> X86Rules

-----------------------------------------------------------------------------
\* Substituted(): a shape with its parts written out.
Substituted(shape, parts) ==
    LET text[k \in 0 .. Len(shape)] ==
            IF k = 0 THEN <<>>
            ELSE text[k - 1] \o (IF shape[k] \in Part THEN parts[shape[k]] ELSE <<shape[k]>>)
    IN  text[Len(shape)]

\* A part which is not the last of its shape ends where what follows it first
\* stands in the text.
EndsFirst(shape, parts) ==
    \A k \in 1 .. Len(shape) - 1 :
        shape[k] \in Part => \A n \in 1 .. Len(parts[shape[k]]) :
                                parts[shape[k]][n] # shape[k + 1]

\* MatchesShape(): the text is the shape with what the parts hold in it, the
\* same wherever a part is written.
MatchesShape(shape, text, parts) ==
    EndsFirst(shape, parts) /\ text = Substituted(shape, parts)

\* Matches() of a line.
MatchesLine(wanted, line, parts) ==
    wanted.name = line.name /\ MatchesShape(wanted.operand, line.operand, parts)

Pieces(text) == {SubSeq(text, m, n) : m, n \in 1 .. Len(text)} \ {<<>>}

\* What the parts of a rule may hold at a place: some of a line, never nothing.
PartsAt(rule, lines, place) ==
    [Part -> UNION {Pieces(lines[n].operand) :
                        n \in (place .. place + Len(rule.matched) - 1) \cap DOMAIN lines}]

\* Matches() of a rule: the lines standing at a place, all of them.
Matches(rule, lines, place, parts) ==
    /\ Len(rule.matched) <= Len(lines) - place + 1
    /\ \A k \in 1 .. Len(rule.matched) :
            MatchesLine(rule.matched[k], lines[place + k - 1], parts)

Fits(rule, lines, place) ==
    \E parts \in PartsAt(rule, lines, place) : Matches(rule, lines, place, parts)

\* Written(): the lines a rule leaves.
Kept(rule, parts) ==
    [k \in 1 .. Len(rule.kept) |->
        Instruction(rule.kept[k].name, Substituted(rule.kept[k].operand, parts))]

NothingFits(lines, place) == \A n \in 1 .. Len(Rules) : ~Fits(Rules[n], lines, place)

-----------------------------------------------------------------------------
Init ==
    /\ target \in Targets
    /\ source \in Programs[target]
    /\ file = source
    /\ code = <<>> /\ written = <<>>
    /\ at = 1
    /\ fired = FALSE
    /\ status = "unread"

Fail == status' = "failed"

ReadCode ==
    /\ status = "unread"
    /\ code' = file
    /\ status' = "passing"
    /\ UNCHANGED <<target, source, file, at, written, fired>>

CannotRead ==
    /\ status = "unread" /\ Unreliable
    /\ Fail
    /\ UNCHANGED <<target, source, file, code, at, written, fired>>

KeepLine ==
    /\ status = "passing" /\ at <= Len(code)
    /\ NothingFits(code, at)
    /\ written' = Append(written, code[at])
    /\ at' = at + 1
    /\ UNCHANGED <<target, source, file, code, fired, status>>

\* The first of the rules which fit is the one which is carried out.
Rewrite ==
    /\ status = "passing" /\ at <= Len(code)
    /\ \E n \in 1 .. Len(Rules) : \E parts \in PartsAt(Rules[n], code, at) :
            /\ Matches(Rules[n], code, at, parts)
            /\ \A m \in 1 .. n - 1 : ~Fits(Rules[m], code, at)
            /\ written' = written \o Kept(Rules[n], parts)
            /\ at' = at + Len(Rules[n].matched)
    /\ fired' = TRUE
    /\ UNCHANGED <<target, source, file, code, status>>

\* The mutant of Again which takes one pass to be enough.
NotAgain == FALSE

\* Whether the lines which are left are gone through again.
Again == fired

\* The mutant of NextPass which goes on writing behind the lines of the last pass.
NextPassBehind ==
    /\ status = "passing" /\ at > Len(code) /\ Again
    /\ code' = written
    /\ at' = 1
    /\ fired' = FALSE
    /\ UNCHANGED <<target, source, file, written, status>>

NextPass ==
    /\ status = "passing" /\ at > Len(code) /\ Again
    /\ code' = written /\ written' = <<>>
    /\ at' = 1
    /\ fired' = FALSE
    /\ UNCHANGED <<target, source, file, status>>

WriteBack ==
    /\ status = "passing" /\ at > Len(code) /\ ~Again
    /\ file' = written
    /\ status' = "written"
    /\ UNCHANGED <<target, source, code, at, written, fired>>

\* The file is cut to nothing when it is opened, and holds what was written
\* until the writing failed.
Beginnings == {SubSeq(written, 1, n) : n \in 0 .. Len(written) - 1}

CannotWrite ==
    /\ status = "passing" /\ at > Len(code) /\ ~Again /\ Unreliable
    /\ file' \in {file} \cup Beginnings
    /\ Fail
    /\ UNCHANGED <<target, source, code, at, written, fired>>

\* The stream is asked before the last of the lines leave its buffer: where
\* these do not reach the disk, OptimiseFile() answers as if they had.
WriteCutShort ==
    /\ status = "passing" /\ at > Len(code) /\ ~Again /\ Unreliable
    /\ file' \in Beginnings
    /\ status' = "cut short"
    /\ UNCHANGED <<target, source, code, at, written, fired>>

Ended == status \in {"written", "cut short", "failed"}

Next ==
    \/ ReadCode \/ CannotRead
    \/ KeepLine \/ Rewrite \/ NextPass
    \/ WriteBack \/ CannotWrite \/ WriteCutShort
    \/ Ended /\ UNCHANGED vars

Spec == Init /\ [][Next]_vars

\* The pass is straight code: it goes on while it can.
FairSpec == Spec /\ WF_vars(Next)

-----------------------------------------------------------------------------
\* A pass is on a line of the code or behind the last one, and what it has left
\* is no longer than what it has gone through, shorter where a rule was carried
\* out.
TypeOK ==
    /\ target \in Targets /\ source \in Programs[target]
    /\ status \in {"unread", "passing", "written", "cut short", "failed"}
    /\ fired \in BOOLEAN
    /\ at \in 1 .. Len(code) + 1
    /\ Len(written) + (IF fired THEN 1 ELSE 0) < at

\* Peephole::Optimise() and the rules of each machine: the code which is left
\* does what the code the generator wrote does, whichever way the tests in it go
\* and whatever the registers and the memory hold to begin with, but for the
\* places of a char, Bytes: these are taken to hold a byte, which is what the
\* comment above the rule of strb says of a char and what Arm64Codegen::Add()
\* does not see to.  Code which was cut short as it was written is not spoken of.
RunsAlike ==
    status = "written" =>
        \A answers \in [1 .. Tested -> BOOLEAN] :
            Alike(source, file, answers, (Tested + 2) * (Len(source) + 1))

\* A rule which makes room for another one has it carried out as well: no rule
\* fits the code which is written back, anywhere, nor the beginning of it which a
\* full disk leaves.
NothingLeftToRewrite ==
    status \in {"written", "cut short"} => \A place \in 1 .. Len(file) : NothingFits(file, place)

\* Every rule leaves fewer lines than it matched, so the passes come to an end.
PassesEnd == <>Ended

=============================================================================
