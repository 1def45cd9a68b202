------------------------------- MODULE Driver -------------------------------
(***************************************************************************)
(* Driver::Run(): the stages every input file is put through, and the      *)
(* files each of them makes and takes away in the directory the compiler   *)
(* was run in.  A file is what it was made from and how far it got; a      *)
(* stage which is another program either does its work or fails, and may   *)
(* leave part of its output behind when it fails.                          *)
(***************************************************************************)
EXTENDS Integers, Sequences, FiniteSets, SequencesExt

CONSTANTS Sources,      \* the files which can be named: [dir, base, dotted]
          Targets,      \* "machine", "translated" (QBE) or "built" (6809)
          Faults        \* what may go wrong

ASSUME SourcesAssumption == IsFiniteSet(Sources)
ASSUME TargetsAssumption == Targets \subseteq {"machine", "translated", "built"}
ASSUME DriverFaultsAssumption ==
    Faults \subseteq {"tool", "inspect", "source", "disk full"}

VARIABLES
    target, stop,       \* what the compiler was built for, and -c, -S or "link"
    inputs,
    before,             \* the files there were when it was started
    files,
    k,                  \* the input file which is worked on
    at,
    code_existed, assembly_existed, objects, created_objects,
    written, created,   \* the ones of BuildProgram()
    status,             \* what the program exits with
    abandoned           \* it exits without a look at what it made, a ghost

asked == <<target, stop, inputs, before>>
existed == <<code_existed, assembly_existed>>
lists == <<objects, created_objects, written, created>>
vars == <<asked, files, k, at, existed, lists, status, abandoned>>

-----------------------------------------------------------------------------
CodeSuffix == IF target = "translated" THEN "q" ELSE "s"

\* ReplaceSuffix(): the directory is left out, so that what a compilation
\* makes stands where the compiler was run.
ReplaceSuffix(source, suffix) == <<source.base, suffix>>

Bases == {source.base : source \in {some \in Sources : some.dotted}}
Output == <<"a", "out">>
FileNames == (Bases \X {"q", "s", "o"}) \cup {Output}

NoFile == [stage |-> "none", of |-> <<>>, whole |-> FALSE]
UserFile == [NoFile EXCEPT !.stage = "user"]
Made(stage, of, whole) == [stage |-> stage, of |-> of, whole |-> whole]
Exists(name) == files[name] # NoFile

With(some, name, content) == [some EXCEPT ![name] = content]
Without(some, names) ==
    [name \in FileNames |-> IF name \in names THEN NoFile ELSE some[name]]

Source == inputs[k]
CodeOf(source) == ReplaceSuffix(source, CodeSuffix)
Code == CodeOf(Source)
Assembly == ReplaceSuffix(Source, "s")
Object == ReplaceSuffix(Source, "o")

\* Every order the sources can be named in, with none of them named twice.
Inputs == UNION {SetToSeqs(some) : some \in SUBSET Sources \ {{}}}

Running == -1

Init ==
    /\ target \in Targets
    /\ stop \in {"link", "-c", "-S"}
    /\ inputs \in Inputs
    /\ before \in [FileNames -> {NoFile, UserFile}]
    /\ files = before
    /\ k = 1
    /\ at = "begin"
    /\ code_existed = FALSE /\ assembly_existed = FALSE
    /\ objects = <<>> /\ created_objects = {}
    /\ written = <<>> /\ created = {}
    /\ status = Running
    /\ abandoned = FALSE

-----------------------------------------------------------------------------
Exit(code) == at' = "exit" /\ status' = code

\* The mutant of GiveUp() which leaves what was made so far.
GiveUpAtOnce(left, removed) == Exit(1) /\ files' = left

\* A stage which failed ends the run.  Only BuildProgram() takes away what was
\* made so far.
GiveUp(left, removed) ==
    /\ Exit(1)
    /\ files' = IF target = "built" THEN Without(left, removed) ELSE left

\* The options or the configured commands cannot be used, or -c was asked of a
\* target which has no object files.
Begin ==
    /\ at = "begin"
    /\ \/ at' = "source" /\ ~(target = "built" /\ stop = "-c") /\ UNCHANGED status
       \/ Exit(1)
    /\ UNCHANGED <<asked, files, k, existed, lists, abandoned>>

NextSource ==
    /\ at = "source" /\ k <= Len(inputs)
    /\ \/ /\ Source.dotted
          /\ code_existed' = Exists(Code)
          /\ at' = "compile"
          /\ UNCHANGED <<files, status>>
       \/ /\ ~Source.dotted \/ "inspect" \in Faults
          /\ GiveUp(files, created)
          /\ UNCHANGED code_existed
    /\ UNCHANGED <<asked, k, assembly_existed, lists, abandoned>>

LastSource ==
    /\ at = "source" /\ k > Len(inputs)
    /\ IF stop = "link" THEN at' = "link" /\ UNCHANGED status ELSE Exit(0)
    /\ UNCHANGED <<asked, files, k, existed, lists, abandoned>>

\* BuildProgram() takes down the file of code, the other targets go on with it
\* unless -S asked for it.
Compiled ==
    IF target = "built" \/ stop = "-S"
    THEN /\ at' = "source" /\ k' = k + 1
         /\ IF target = "built"
            THEN /\ written' = Append(written, Code)
                 /\ created' = IF code_existed THEN created ELSE created \cup {Code}
            ELSE UNCHANGED <<written, created>>
         /\ UNCHANGED assembly_existed
    ELSE /\ at' = IF target = "translated" THEN "translate" ELSE "assemble"
         /\ assembly_existed' = code_existed
         /\ UNCHANGED <<k, written, created>>

\* The code is written while the tree is walked and read and written again by
\* the peephole optimiser.  Whether all of it reached the disk is not asked.
CompileToCode ==
    /\ at = "compile"
    /\ \E whole \in IF "disk full" \in Faults THEN BOOLEAN ELSE {TRUE} :
            files' = With(files, Code, Made("code", <<Source>>, whole))
    /\ Compiled
    /\ UNCHANGED <<asked, code_existed, objects, created_objects, status, abandoned>>

\* The preprocessor failed, or the code which was written cannot be opened.
\* BuildProgram() looks whether there is code to be taken away now, and leaves
\* it where it cannot look.
CompileToCodeFails ==
    /\ at = "compile" /\ "tool" \in Faults
    /\ \E left \in {files, With(files, Code, Made("code", <<Source>>, TRUE))} :
            \/ /\ GiveUp(left, IF code_existed THEN created ELSE created \cup {Code})
               /\ UNCHANGED abandoned
            \/ /\ "inspect" \in Faults
               /\ GiveUp(left, created)
               /\ abandoned' = TRUE
    /\ UNCHANGED <<asked, k, existed, lists>>

\* An error in the source is an exception which main() ends on, and may come
\* when part of the code was written.  A file of code which cannot be opened
\* ends the program on the spot.
CompilerError ==
    /\ at = "compile" /\ "source" \in Faults
    /\ files' \in {files, With(files, Code, Made("code", <<Source>>, FALSE))}
    /\ Exit(1)
    /\ abandoned' = TRUE
    /\ UNCHANGED <<asked, k, existed, lists>>

\* A tool which fails may leave something behind under the name of its output.
Leftovers(name) == {files, With(files, name, Made("broken", <<>>, FALSE))}

\* QBE makes the assembly out of the code.
Translate ==
    /\ at = "translate"
    /\ assembly_existed' = Exists(Assembly)
    /\ files' = With(files, Assembly,
                     Made("assembly", files[Code].of, files[Code].whole))
    /\ at' = "assemble"
    /\ UNCHANGED <<asked, k, code_existed, lists, status, abandoned>>

\* The mutant of UsedUp which forgets the assembly QBE made.
UsedUpCodeOnly == IF code_existed THEN {} ELSE {Code}

\* The mutant of UsedUp which forgets that they may have been there.
UsedUpAlways == {Code, Assembly}

\* The code and the assembly are taken away once there is an object file,
\* unless they were there before.
UsedUp ==
    (IF code_existed THEN {} ELSE {Code})
        \cup (IF assembly_existed \/ Assembly = Code THEN {} ELSE {Assembly})

\* The mutant of ObjectsWith() which begins the list again.
ObjectsOnly(object) == <<object>>

\* The object files in the order the linker is given them.
ObjectsWith(object) == Append(objects, object)

\* The mutant of CreatedWith() which takes every object file for its own.
CreatedWithAny(object) == created_objects \cup {object}

\* The object files the linker is the only one to need.
CreatedWith(object) ==
    IF Exists(object) THEN created_objects ELSE created_objects \cup {object}

Assemble ==
    /\ at = "assemble"
    /\ files' = Without(With(files, Object, Made("object", files[Assembly].of,
                                                 files[Assembly].whole)),
                        UsedUp)
    /\ at' = "source" /\ k' = k + 1
    /\ objects' = ObjectsWith(Object)
    /\ created_objects' = CreatedWith(Object)
    /\ UNCHANGED <<asked, existed, written, created, status, abandoned>>

\* QBE or the assembler failed, or could not be asked what is there already.
MakingObjectFails ==
    /\ at \in {"translate", "assemble"}
    /\ Faults \cap {"tool", "inspect"} # {}
    /\ \E left \in Leftovers(IF at = "translate" THEN Assembly ELSE Object) :
            GiveUp(left, {})
    /\ UNCHANGED <<asked, k, existed, lists, abandoned>>

\* The program is what the files named on the command line of the linker, or
\* of the tool of the target, hold at that time.
ProgramOf(names) ==
    Made("program",
         [i \in 1 .. Len(names) |->
             IF files[names[i]].of = <<>> THEN NoFile ELSE files[names[i]].of[1]],
         \A i \in 1 .. Len(names) : files[names[i]].whole)

Parts == IF target = "built" THEN written ELSE objects
Intermediate == IF target = "built" THEN created ELSE created_objects

Link ==
    /\ at = "link"
    /\ files' = Without(With(files, Output, ProgramOf(Parts)), Intermediate)
    /\ Exit(0)
    /\ UNCHANGED <<asked, k, existed, lists, abandoned>>

\* The linker or the tool of the target failed, or it could not be asked
\* whether the runtime is there.
LinkFails ==
    /\ at = "link" /\ Faults \cap {"tool", "inspect"} # {}
    /\ \E left \in Leftovers(Output) : GiveUp(left, created)
    /\ UNCHANGED <<asked, k, existed, lists, abandoned>>

Next ==
    \/ Begin \/ NextSource \/ LastSource
    \/ CompileToCode \/ CompileToCodeFails \/ CompilerError
    \/ Translate \/ Assemble \/ MakingObjectFails
    \/ Link \/ LinkFails
    \/ at = "exit" /\ UNCHANGED vars

Spec == Init /\ [][Next]_vars

-----------------------------------------------------------------------------
\* The files stand under the names there can be and the run ends with a status.
TypeOK ==
    /\ DOMAIN files = FileNames
    /\ k \in 1 .. Len(inputs) + 1
    /\ status \in {Running, 0, 1}
    /\ status = Running <=> at # "exit"
    /\ created \cup created_objects \subseteq {name \in FileNames : before[name] = NoFile}

\* Status zero: everything which was asked for was done, for every input file
\* and in the order they were named.
EverythingDone ==
    status = 0 =>
        CASE stop = "link" -> files[Output] = Made("program", inputs, TRUE)
          [] stop = "-c" -> \A i \in 1 .. Len(inputs) :
                files[ReplaceSuffix(inputs[i], "o")] = Made("object", <<inputs[i]>>, TRUE)
          [] stop = "-S" -> \A i \in 1 .. Len(inputs) :
                files[CodeOf(inputs[i])] = Made("code", <<inputs[i]>>, TRUE)

\* No file which was there before the run is taken away by it, whichever
\* stage fails.
UserFilesStay == \A name \in FileNames : before[name] # NoFile => Exists(name)

AskedFor ==
    CASE stop = "link" -> {Output}
      [] stop = "-c" -> {ReplaceSuffix(inputs[i], "o") : i \in 1 .. Len(inputs)}
      [] stop = "-S" -> {CodeOf(inputs[i]) : i \in 1 .. Len(inputs)}

\* A run which did its work leaves nothing new but what was asked for.
NothingElseLeft ==
    status = 0 => \A name \in FileNames \ AskedFor :
                        before[name] = NoFile => ~Exists(name)

\* A target which builds its own programs leaves no code behind when a stage
\* failed, unless an exception took it past the place where that is done.
FailedBuildCleansUp ==
    target = "built" /\ status = 1 /\ ~abandoned =>
        \A name \in FileNames \ {Output} : before[name] = NoFile => ~Exists(name)

\* nuocc_driver.hpp of the status: zero when everything asked for was done, the
\* code -S asks for included.
CodeForEachInput ==
    status = 0 /\ stop = "-S" =>
        \A i \in 1 .. Len(inputs) : files[CodeOf(inputs[i])].whole

=============================================================================
