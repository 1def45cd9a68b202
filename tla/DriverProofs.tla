---------------------------- MODULE DriverProofs ----------------------------
(***************************************************************************)
(* The directory of the user, for any input files, any of the targets and  *)
(* any of the faults: what was there stays, a run which did its work       *)
(* leaves nothing new but what was asked for, and a target which builds    *)
(* its own programs cleans up after a failure.  Only which names are taken *)
(* counts for that.  What the files hold comes second: a run which ends    *)
(* with status zero did all it was asked for.                              *)
(***************************************************************************)
EXTENDS Driver, FiniteSetTheorems, TLAPS

\* The names which are taken in a directory.
Taken(some) == {name \in FileNames : some[name] # NoFile}

Old == Taken(before)
Here == Taken(files)

Working == at \in {"compile", "translate", "assemble"}

-----------------------------------------------------------------------------
LEMMA MadeIsAFile ==
    ASSUME NEW stage, NEW of, NEW whole, stage # "none"
    PROVE  Made(stage, of, whole) # NoFile
<1>1. Made(stage, of, whole).stage = stage /\ NoFile.stage = "none"
  BY DEF Made, NoFile
<1>2. QED
  BY <1>1

LEMMA WithTakes ==
    ASSUME NEW some, DOMAIN some = FileNames, NEW name \in FileNames,
           NEW content, content # NoFile
    PROVE  /\ DOMAIN With(some, name, content) = FileNames
           /\ Taken(With(some, name, content)) = Taken(some) \cup {name}
BY DEF With, Taken

LEMMA WithoutFrees ==
    ASSUME NEW some, NEW names
    PROVE  /\ DOMAIN Without(some, names) = FileNames
           /\ Taken(Without(some, names)) = Taken(some) \ names
BY DEF Without, Taken

LEMMA GiveUpFrees ==
    ASSUME NEW left, NEW removed, DOMAIN left = FileNames, GiveUp(left, removed)
    PROVE  /\ DOMAIN files' = FileNames
           /\ Here' = IF target = "built" THEN Taken(left) \ removed ELSE Taken(left)
           /\ at' = "exit" /\ status' = 1
<1>1. at' = "exit" /\ status' = 1
  BY DEF GiveUp, Exit
<1>2. CASE target = "built"
  <2>1. files' = Without(left, removed)
    BY <1>2 DEF GiveUp
  <2>2. QED
    BY <1>1, <1>2, <2>1, WithoutFrees DEF Here, Taken
<1>3. CASE target # "built"
  <2>1. files' = left
    BY <1>3 DEF GiveUp
  <2>2. QED
    BY <1>1, <1>3, <2>1 DEF Here, Taken
<1>4. QED
  BY <1>2, <1>3

LEMMA LeftoversTake ==
    ASSUME DOMAIN files = FileNames, NEW name \in FileNames, NEW left \in Leftovers(name)
    PROVE  DOMAIN left = FileNames /\ Taken(left) \in {Here, Here \cup {name}}
<1> DEFINE broken == Made("broken", <<>>, FALSE)
<1>1. broken # NoFile
  BY MadeIsAFile
<1>2. left = files \/ left = With(files, name, broken)
  BY DEF Leftovers
<1> HIDE DEF broken
<1>3. CASE left = files
  BY <1>3 DEF Here
<1>4. CASE left = With(files, name, broken)
  BY <1>1, <1>4, WithTakes DEF Here
<1>5. QED
  BY <1>2, <1>3, <1>4

\* The names an input file with a suffix gives are names there can be.
LEMMA NamesOfSource ==
    ASSUME NEW source \in Sources, source.dotted, NEW suffix \in {"q", "s", "o"}
    PROVE  ReplaceSuffix(source, suffix) \in FileNames
BY DEF ReplaceSuffix, FileNames, Bases

LEMMA InputsAreSources ==
    ASSUME NEW some \in Inputs
    PROVE  Len(some) \in Nat /\ \A i \in 1 .. Len(some) : some[i] \in Sources
<1>1. PICK chosen \in SUBSET Sources \ {{}} : some \in SetToSeqs(chosen)
  BY DEF Inputs
<1>2. Cardinality(chosen) \in Nat
  BY SourcesAssumption, FS_Subset, FS_CardinalityType
<1>3. some \in [1 .. Cardinality(chosen) -> chosen]
  BY <1>1 DEF SetToSeqs
<1>4. Len(some) = Cardinality(chosen)
  BY <1>2, <1>3
<1>5. QED
  BY <1>2, <1>3, <1>4

-----------------------------------------------------------------------------
TypeInv ==
    /\ target \in Targets
    /\ stop \in {"link", "-c", "-S"}
    /\ Len(inputs) \in Nat
    /\ \A i \in 1 .. Len(inputs) : inputs[i] \in Sources
    /\ DOMAIN files = FileNames
    /\ k \in 1 .. Len(inputs) + 1
    /\ status \in {Running, 0, 1}
    /\ status = Running <=> at # "exit"

\* Where the run may be, for its target and what it was asked for.
StageInv ==
    /\ Working => k <= Len(inputs) /\ Source.dotted
    /\ at \in {"translate", "assemble"} => target # "built" /\ stop # "-S"
    /\ at = "link" => stop = "link"
    /\ at = "begin" => created = {}
    /\ IF target = "built" THEN created_objects = {} ELSE created = {}
    /\ target = "built" /\ stop = "-c" => at \in {"begin", "exit"}

\* What may be taken away was not there before.
KeepInv ==
    /\ Old \subseteq Here
    /\ created \cup created_objects \subseteq FileNames \ Old
    /\ Working /\ ~code_existed => Code \notin Old
    /\ at = "assemble" /\ ~assembly_existed => Assembly \notin Old

\* The names the assembler's stage will free.
InWork ==
    CASE at = "translate" -> IF code_existed THEN {} ELSE {Code}
      [] at = "assemble" -> UsedUp
      [] OTHER -> {}

\* What is new was asked for or is on a list of what will be taken away.
NewInv ==
    /\ Working /\ code_existed => Code \in Here
    /\ stop # "link" => created \cup created_objects \subseteq AskedFor
    /\ at # "exit" =>
           Here \ Old \subseteq AskedFor \cup created \cup created_objects \cup InWork
    /\ target = "built" /\ at # "exit" => Here \ Old \subseteq created
    /\ status = 0 => Here \ Old \subseteq AskedFor
    /\ target = "built" /\ status = 1 /\ ~abandoned => Here \ Old \subseteq {Output}

IInv == TypeInv /\ StageInv /\ KeepInv /\ NewInv

-----------------------------------------------------------------------------
LEMMA SameQuestion ==
    ASSUME UNCHANGED asked
    PROVE  /\ target' = target /\ stop' = stop /\ inputs' = inputs /\ before' = before
           /\ Old' = Old
           /\ AskedFor' = AskedFor
BY DEF asked, Old, AskedFor, CodeOf, CodeSuffix, Taken

LEMMA SameSource ==
    ASSUME UNCHANGED asked, k' = k
    PROVE  Source' = Source /\ Code' = Code /\ Assembly' = Assembly /\ Object' = Object
BY DEF asked, Source, Code, CodeOf, CodeSuffix, Assembly, Object

LEMMA SameFiles ==
    ASSUME files' = files
    PROVE  Here' = Here
BY DEF Here, Taken

LEMMA NamesOfWork ==
    ASSUME TypeInv, k <= Len(inputs), Source.dotted
    PROVE  /\ Code \in FileNames /\ Assembly \in FileNames /\ Object \in FileNames
           /\ stop = "-S" => Code \in AskedFor
           /\ stop = "-c" => Object \in AskedFor
<1>1. k \in 1 .. Len(inputs) /\ Source \in Sources
  BY DEF TypeInv, Source
<1>2. CodeSuffix \in {"q", "s", "o"}
  BY DEF CodeSuffix
<1>3. Code \in FileNames /\ Assembly \in FileNames /\ Object \in FileNames
  BY <1>1, <1>2, NamesOfSource DEF Code, CodeOf, Assembly, Object
<1>4. stop = "-S" => Code \in AskedFor
  BY <1>1 DEF AskedFor, Code, Source
<1>5. stop = "-c" => Object \in AskedFor
  BY <1>1 DEF AskedFor, Object, Source
<1>6. QED
  BY <1>3, <1>4, <1>5

LEMMA OutputIsAName == Output \in FileNames
BY DEF FileNames

LEMMA InitInvariant == Init => IInv
<1> SUFFICES ASSUME Init PROVE IInv
  OBVIOUS
<1>1. Here = Old
  BY DEF Init, Here, Old
<1>2. TypeInv
  BY InputsAreSources DEF Init, TypeInv, Running
<1>3. StageInv
  BY DEF Init, StageInv, Working
<1>4. KeepInv
  BY <1>1 DEF Init, KeepInv, Working
<1>5. NewInv
  BY <1>1 DEF Init, NewInv, Working, Running
<1>6. QED
  BY <1>2, <1>3, <1>4, <1>5 DEF IInv

-----------------------------------------------------------------------------
LEMMA BeginKeeps ==
    ASSUME IInv, Begin
    PROVE  IInv'
<1>1. UNCHANGED asked /\ files' = files /\ k' = k /\ UNCHANGED <<existed, lists, abandoned>>
  BY DEF Begin
<1>2. at = "begin" /\ \/ at' = "source" /\ ~(target = "built" /\ stop = "-c") /\ status' = status
                      \/ at' = "exit" /\ status' = 1
  BY DEF Begin, Exit
<1>3. Here' = Here /\ Old' = Old /\ AskedFor' = AskedFor
  BY <1>1, SameQuestion, SameFiles
<1>4. created' = created /\ created_objects' = created_objects /\ ~Working'
  BY <1>1, <1>2 DEF lists, Working
<1>5. TypeInv'
  BY <1>1, <1>2, SameQuestion DEF IInv, TypeInv, Running
<1>6. StageInv'
  BY <1>1, <1>2, <1>4, SameQuestion DEF IInv, StageInv
<1>7. KeepInv'
  BY <1>2, <1>3, <1>4 DEF IInv, KeepInv
<1>8. NewInv'
  BY <1>1, <1>2, <1>3, <1>4, SameQuestion
  DEF IInv, TypeInv, StageInv, NewInv, InWork, Running
<1>9. QED
  BY <1>5, <1>6, <1>7, <1>8 DEF IInv

\* A run which ends by giving up keeps the invariant when what it takes away is
\* on the list or was in work.
LEMMA GivingUpKeeps ==
    ASSUME IInv, UNCHANGED <<asked, k, lists>>, at # "exit",
           NEW left, NEW removed, DOMAIN left = FileNames, GiveUp(left, removed),
           Old \subseteq Taken(left), removed \cap Old = {},
           target = "built" /\ ~abandoned' =>
               (Taken(left) \ removed) \ Old \subseteq {Output}
    PROVE  IInv'
<1>1. /\ DOMAIN files' = FileNames
      /\ Here' = IF target = "built" THEN Taken(left) \ removed ELSE Taken(left)
      /\ at' = "exit" /\ status' = 1 /\ ~Working'
  BY GiveUpFrees DEF Working
<1>2. Old' = Old /\ AskedFor' = AskedFor /\ UNCHANGED <<target, stop, inputs, k>>
  BY SameQuestion
<1>3. created' = created /\ created_objects' = created_objects
  BY DEF lists
<1>4. TypeInv'
  BY <1>1, <1>2 DEF IInv, TypeInv, Running
<1>5. StageInv'
  BY <1>1, <1>2, <1>3 DEF IInv, StageInv
<1>6. KeepInv'
  BY <1>1, <1>2, <1>3 DEF IInv, KeepInv
<1>7. NewInv'
  BY <1>1, <1>2, <1>3 DEF IInv, NewInv
<1>8. QED
  BY <1>4, <1>5, <1>6, <1>7 DEF IInv

LEMMA NextSourceKeeps ==
    ASSUME IInv, NextSource
    PROVE  IInv'
<1>1. UNCHANGED asked /\ k' = k /\ UNCHANGED <<assembly_existed, lists, abandoned>>
  BY DEF NextSource
<1>2. at = "source" /\ k <= Len(inputs)
  BY DEF NextSource
<1>3. Old' = Old /\ AskedFor' = AskedFor /\ UNCHANGED <<target, stop, inputs>>
  BY <1>1, SameQuestion
<1>4. created' = created /\ created_objects' = created_objects
  BY <1>1 DEF lists
<1>5. CASE /\ Source.dotted
           /\ code_existed' = Exists(Code)
           /\ at' = "compile"
           /\ UNCHANGED <<files, status>>
  <2>1. Here' = Here /\ Source' = Source /\ Code' = Code /\ Working'
    BY <1>1, <1>5, SameFiles, SameSource DEF Working
  <2>2. Code \in FileNames
    BY <1>2, <1>5, NamesOfWork DEF IInv
  <2>3. code_existed' <=> Code \in Here
    BY <1>5, <2>2 DEF Exists, Here, Taken
  <2>4. TypeInv'
    BY <1>1, <1>2, <1>3, <1>5 DEF IInv, TypeInv
  <2>5. StageInv'
    BY <1>1, <1>2, <1>3, <1>4, <1>5, <2>1 DEF IInv, StageInv
  <2>6. KeepInv'
    BY <1>3, <1>4, <1>5, <2>1, <2>3 DEF IInv, KeepInv
  <2>7. NewInv'
    <3>1. InWork' = {} /\ InWork = {}
      BY <1>2, <1>5 DEF InWork
    <3>2. status' = Running /\ status = Running
      BY <1>2, <1>5 DEF IInv, TypeInv
    <3>3. QED
      BY <1>2, <1>3, <1>4, <1>5, <2>1, <2>3, <3>1, <3>2 DEF IInv, NewInv, Running
  <2>8. QED
    BY <2>4, <2>5, <2>6, <2>7 DEF IInv
<1>6. CASE GiveUp(files, created)
  <2>1. DOMAIN files = FileNames /\ Old \subseteq Taken(files) /\ created \cap Old = {}
    BY DEF IInv, TypeInv, KeepInv, Here
  <2>2. target = "built" => (Taken(files) \ created) \ Old \subseteq {Output}
    BY <1>2 DEF IInv, NewInv, Here
  <2>3. QED
    BY <1>1, <1>2, <1>6, <2>1, <2>2, GivingUpKeeps
<1>7. QED
  BY <1>5, <1>6 DEF NextSource

LEMMA LastSourceKeeps ==
    ASSUME IInv, LastSource
    PROVE  IInv'
<1>1. UNCHANGED asked /\ files' = files /\ k' = k /\ UNCHANGED <<existed, lists, abandoned>>
  BY DEF LastSource
<1>2. /\ at = "source"
      /\ \/ stop = "link" /\ at' = "link" /\ status' = status
         \/ stop # "link" /\ at' = "exit" /\ status' = 0
  BY DEF LastSource, Exit
<1>3. Here' = Here /\ Old' = Old /\ AskedFor' = AskedFor /\ UNCHANGED <<target, stop, inputs>>
  BY <1>1, SameQuestion, SameFiles
<1>4. created' = created /\ created_objects' = created_objects /\ ~Working'
  BY <1>1, <1>2 DEF lists, Working
<1>5. TypeInv'
  BY <1>1, <1>2, <1>3 DEF IInv, TypeInv, Running
<1>6. StageInv'
  BY <1>1, <1>2, <1>3, <1>4 DEF IInv, StageInv
<1>7. KeepInv'
  BY <1>2, <1>3, <1>4 DEF IInv, KeepInv
<1>8. NewInv'
  <2>1. InWork' = {} /\ InWork = {}
    BY <1>2 DEF InWork
  <2>2. status = Running
    BY <1>2 DEF IInv, TypeInv
  <2>3. QED
    BY <1>1, <1>2, <1>3, <1>4, <2>1, <2>2 DEF IInv, NewInv, Running
<1>9. QED
  BY <1>5, <1>6, <1>7, <1>8 DEF IInv

LEMMA CompileToCodeKeeps ==
    ASSUME IInv, CompileToCode
    PROVE  IInv'
<1>1. UNCHANGED asked /\ UNCHANGED <<code_existed, objects, created_objects, status, abandoned>>
  BY DEF CompileToCode
<1>2. at = "compile" /\ Working /\ k <= Len(inputs) /\ Source.dotted
  BY DEF CompileToCode, Working, IInv, StageInv
<1>3. /\ Code \in FileNames
      /\ stop = "-S" => Code \in AskedFor
  BY <1>2, NamesOfWork DEF IInv
<1>4. DOMAIN files' = FileNames /\ Here' = Here \cup {Code}
  <2>1. PICK whole : files' = With(files, Code, Made("code", <<Source>>, whole))
    BY DEF CompileToCode
  <2>2. Made("code", <<Source>>, whole) # NoFile
    BY MadeIsAFile
  <2>3. DOMAIN files = FileNames
    BY DEF IInv, TypeInv
  <2> DEFINE content == Made("code", <<Source>>, whole)
  <2> HIDE DEF content
  <2>4. files' = With(files, Code, content) /\ content # NoFile
    BY <2>1, <2>2 DEF content
  <2>5. /\ DOMAIN With(files, Code, content) = FileNames
        /\ Taken(With(files, Code, content)) = Taken(files) \cup {Code}
    BY <1>3, <2>3, <2>4, WithTakes
  <2>6. Here' = Taken(With(files, Code, content))
    BY <2>4 DEF Here, Taken
  <2>7. QED
    BY <2>4, <2>5, <2>6 DEF Here
<1>5. Old' = Old /\ AskedFor' = AskedFor /\ UNCHANGED <<target, stop, inputs>>
  BY <1>1, SameQuestion
<1>6. status = Running /\ status' = Running
  BY <1>1, <1>2 DEF IInv, TypeInv
<1>7. code_existed => Code \in Here
  BY <1>2 DEF IInv, NewInv
<1>8. ~code_existed => Code \notin Old
  BY <1>2 DEF IInv, KeepInv
<1>9. InWork = {}
  BY <1>2 DEF InWork
<1>10. CASE target = "built" \/ stop = "-S"
  <2>1. at' = "source" /\ k' = k + 1 /\ ~Working' /\ InWork' = {}
    BY <1>10 DEF CompileToCode, Compiled, Working, InWork
  <2>2. created' = IF target = "built" /\ ~code_existed THEN created \cup {Code} ELSE created
    BY <1>10 DEF CompileToCode, Compiled
  <2>3. TypeInv'
    BY <1>1, <1>2, <1>4, <1>5, <1>6, <2>1 DEF IInv, TypeInv
  <2>4. StageInv'
    BY <1>1, <1>2, <1>5, <2>1, <2>2 DEF IInv, StageInv
  <2>5. KeepInv'
    BY <1>1, <1>3, <1>4, <1>5, <1>8, <2>1, <2>2 DEF IInv, KeepInv
  <2>6. NewInv'
    <3>1. stop # "link" /\ target = "built" => stop = "-S"
      BY <1>2 DEF IInv, TypeInv, StageInv
    <3>2. Here \ Old \subseteq AskedFor \cup created \cup created_objects
      BY <1>2, <1>9 DEF IInv, NewInv
    <3>3. Here' \ Old' \subseteq AskedFor' \cup created' \cup created_objects'
      BY <1>1, <1>3, <1>4, <1>5, <1>7, <1>10, <2>2, <3>2
    <3>4. target = "built" => Here' \ Old' \subseteq created'
      BY <1>2, <1>4, <1>5, <1>7, <2>2 DEF IInv, NewInv
    <3>5. stop # "link" => created' \cup created_objects' \subseteq AskedFor'
      BY <1>1, <1>3, <1>5, <2>2, <3>1 DEF IInv, NewInv
    <3>6. QED
      BY <1>5, <1>6, <2>1, <3>3, <3>4, <3>5 DEF NewInv, Running
  <2>7. QED
    BY <2>3, <2>4, <2>5, <2>6 DEF IInv
<1>11. CASE ~(target = "built" \/ stop = "-S")
  <2>1. /\ at' = IF target = "translated" THEN "translate" ELSE "assemble"
        /\ assembly_existed' = code_existed
        /\ k' = k /\ created' = created
    BY <1>11 DEF CompileToCode, Compiled
  <2>2. Source' = Source /\ Code' = Code /\ Assembly' = Assembly
    BY <1>1, <2>1, SameSource
  <2>3. target # "translated" => Code = Assembly
    BY DEF Code, CodeOf, CodeSuffix, Assembly
  <2>4. TypeInv'
    BY <1>1, <1>4, <1>5, <1>6, <2>1 DEF IInv, TypeInv
  <2>5. StageInv'
    BY <1>1, <1>2, <1>5, <1>11, <2>1, <2>2 DEF IInv, StageInv
  <2>6. KeepInv'
    BY <1>1, <1>2, <1>4, <1>5, <1>8, <2>1, <2>2, <2>3 DEF IInv, KeepInv
  <2>7. NewInv'
    <3>1. ~code_existed => Code \in InWork'
      BY <1>1, <2>1, <2>2 DEF InWork, UsedUp
    <3>2. Here \ Old \subseteq AskedFor \cup created \cup created_objects
      BY <1>2, <1>9 DEF IInv, NewInv
    <3>3. Here' \ Old' \subseteq AskedFor' \cup created' \cup created_objects' \cup InWork'
      BY <1>1, <1>4, <1>5, <1>7, <2>1, <3>1, <3>2
    <3>4. QED
      BY <1>1, <1>4, <1>5, <1>6, <1>7, <1>11, <2>1, <2>2, <3>3 DEF IInv, NewInv, Running
  <2>8. QED
    BY <2>4, <2>5, <2>6, <2>7 DEF IInv
<1>12. QED
  BY <1>10, <1>11

LEMMA CompileToCodeFailsKeeps ==
    ASSUME IInv, CompileToCodeFails
    PROVE  IInv'
<1>1. UNCHANGED asked /\ UNCHANGED <<k, existed, lists>>
  BY DEF CompileToCodeFails
<1>2. at = "compile" /\ Working /\ k <= Len(inputs) /\ Source.dotted
  BY DEF CompileToCodeFails, Working, IInv, StageInv
<1>3. Code \in FileNames /\ DOMAIN files = FileNames
  BY <1>2, NamesOfWork DEF IInv, TypeInv
<1> DEFINE content == Made("code", <<Source>>, TRUE)
           more == IF code_existed THEN created ELSE created \cup {Code}
<1>4. PICK left \in {files, With(files, Code, content)} :
            \/ GiveUp(left, more) /\ abandoned' = abandoned
            \/ GiveUp(left, created) /\ abandoned' = TRUE
  BY DEF CompileToCodeFails
<1>5. content # NoFile
  BY MadeIsAFile
<1> HIDE DEF content
<1>6. DOMAIN left = FileNames /\ Taken(left) \in {Here, Here \cup {Code}}
  <2>1. CASE left = files
    BY <1>3, <2>1 DEF Here
  <2>2. CASE left = With(files, Code, content)
    BY <1>3, <1>5, <2>2, WithTakes DEF Here
  <2>3. QED
    BY <1>4, <2>1, <2>2
<1>7. more \cap Old = {} /\ created \cap Old = {} /\ Old \subseteq Taken(left)
  BY <1>2, <1>6 DEF IInv, KeepInv
<1>8. target = "built" => (Taken(left) \ more) \ Old \subseteq {Output}
  BY <1>2, <1>6 DEF IInv, NewInv
<1> HIDE DEF more
<1>9. CASE GiveUp(left, more)
  BY <1>1, <1>2, <1>6, <1>7, <1>8, <1>9, GivingUpKeeps
<1>10. CASE GiveUp(left, created) /\ abandoned' = TRUE
  BY <1>1, <1>2, <1>6, <1>7, <1>10, GivingUpKeeps
<1>11. QED
  BY <1>4, <1>9, <1>10

LEMMA CompilerErrorKeeps ==
    ASSUME IInv, CompilerError
    PROVE  IInv'
<1>1. UNCHANGED asked /\ UNCHANGED <<k, existed, lists>>
  BY DEF CompilerError
<1>2. at = "compile" /\ Working /\ k <= Len(inputs) /\ Source.dotted
  BY DEF CompilerError, Working, IInv, StageInv
<1>3. at' = "exit" /\ status' = 1 /\ abandoned' = TRUE /\ ~Working'
  BY DEF CompilerError, Exit, Working
<1>4. Code \in FileNames /\ DOMAIN files = FileNames
  BY <1>2, NamesOfWork DEF IInv, TypeInv
<1> DEFINE content == Made("code", <<Source>>, FALSE)
<1>5. files' \in {files, With(files, Code, content)}
  BY DEF CompilerError
<1>6. content # NoFile
  BY MadeIsAFile
<1> HIDE DEF content
<1>7. DOMAIN files' = FileNames /\ Here' \in {Here, Here \cup {Code}}
  <2>1. CASE files' = files
    BY <1>4, <2>1, SameFiles
  <2>2. CASE files' = With(files, Code, content)
    <3>1. /\ DOMAIN With(files, Code, content) = FileNames
          /\ Taken(With(files, Code, content)) = Here \cup {Code}
      BY <1>4, <1>6, WithTakes DEF Here
    <3>2. Here' = Taken(With(files, Code, content))
      BY <2>2 DEF Here, Taken
    <3>3. QED
      BY <2>2, <3>1, <3>2
  <2>3. QED
    BY <1>5, <2>1, <2>2
<1>8. Old' = Old /\ AskedFor' = AskedFor /\ UNCHANGED <<target, stop, inputs>>
  BY <1>1, SameQuestion
<1>9. created' = created /\ created_objects' = created_objects
  BY <1>1 DEF lists
<1>10. TypeInv'
  BY <1>1, <1>3, <1>7, <1>8 DEF IInv, TypeInv, Running
<1>11. StageInv'
  BY <1>3, <1>8, <1>9 DEF IInv, StageInv
<1>12. KeepInv'
  BY <1>3, <1>7, <1>8, <1>9 DEF IInv, KeepInv
<1>13. NewInv'
  BY <1>3, <1>8, <1>9 DEF IInv, NewInv
<1>14. QED
  BY <1>10, <1>11, <1>12, <1>13 DEF IInv

LEMMA TranslateKeeps ==
    ASSUME IInv, Translate
    PROVE  IInv'
<1>1. UNCHANGED asked /\ UNCHANGED <<k, code_existed, lists, status, abandoned>>
  BY DEF Translate
<1>2. /\ at = "translate" /\ Working /\ k <= Len(inputs) /\ Source.dotted
      /\ target # "built" /\ stop # "-S"
  BY DEF Translate, Working, IInv, StageInv
<1>3. Assembly \in FileNames /\ DOMAIN files = FileNames
  BY <1>2, NamesOfWork DEF IInv, TypeInv
<1>4. /\ at' = "assemble" /\ Working'
      /\ assembly_existed' <=> Assembly \in Here
  BY <1>3 DEF Translate, Working, Exists, Here, Taken
<1>5. DOMAIN files' = FileNames /\ Here' = Here \cup {Assembly}
  <2> DEFINE content == Made("assembly", files[Code].of, files[Code].whole)
  <2>1. files' = With(files, Assembly, content)
    BY DEF Translate
  <2>2. content # NoFile
    BY MadeIsAFile
  <2> HIDE DEF content
  <2>3. /\ DOMAIN With(files, Assembly, content) = FileNames
        /\ Taken(With(files, Assembly, content)) = Here \cup {Assembly}
    BY <1>3, <2>2, WithTakes DEF Here
  <2>4. Here' = Taken(With(files, Assembly, content))
    BY <2>1 DEF Here, Taken
  <2>5. QED
    BY <2>1, <2>3, <2>4
<1>6. Source' = Source /\ Code' = Code /\ Assembly' = Assembly
  BY <1>1, SameSource
<1>7. Old' = Old /\ AskedFor' = AskedFor /\ UNCHANGED <<target, stop, inputs>>
  BY <1>1, SameQuestion
<1>8. created' = created /\ created_objects' = created_objects
  BY <1>1 DEF lists
<1>9. TypeInv'
  BY <1>1, <1>2, <1>4, <1>5, <1>7 DEF IInv, TypeInv
<1>10. StageInv'
  BY <1>1, <1>2, <1>4, <1>6, <1>7, <1>8 DEF IInv, StageInv
<1>11. KeepInv'
  BY <1>1, <1>2, <1>4, <1>5, <1>6, <1>7, <1>8 DEF IInv, KeepInv
<1>12. NewInv'
  <2>1. InWork = IF code_existed THEN {} ELSE {Code}
    BY <1>2 DEF InWork
  <2>2. /\ ~code_existed => Code \in InWork'
        /\ ~assembly_existed' /\ Assembly # Code => Assembly \in InWork'
    BY <1>1, <1>4, <1>6 DEF InWork, UsedUp
  <2>3. Here \ Old \subseteq AskedFor \cup created \cup created_objects \cup InWork
    BY <1>2 DEF IInv, NewInv
  <2>4. Here' \ Old' \subseteq AskedFor' \cup created' \cup created_objects' \cup InWork'
    <3>1. Here \ Old \subseteq AskedFor \cup created \cup created_objects \cup InWork'
      BY <2>1, <2>2, <2>3
    <3>2. Assembly \in Here \cup InWork'
      <4>1. CASE Assembly = Code
        BY <1>2, <2>2, <4>1 DEF IInv, NewInv
      <4>2. CASE Assembly # Code
        BY <1>4, <2>2, <4>2
      <4>3. QED
        BY <4>1, <4>2
    <3>3. QED
      BY <1>5, <1>7, <1>8, <3>1, <3>2
  <2>5. QED
    BY <1>1, <1>2, <1>4, <1>5, <1>6, <1>7, <1>8, <2>4 DEF IInv, TypeInv, NewInv, Running
<1>13. QED
  BY <1>9, <1>10, <1>11, <1>12 DEF IInv

LEMMA AssembleKeeps ==
    ASSUME IInv, Assemble
    PROVE  IInv'
<1>1. UNCHANGED asked /\ UNCHANGED <<existed, written, created, status, abandoned>>
  BY DEF Assemble
<1>2. /\ at = "assemble" /\ Working /\ k <= Len(inputs) /\ Source.dotted
      /\ target # "built" /\ stop # "-S"
  BY DEF Assemble, Working, IInv, StageInv
<1>3. /\ Object \in FileNames /\ DOMAIN files = FileNames
      /\ stop = "-c" => Object \in AskedFor
  BY <1>2, NamesOfWork DEF IInv, TypeInv
<1>4. at' = "source" /\ k' = k + 1 /\ ~Working' /\ InWork' = {} /\ InWork = UsedUp
  BY <1>2 DEF Assemble, Working, InWork
<1>5. created_objects' = IF Object \in Here THEN created_objects
                         ELSE created_objects \cup {Object}
  BY <1>3 DEF Assemble, CreatedWith, Exists, Here, Taken
<1>6. DOMAIN files' = FileNames /\ Here' = (Here \cup {Object}) \ UsedUp
  <2> DEFINE content == Made("object", files[Assembly].of, files[Assembly].whole)
             made == With(files, Object, content)
  <2>1. content # NoFile
    BY MadeIsAFile
  <2>2. files' = Without(made, UsedUp)
    BY DEF Assemble
  <2> HIDE DEF content
  <2>3. Taken(made) = Here \cup {Object}
    BY <1>3, <2>1, WithTakes DEF Here
  <2> HIDE DEF made
  <2>4. /\ DOMAIN Without(made, UsedUp) = FileNames
        /\ Taken(Without(made, UsedUp)) = Taken(made) \ UsedUp
    BY WithoutFrees
  <2>5. Here' = Taken(Without(made, UsedUp))
    BY <2>2 DEF Here, Taken
  <2>6. QED
    BY <2>2, <2>3, <2>4, <2>5
<1>7. Old' = Old /\ AskedFor' = AskedFor /\ UNCHANGED <<target, stop, inputs>>
  BY <1>1, SameQuestion
<1>8. UsedUp \cap Old = {}
  BY <1>2 DEF IInv, KeepInv, UsedUp
<1>9. Object \in Here /\ Object \notin Old =>
          Object \in AskedFor \cup created \cup created_objects \cup UsedUp
  BY <1>2, <1>4 DEF IInv, NewInv
<1>10. TypeInv'
  BY <1>1, <1>2, <1>4, <1>6, <1>7 DEF IInv, TypeInv
<1>11. StageInv'
  BY <1>1, <1>2, <1>4, <1>7 DEF IInv, StageInv
<1>12. KeepInv'
  <2>1. Old \subseteq Here'
    BY <1>6, <1>8 DEF IInv, KeepInv
  <2>2. created' \cup created_objects' \subseteq FileNames \ Old
    BY <1>1, <1>3, <1>5 DEF IInv, KeepInv
  <2>3. QED
    BY <1>4, <1>7, <2>1, <2>2 DEF KeepInv
<1>13. NewInv'
  <2>1. Here \ Old \subseteq AskedFor \cup created \cup created_objects \cup UsedUp
    BY <1>2, <1>4 DEF IInv, NewInv
  <2>2. Here' \ Old' \subseteq AskedFor' \cup created' \cup created_objects'
    BY <1>1, <1>5, <1>6, <1>7, <1>9, <2>1
  <2>3. stop # "link" => created' \cup created_objects' \subseteq AskedFor'
    BY <1>1, <1>2, <1>3, <1>5, <1>7 DEF IInv, TypeInv, NewInv
  <2>4. status = Running /\ status' = Running
    BY <1>1, <1>2 DEF IInv, TypeInv
  <2>5. QED
    BY <1>1, <1>2, <1>4, <1>7, <2>2, <2>3, <2>4 DEF NewInv, Running
<1>14. QED
  BY <1>10, <1>11, <1>12, <1>13 DEF IInv

LEMMA MakingObjectFailsKeeps ==
    ASSUME IInv, MakingObjectFails
    PROVE  IInv'
<1>1. UNCHANGED <<asked, k, lists>> /\ at # "exit"
  BY DEF MakingObjectFails
<1>2. /\ at \in {"translate", "assemble"} /\ k <= Len(inputs) /\ Source.dotted
      /\ target # "built"
  BY DEF MakingObjectFails, Working, IInv, StageInv
<1> DEFINE name == IF at = "translate" THEN Assembly ELSE Object
<1>3. name \in FileNames
  BY <1>2, NamesOfWork DEF IInv
<1>4. PICK left \in Leftovers(name) : GiveUp(left, {})
  BY DEF MakingObjectFails
<1> HIDE DEF name
<1>5. DOMAIN left = FileNames /\ Here \subseteq Taken(left)
  BY <1>3, LeftoversTake DEF IInv, TypeInv
<1>6. Old \subseteq Taken(left)
  BY <1>5 DEF IInv, KeepInv
<1>7. QED
  BY <1>1, <1>2, <1>4, <1>5, <1>6, GivingUpKeeps

LEMMA LinkKeeps ==
    ASSUME IInv, Link
    PROVE  IInv'
<1>1. UNCHANGED asked /\ UNCHANGED <<k, existed, lists, abandoned>>
  BY DEF Link
<1>2. at = "link" /\ stop = "link" /\ at' = "exit" /\ status' = 0 /\ ~Working'
  BY DEF Link, Exit, Working, IInv, StageInv
<1>3. DOMAIN files' = FileNames /\ Here' = (Here \cup {Output}) \ Intermediate
  <2> DEFINE content == ProgramOf(Parts)
             made == With(files, Output, content)
  <2>1. content # NoFile
    BY MadeIsAFile DEF ProgramOf
  <2>2. files' = Without(made, Intermediate)
    BY DEF Link
  <2> HIDE DEF content
  <2>3. Taken(made) = Here \cup {Output}
    BY <2>1, OutputIsAName, WithTakes DEF Here, IInv, TypeInv
  <2> HIDE DEF made
  <2>4. /\ DOMAIN Without(made, Intermediate) = FileNames
        /\ Taken(Without(made, Intermediate)) = Taken(made) \ Intermediate
    BY WithoutFrees
  <2>5. Here' = Taken(Without(made, Intermediate))
    BY <2>2 DEF Here, Taken
  <2>6. QED
    BY <2>2, <2>3, <2>4, <2>5
<1>4. Old' = Old /\ AskedFor' = AskedFor /\ UNCHANGED <<target, stop, inputs>>
  BY <1>1, SameQuestion
<1>5. created' = created /\ created_objects' = created_objects
  BY <1>1 DEF lists
<1>6. AskedFor = {Output} /\ InWork = {}
  BY <1>2 DEF AskedFor, InWork
<1>7. Intermediate = created \cup created_objects
  BY DEF IInv, StageInv, Intermediate
<1>8. TypeInv'
  BY <1>1, <1>2, <1>3, <1>4 DEF IInv, TypeInv, Running
<1>9. StageInv'
  BY <1>2, <1>4, <1>5 DEF IInv, StageInv
<1>10. KeepInv'
  BY <1>2, <1>3, <1>4, <1>5, <1>7 DEF IInv, KeepInv
<1>11. NewInv'
  BY <1>2, <1>3, <1>4, <1>5, <1>6, <1>7 DEF IInv, NewInv
<1>12. QED
  BY <1>8, <1>9, <1>10, <1>11 DEF IInv

LEMMA LinkFailsKeeps ==
    ASSUME IInv, LinkFails
    PROVE  IInv'
<1>1. UNCHANGED <<asked, k, lists>> /\ at # "exit"
  BY DEF LinkFails
<1>2. PICK left \in Leftovers(Output) : GiveUp(left, created)
  BY DEF LinkFails
<1>3. DOMAIN left = FileNames /\ Taken(left) \in {Here, Here \cup {Output}}
  BY OutputIsAName, LeftoversTake DEF IInv, TypeInv
<1>4. Old \subseteq Taken(left) /\ created \cap Old = {}
  BY <1>3 DEF IInv, KeepInv
<1>5. target = "built" => (Taken(left) \ created) \ Old \subseteq {Output}
  BY <1>1, <1>3 DEF IInv, NewInv
<1>6. QED
  BY <1>1, <1>2, <1>3, <1>4, <1>5, GivingUpKeeps

LEMMA StutterKeeps ==
    ASSUME IInv, UNCHANGED vars
    PROVE  IInv'
<1>1. /\ UNCHANGED asked /\ UNCHANGED <<files, k, at, existed, lists, status, abandoned>>
  BY DEF vars
<1>2. Here' = Here /\ Old' = Old /\ AskedFor' = AskedFor
  BY <1>1, SameQuestion, SameFiles
<1>3. Source' = Source /\ Code' = Code /\ Assembly' = Assembly /\ Working' = Working
  BY <1>1, SameSource DEF Working
<1>4. UNCHANGED <<target, stop, inputs, files, k, at, code_existed, assembly_existed,
                  created, created_objects, status, abandoned>>
  BY <1>1 DEF asked, existed, lists
<1>5. InWork' = InWork
  BY <1>3, <1>4 DEF InWork, UsedUp
<1>6. TypeInv' /\ StageInv'
  BY <1>3, <1>4 DEF IInv, TypeInv, StageInv
<1>7. KeepInv' /\ NewInv'
  BY <1>2, <1>3, <1>4, <1>5 DEF IInv, KeepInv, NewInv
<1>8. QED
  BY <1>6, <1>7 DEF IInv

-----------------------------------------------------------------------------
LEMMA Invariance == Spec => []IInv
<1>1. IInv /\ [Next]_vars => IInv'
  BY BeginKeeps, NextSourceKeeps, LastSourceKeeps, CompileToCodeKeeps,
     CompileToCodeFailsKeeps, CompilerErrorKeeps, TranslateKeeps, AssembleKeeps,
     MakingObjectFailsKeeps, LinkKeeps, LinkFailsKeeps, StutterKeeps
  DEF Next
<1>2. QED
  BY InitInvariant, <1>1, PTL DEF Spec

\* The files stand under the names there can be, the run ends with a status,
\* and the lists of what Run() and BuildProgram() take away name nothing which
\* was there before them.
THEOREM TypeCorrect == Spec => []TypeOK
<1>1. IInv => TypeOK
  BY DEF IInv, TypeInv, KeepInv, TypeOK, Old, Taken
<1>2. QED
  BY Invariance, <1>1, PTL

\* Run() takes away no file of the user, whichever stage fails and whatever a
\* failing tool leaves behind.
THEOREM NoUserFileIsLost == Spec => []UserFilesStay
<1>1. IInv => UserFilesStay
  BY DEF IInv, KeepInv, UserFilesStay, Exists, Old, Here, Taken
<1>2. QED
  BY Invariance, <1>1, PTL

\* After a status of zero the code, the assembly and the object files which
\* were not asked for are gone, in whatever order the input files named them.
THEOREM NothingElseIsLeft == Spec => []NothingElseLeft
<1>1. IInv => NothingElseLeft
  BY DEF IInv, NewInv, NothingElseLeft, Exists, Old, Here, Taken
<1>2. QED
  BY Invariance, <1>1, PTL

\* When a stage of BuildProgram() fails it takes away every file of code it
\* made.
THEOREM FailureIsCleanedUp == Spec => []FailedBuildCleansUp
<1>1. IInv => FailedBuildCleansUp
  BY DEF IInv, NewInv, FailedBuildCleansUp, Exists, Old, Here, Taken
<1>2. QED
  BY Invariance, <1>1, PTL

-----------------------------------------------------------------------------
(***************************************************************************)
(* What the files hold.  Two input files of one name share the files made  *)
(* of them, and nothing asks whether the code reached the disk: a run can  *)
(* only promise its result without the two.                                *)
(***************************************************************************)
NamesApart ==
    \A one, other \in Sources :
        one.dotted /\ other.dotted /\ one.base = other.base => one = other
CodeIsWritten == "disk full" \notin Faults

\* The input files before the one which is worked on.
Behind == {i \in 1 .. Len(inputs) : i < k}

InputInv ==
    /\ inputs = [i \in 1 .. Len(inputs) |-> inputs[i]]
    /\ \A i, j \in 1 .. Len(inputs) : inputs[i] = inputs[j] => i = j
    /\ at # "exit" => \A i \in Behind : inputs[i].dotted
    /\ at = "link" => k = Len(inputs) + 1

\* The lists the linker and the tool of the target are called with.
ListInv ==
    at # "exit" =>
        /\ Output \notin created \cup created_objects
        /\ IF target = "built"
           THEN written = [i \in Behind |-> CodeOf(inputs[i])]
           ELSE stop # "-S" => objects = [i \in Behind |-> ReplaceSuffix(inputs[i], "o")]

Final == IF target = "built" \/ stop = "-S" THEN "code" ELSE "object"
FinalOf(source) == IF Final = "code" THEN CodeOf(source) ELSE ReplaceSuffix(source, "o")

\* The files of the input files which were done, and of the one in work.
HeldInv ==
    at # "exit" =>
        /\ \A i \in Behind :
                files[FinalOf(inputs[i])] = Made(Final, <<inputs[i]>>, TRUE)
        /\ at = "translate" =>
                files[Code].of = <<Source>> /\ files[Code].whole = TRUE
        /\ at = "assemble" =>
                files[Assembly].of = <<Source>> /\ files[Assembly].whole = TRUE

DoneInv == InputInv /\ ListInv /\ HeldInv /\ EverythingDone

-----------------------------------------------------------------------------
LEMMA WithHolds ==
    ASSUME NEW some, NEW name \in DOMAIN some, NEW content
    PROVE  /\ With(some, name, content)[name] = content
           /\ \A other \in DOMAIN some \ {name} :
                    With(some, name, content)[other] = some[other]
BY DEF With

LEMMA WithoutHolds ==
    ASSUME NEW some, NEW names
    PROVE  \A name \in FileNames \ names : Without(some, names)[name] = some[name]
BY DEF Without

LEMMA AppendNext ==
    ASSUME NEW f, NEW n \in Nat
    PROVE  Append([i \in 1 .. n |-> f[i]], f[n + 1]) = [i \in 1 .. n + 1 |-> f[i]]
<1> DEFINE g == [i \in 1 .. n |-> f[i]]
           h == [i \in 1 .. n + 1 |-> f[i]]
<1>1. Len(g) = n
  OBVIOUS
<1>2. Append(g, f[n + 1]) = [i \in 1 .. n + 1 |-> IF i = n + 1 THEN f[n + 1] ELSE g[i]]
  BY <1>1
<1>3. \A i \in 1 .. n + 1 : (IF i = n + 1 THEN f[n + 1] ELSE g[i]) = f[i]
  OBVIOUS
<1>4. QED
  BY <1>2, <1>3

\* Two input files with a suffix never share a file made of them.
LEMMA MadeApart ==
    ASSUME NamesApart, TypeInv, InputInv,
           NEW i \in 1 .. Len(inputs), NEW j \in 1 .. Len(inputs), i # j,
           inputs[i].dotted, inputs[j].dotted
    PROVE  inputs[i].base # inputs[j].base
BY DEF NamesApart, TypeInv, InputInv

LEMMA BehindIs ==
    ASSUME TypeInv
    PROVE  /\ Behind = 1 .. k - 1 /\ k - 1 \in Nat
           /\ k <= Len(inputs) => k \in 1 .. Len(inputs) /\ 1 .. k = Behind \cup {k}
BY DEF TypeInv, Behind

\* The files of an input file which was done are none of the ones in work.
LEMMA FinalApart ==
    ASSUME NamesApart, TypeInv, InputInv, at # "exit",
           k <= Len(inputs), Source.dotted, NEW i \in Behind
    PROVE  /\ FinalOf(inputs[i]) \in FileNames
           /\ FinalOf(inputs[i]) \notin {Code, Assembly, Object, Output}
<1>1. i \in 1 .. Len(inputs) /\ k \in 1 .. Len(inputs) /\ i # k
  BY DEF TypeInv, Behind
<1>2. inputs[i] \in Sources /\ inputs[i].dotted
  BY <1>1 DEF TypeInv, InputInv
<1>3. inputs[i].base # Source.base
  BY <1>1, <1>2, MadeApart DEF Source
<1>4. PICK suffix \in {"q", "s", "o"} : FinalOf(inputs[i]) = ReplaceSuffix(inputs[i], suffix)
  BY DEF FinalOf, CodeOf, CodeSuffix
<1>5. FinalOf(inputs[i]) \notin {Code, Assembly, Object}
  BY <1>3, <1>4 DEF Code, CodeOf, Assembly, Object, ReplaceSuffix
<1>6. FinalOf(inputs[i]) # Output
  BY <1>4 DEF ReplaceSuffix, Output
<1>7. QED
  BY <1>2, <1>4, <1>5, <1>6, NamesOfSource

LEMMA SameInputs ==
    ASSUME UNCHANGED asked
    PROVE  /\ Final' = Final
           /\ \A i \in 1 .. Len(inputs) :
                  /\ FinalOf(inputs[i])' = FinalOf(inputs[i])
                  /\ CodeOf(inputs[i])' = CodeOf(inputs[i])
           /\ k' = k => Behind' = Behind
BY DEF asked, Final, FinalOf, CodeOf, CodeSuffix, ReplaceSuffix, Behind

LEMMA InitDone == Init => DoneInv
<1> SUFFICES ASSUME Init PROVE DoneInv
  OBVIOUS
<1>1. PICK chosen \in SUBSET Sources \ {{}} : inputs \in SetToSeqs(chosen)
  BY DEF Init, Inputs
<1>2. Cardinality(chosen) \in Nat
  BY SourcesAssumption, FS_Subset, FS_CardinalityType
<1>3. /\ inputs \in [1 .. Cardinality(chosen) -> chosen]
      /\ \A i, j \in 1 .. Cardinality(chosen) : i # j => inputs[i] # inputs[j]
  BY <1>1 DEF SetToSeqs
<1>4. Len(inputs) = Cardinality(chosen)
  BY <1>2, <1>3
<1>5. Behind = {}
  BY <1>2, <1>4 DEF Behind, Init
<1>6. InputInv
  BY <1>3, <1>4, <1>5 DEF InputInv, Init
<1>7. written = [i \in Behind |-> CodeOf(inputs[i])]
  BY <1>5 DEF Init
<1>8. objects = [i \in Behind |-> ReplaceSuffix(inputs[i], "o")]
  BY <1>5 DEF Init
<1>9. ListInv
  BY <1>7, <1>8 DEF ListInv, Init
<1>10. HeldInv /\ EverythingDone
  BY <1>5 DEF HeldInv, EverythingDone, Init, Running
<1>11. QED
  BY <1>6, <1>9, <1>10 DEF DoneInv

\* A run which fails promises nothing of what it was asked for.
LEMMA FailingKeepsDone ==
    ASSUME DoneInv, UNCHANGED asked, at' = "exit", status' = 1
    PROVE  DoneInv'
<1>1. InputInv'
  BY DEF DoneInv, InputInv, asked
<1>2. ListInv' /\ HeldInv' /\ EverythingDone'
  BY DEF ListInv, HeldInv, EverythingDone
<1>3. QED
  BY <1>1, <1>2 DEF DoneInv

\* A step which only moves on to a stage that makes nothing yet.
LEMMA MovingOnKeepsDone ==
    ASSUME TypeInv, DoneInv, UNCHANGED <<asked, files, k, lists>>, at # "exit", status' # 0,
           \/ at' \in {"source", "compile"}
           \/ at' = "link" /\ k = Len(inputs) + 1
    PROVE  DoneInv'
<1>1. UNCHANGED <<target, stop, inputs, objects, written, created, created_objects>>
  BY DEF asked, lists
<1>2. Behind' = Behind /\ Behind \subseteq 1 .. Len(inputs)
  BY SameInputs DEF Behind
<1>3. InputInv'
  BY <1>1, <1>2 DEF DoneInv, InputInv
<1>4. ListInv'
  BY <1>1, <1>2 DEF DoneInv, ListInv, CodeOf, CodeSuffix
<1>5. HeldInv'
  BY <1>1, <1>2, SameInputs DEF DoneInv, HeldInv
<1>6. EverythingDone'
  BY DEF EverythingDone
<1>7. QED
  BY <1>3, <1>4, <1>5, <1>6 DEF DoneInv

\* The list grows by the object file, or by the file of code, of the input file
\* which was worked on.
LEMMA CompileToCodeKeepsDone ==
    ASSUME NamesApart, CodeIsWritten, IInv, DoneInv, CompileToCode
    PROVE  DoneInv'
<1>1. UNCHANGED <<asked, code_existed, objects, created_objects, status>>
  BY DEF CompileToCode
<1>2. at = "compile" /\ Working /\ k <= Len(inputs) /\ Source.dotted /\ TypeInv
  BY DEF CompileToCode, Working, IInv, StageInv
<1>3. /\ k \in 1 .. Len(inputs) /\ Behind = 1 .. k - 1 /\ k - 1 \in Nat
      /\ 1 .. k = Behind \cup {k}
  BY <1>2, BehindIs
<1>4. Code \in FileNames /\ Code \in DOMAIN files /\ Code # Output
  BY <1>2, NamesOfWork DEF TypeInv, Code, CodeOf, CodeSuffix, ReplaceSuffix, Output
<1>5. files' = With(files, Code, Made("code", <<Source>>, TRUE))
  BY DEF CompileToCode, CodeIsWritten
<1>6. /\ files'[Code] = Made("code", <<Source>>, TRUE)
      /\ \A name \in FileNames \ {Code} : files'[name] = files[name]
  <2> DEFINE content == Made("code", <<Source>>, TRUE)
  <2>1. files' = With(files, Code, content)
    BY <1>5
  <2> HIDE DEF content
  <2>2. /\ With(files, Code, content)[Code] = content
        /\ \A name \in DOMAIN files \ {Code} : With(files, Code, content)[name] = files[name]
    BY <1>4, WithHolds
  <2>3. files'[Code] = content /\ \A name \in FileNames \ {Code} : files'[name] = files[name]
    BY <1>2, <2>1, <2>2 DEF TypeInv
  <2>4. QED
    BY <2>3 DEF content
<1>7. UNCHANGED <<target, stop, inputs>>
  BY <1>1 DEF asked
<1>8. status' # 0
  BY <1>1, <1>2 DEF TypeInv, Running
<1>9. EverythingDone'
  BY <1>8 DEF EverythingDone
<1>10. \A i \in Behind : files'[FinalOf(inputs[i])] = Made(Final, <<inputs[i]>>, TRUE)
  <2> SUFFICES ASSUME NEW i \in Behind
               PROVE  files'[FinalOf(inputs[i])] = Made(Final, <<inputs[i]>>, TRUE)
    OBVIOUS
  <2>1. FinalOf(inputs[i]) \in FileNames \ {Code}
    BY <1>2, FinalApart DEF DoneInv
  <2>2. files[FinalOf(inputs[i])] = Made(Final, <<inputs[i]>>, TRUE)
    BY <1>2 DEF DoneInv, HeldInv
  <2>3. QED
    BY <1>6, <2>1, <2>2
<1>11. CASE target = "built" \/ stop = "-S"
  <2>1. at' = "source" /\ k' = k + 1
    BY <1>11 DEF CompileToCode, Compiled
  <2>2. Behind' = Behind \cup {k} /\ Behind' = 1 .. k
    BY <1>3, <1>7, <2>1 DEF Behind
  <2>3. InputInv'
    BY <1>2, <1>7, <2>1, <2>2 DEF DoneInv, InputInv, Source
  <2>4. ListInv'
    <3>1. Output \notin created' \cup created_objects'
      <4>1. created' \in {created, created \cup {Code}}
        BY <1>11 DEF CompileToCode, Compiled
      <4>2. Output \notin created \cup created_objects
        BY <1>2 DEF DoneInv, ListInv
      <4>3. QED
        BY <1>1, <1>4, <4>1, <4>2
    <3>2. CASE target = "built"
      <4> DEFINE f == [i \in 1 .. Len(inputs) |-> CodeOf(inputs[i])]
      <4>1. written = [i \in 1 .. k - 1 |-> f[i]] /\ f[k] = Code
        <5>1. written = [i \in 1 .. k - 1 |-> CodeOf(inputs[i])]
          BY <1>2, <1>3, <3>2 DEF DoneInv, ListInv
        <5>2. 1 .. k - 1 \subseteq 1 .. Len(inputs)
          BY <1>3
        <5>3. \A i \in 1 .. k - 1 : f[i] = CodeOf(inputs[i])
          BY <5>2
        <5>4. f[k] = Code
          BY <1>3 DEF Code, Source
        <5>5. QED
          BY <5>1, <5>3, <5>4
      <4>2. written' = Append(written, f[k])
        BY <3>2, <4>1 DEF CompileToCode, Compiled
      <4> HIDE DEF f
      <4>3. Append([i \in 1 .. k - 1 |-> f[i]], f[(k - 1) + 1])
                = [i \in 1 .. (k - 1) + 1 |-> f[i]]
        BY <1>3, AppendNext
      <4>4. (k - 1) + 1 = k
        BY <1>3
      <4>5. written' = [i \in 1 .. k |-> f[i]]
        BY <4>1, <4>2, <4>3, <4>4
      <4>6. \A i \in 1 .. k : f[i] = CodeOf(inputs[i])'
        BY <1>1, <1>3, SameInputs DEF f
      <4>7. written' = [i \in 1 .. k |-> CodeOf(inputs[i])']
        BY <4>5, <4>6
      <4>8. QED
        BY <1>7, <2>2, <3>1, <3>2, <4>7 DEF ListInv
    <3>3. CASE target # "built"
      BY <1>7, <1>11, <3>1, <3>3 DEF ListInv
    <3>4. QED
      BY <3>2, <3>3
  <2>5. HeldInv'
    <3>1. Final = "code" /\ FinalOf(inputs[k]) = Code
      BY <1>11 DEF Final, FinalOf, Code, Source
    <3>2. files'[FinalOf(inputs[k])] = Made(Final, <<inputs[k]>>, TRUE)
      BY <1>6, <3>1 DEF Source
    <3>3. \A i \in Behind' : files'[FinalOf(inputs[i])] = Made(Final, <<inputs[i]>>, TRUE)
      BY <1>10, <2>2, <3>2
    <3>4. QED
      BY <1>1, <1>3, <1>7, <2>1, <2>2, <3>3, SameInputs DEF HeldInv, Behind
  <2>6. QED
    BY <1>9, <2>3, <2>4, <2>5 DEF DoneInv
<1>12. CASE ~(target = "built" \/ stop = "-S")
  <2>1. /\ at' = IF target = "translated" THEN "translate" ELSE "assemble"
        /\ k' = k /\ UNCHANGED <<written, created>>
    BY <1>12 DEF CompileToCode, Compiled
  <2>2. Behind' = Behind /\ Behind \subseteq 1 .. Len(inputs)
    BY <1>1, <2>1, SameInputs DEF Behind
  <2>3. InputInv'
    BY <1>2, <1>7, <2>1, <2>2 DEF DoneInv, InputInv
  <2>4. ListInv'
    BY <1>1, <1>2, <1>7, <1>12, <2>1, <2>2 DEF DoneInv, ListInv
  <2>5. HeldInv'
    <3>1. Source' = Source /\ Code' = Code /\ Assembly' = Assembly
      BY <1>1, <2>1, SameSource
    <3>2. \A i \in Behind' : files'[FinalOf(inputs[i])'] = Made(Final', <<inputs[i]>>, TRUE)
      BY <1>1, <1>10, <2>2, SameInputs
    <3>3. files'[Code].of = <<Source>> /\ files'[Code].whole = TRUE
      BY <1>6 DEF Made
    <3>4. at' = "assemble" => Assembly = Code
      BY <2>1 DEF Assembly, Code, CodeOf, CodeSuffix
    <3>5. QED
      BY <1>7, <2>1, <3>1, <3>2, <3>3, <3>4 DEF HeldInv
  <2>6. QED
    BY <1>9, <2>3, <2>4, <2>5 DEF DoneInv
<1>13. QED
  BY <1>11, <1>12

LEMMA TranslateKeepsDone ==
    ASSUME NamesApart, IInv, DoneInv, Translate
    PROVE  DoneInv'
<1>1. UNCHANGED <<asked, k, lists, status>> /\ at' = "assemble"
  BY DEF Translate
<1>2. at = "translate" /\ k <= Len(inputs) /\ Source.dotted /\ TypeInv
  BY DEF Translate, Working, IInv, StageInv
<1>3. UNCHANGED <<target, stop, inputs, objects, written, created, created_objects>>
  BY <1>1 DEF asked, lists
<1>4. Behind' = Behind /\ Behind \subseteq 1 .. Len(inputs)
  BY <1>1, SameInputs DEF Behind
<1>5. Source' = Source /\ Assembly' = Assembly
  BY <1>1, SameSource
<1>6. Assembly \in FileNames /\ Assembly \in DOMAIN files
  BY <1>2, NamesOfWork DEF TypeInv
<1> DEFINE content == Made("assembly", files[Code].of, files[Code].whole)
<1>7. files' = With(files, Assembly, content)
  BY DEF Translate
<1>8. content.of = <<Source>> /\ content.whole = TRUE
  BY <1>2 DEF DoneInv, HeldInv, Made
<1> HIDE DEF content
<1>9. /\ files'[Assembly] = content
      /\ \A name \in FileNames \ {Assembly} : files'[name] = files[name]
  <2>1. /\ With(files, Assembly, content)[Assembly] = content
        /\ \A name \in DOMAIN files \ {Assembly} :
                With(files, Assembly, content)[name] = files[name]
    BY <1>6, WithHolds
  <2>2. QED
    BY <1>2, <1>7, <2>1 DEF TypeInv
<1>10. InputInv'
  BY <1>1, <1>2, <1>3, <1>4 DEF DoneInv, InputInv
<1>11. ListInv'
  BY <1>2, <1>3, <1>4 DEF DoneInv, ListInv, CodeOf, CodeSuffix
<1>12. HeldInv'
  <2>1. ASSUME NEW i \in Behind
        PROVE  files'[FinalOf(inputs[i])'] = Made(Final', <<inputs[i]>>, TRUE)
    <3>1. FinalOf(inputs[i]) \in FileNames \ {Assembly}
      BY <1>2, FinalApart DEF DoneInv
    <3>2. files[FinalOf(inputs[i])] = Made(Final, <<inputs[i]>>, TRUE)
      BY <1>2 DEF DoneInv, HeldInv
    <3>3. QED
      BY <1>1, <1>4, <1>9, <3>1, <3>2, SameInputs
  <2>2. QED
    BY <1>1, <1>3, <1>4, <1>5, <1>8, <1>9, <2>1 DEF HeldInv
<1>13. EverythingDone'
  BY <1>1, <1>2 DEF TypeInv, Running, EverythingDone
<1>14. QED
  BY <1>10, <1>11, <1>12, <1>13 DEF DoneInv

LEMMA AssembleKeepsDone ==
    ASSUME NamesApart, IInv, DoneInv, Assemble
    PROVE  DoneInv'
<1>1. UNCHANGED <<asked, written, created, status>> /\ at' = "source" /\ k' = k + 1
  BY DEF Assemble
<1>2. /\ at = "assemble" /\ k <= Len(inputs) /\ Source.dotted /\ TypeInv
      /\ target # "built" /\ stop # "-S"
  BY DEF Assemble, Working, IInv, StageInv
<1>3. /\ k \in 1 .. Len(inputs) /\ Behind = 1 .. k - 1 /\ k - 1 \in Nat
      /\ 1 .. k = Behind \cup {k}
  BY <1>2, BehindIs
<1>4. UNCHANGED <<target, stop, inputs>>
  BY <1>1 DEF asked
<1>5. Behind' = Behind \cup {k} /\ Behind' = 1 .. k
  BY <1>1, <1>3, <1>4 DEF Behind
<1>6. Object \in FileNames /\ Object \in DOMAIN files
  BY <1>2, NamesOfWork DEF TypeInv
<1>7. Object # Output /\ Object \notin {Code, Assembly}
  BY DEF Object, Output, Code, CodeOf, CodeSuffix, Assembly, ReplaceSuffix
<1>8. UsedUp \subseteq {Code, Assembly}
  BY DEF UsedUp
<1>9. Final = "object" /\ FinalOf(inputs[k]) = Object
  BY <1>2 DEF Final, FinalOf, Object, Source
<1>10. /\ files'[Object] = Made("object", <<Source>>, TRUE)
       /\ \A name \in FileNames \ {Object, Code, Assembly} : files'[name] = files[name]
  <2> DEFINE content == Made("object", files[Assembly].of, files[Assembly].whole)
             made == With(files, Object, content)
  <2>1. content = Made("object", <<Source>>, TRUE)
    BY <1>2 DEF DoneInv, HeldInv
  <2>2. files' = Without(made, UsedUp)
    BY DEF Assemble
  <2> HIDE DEF content
  <2>3. made[Object] = content /\ \A name \in FileNames \ {Object} : made[name] = files[name]
    BY <1>2, <1>6, WithHolds DEF TypeInv
  <2> HIDE DEF made
  <2>4. \A name \in FileNames \ UsedUp : files'[name] = made[name]
    BY <2>2, WithoutHolds
  <2>5. QED
    BY <1>6, <1>7, <1>8, <2>1, <2>3, <2>4
<1>11. InputInv'
  BY <1>1, <1>2, <1>4, <1>5 DEF DoneInv, InputInv, Source
<1>12. ListInv'
  <2> DEFINE f == [i \in 1 .. Len(inputs) |-> ReplaceSuffix(inputs[i], "o")]
  <2>1. objects = [i \in 1 .. k - 1 |-> f[i]] /\ f[k] = Object
    <3>1. objects = [i \in 1 .. k - 1 |-> ReplaceSuffix(inputs[i], "o")]
      BY <1>2, <1>3 DEF DoneInv, ListInv
    <3>2. \A i \in 1 .. k - 1 : f[i] = ReplaceSuffix(inputs[i], "o")
      BY <1>3
    <3>3. f[k] = Object
      BY <1>3 DEF Object, Source
    <3>4. QED
      BY <3>1, <3>2, <3>3
  <2>2. objects' = Append(objects, f[k])
    BY <2>1 DEF Assemble, ObjectsWith
  <2>3. \A i \in 1 .. k : f[i] = ReplaceSuffix(inputs[i], "o")
    BY <1>3
  <2> HIDE DEF f
  <2>4. Append([i \in 1 .. k - 1 |-> f[i]], f[(k - 1) + 1])
            = [i \in 1 .. (k - 1) + 1 |-> f[i]]
    BY <1>3, AppendNext
  <2>5. (k - 1) + 1 = k
    BY <1>3
  <2>6. objects' = [i \in 1 .. k |-> ReplaceSuffix(inputs[i], "o")]
    BY <2>1, <2>2, <2>3, <2>4, <2>5
  <2>7. created_objects' \subseteq created_objects \cup {Object}
    BY DEF Assemble, CreatedWith
  <2>8. Output \notin created' \cup created_objects'
    BY <1>1, <1>2, <1>7, <2>7 DEF DoneInv, ListInv
  <2>9. QED
    BY <1>1, <1>2, <1>4, <1>5, <2>6, <2>8 DEF ListInv
<1>13. HeldInv'
  <2>1. ASSUME NEW i \in Behind
        PROVE  files'[FinalOf(inputs[i])] = Made(Final, <<inputs[i]>>, TRUE)
    <3>1. FinalOf(inputs[i]) \in FileNames \ {Object, Code, Assembly}
      BY <1>2, FinalApart DEF DoneInv
    <3>2. files[FinalOf(inputs[i])] = Made(Final, <<inputs[i]>>, TRUE)
      BY <1>2 DEF DoneInv, HeldInv
    <3>3. QED
      BY <1>10, <3>1, <3>2
  <2>2. files'[FinalOf(inputs[k])] = Made(Final, <<inputs[k]>>, TRUE)
    BY <1>9, <1>10 DEF Source
  <2>3. \A i \in Behind' : files'[FinalOf(inputs[i])] = Made(Final, <<inputs[i]>>, TRUE)
    BY <1>5, <2>1, <2>2
  <2>4. \A i \in Behind' : i \in 1 .. Len(inputs)
    BY <1>4 DEF Behind
  <2>5. QED
    BY <1>1, <1>4, <2>3, <2>4, SameInputs DEF HeldInv
<1>14. EverythingDone'
  BY <1>1, <1>2 DEF TypeInv, Running, EverythingDone
<1>15. QED
  BY <1>11, <1>12, <1>13, <1>14 DEF DoneInv

LEMMA LastSourceKeepsDone ==
    ASSUME IInv, DoneInv, LastSource
    PROVE  DoneInv'
<1>1. UNCHANGED <<asked, files, k, lists>> /\ at = "source" /\ k > Len(inputs)
  BY DEF LastSource
<1>2. TypeInv /\ k = Len(inputs) + 1
  BY <1>1 DEF IInv, TypeInv
<1>3. CASE stop = "link"
  <2>1. at' = "link" /\ status' # 0
    BY <1>1, <1>2, <1>3 DEF LastSource, TypeInv, Running
  <2>2. QED
    BY <1>1, <1>2, <2>1, MovingOnKeepsDone
<1>4. CASE stop # "link"
  <2>1. at' = "exit" /\ UNCHANGED <<target, stop, inputs>>
    BY <1>1, <1>4 DEF LastSource, Exit, asked
  <2>2. InputInv' /\ ListInv' /\ HeldInv'
    BY <2>1 DEF DoneInv, InputInv, ListInv, HeldInv
  <2>3. \A i \in 1 .. Len(inputs) :
            files[FinalOf(inputs[i])] = Made(Final, <<inputs[i]>>, TRUE)
    <3>1. \A i \in 1 .. Len(inputs) : i \in Behind
      BY <1>2 DEF TypeInv, Behind
    <3>2. QED
      BY <1>1, <3>1 DEF DoneInv, HeldInv
  <2>4. \A i \in 1 .. Len(inputs) : CodeOf(inputs[i])' = CodeOf(inputs[i])
    BY <1>1, SameInputs
  <2>5. CASE stop = "-c"
    <3>1. target # "built"
      BY <1>1, <2>5 DEF IInv, StageInv
    <3>2. \A i \in 1 .. Len(inputs) :
              files'[ReplaceSuffix(inputs[i], "o")] = Made("object", <<inputs[i]>>, TRUE)
      BY <1>1, <2>3, <2>5, <3>1 DEF Final, FinalOf
    <3>3. EverythingDone'
      BY <2>1, <2>5, <3>2 DEF EverythingDone
    <3>4. QED
      BY <2>2, <3>3 DEF DoneInv
  <2>6. CASE stop = "-S"
    <3>1. \A i \in 1 .. Len(inputs) :
              files'[CodeOf(inputs[i])'] = Made("code", <<inputs[i]>>, TRUE)
      BY <1>1, <2>3, <2>4, <2>6 DEF Final, FinalOf
    <3>2. EverythingDone'
      BY <2>1, <2>6, <3>1 DEF EverythingDone
    <3>3. QED
      BY <2>2, <3>2 DEF DoneInv
  <2>7. QED
    BY <1>2, <1>4, <2>5, <2>6 DEF TypeInv
<1>5. QED
  BY <1>3, <1>4

\* The program is made of every input file, in the order they were named.
LEMMA LinkKeepsDone ==
    ASSUME IInv, DoneInv, Link
    PROVE  DoneInv'
<1>1. UNCHANGED <<asked, k>> /\ at' = "exit" /\ UNCHANGED <<target, stop, inputs>>
  BY DEF Link, Exit, asked
<1>2. at = "link" /\ stop = "link" /\ k = Len(inputs) + 1 /\ TypeInv
  BY DEF Link, IInv, StageInv, DoneInv, InputInv
<1>3. Behind = 1 .. Len(inputs) /\ Len(inputs) \in Nat
  BY <1>2 DEF Behind, TypeInv
<1>4. Parts = [i \in 1 .. Len(inputs) |-> FinalOf(inputs[i])]
  <2>1. CASE target = "built"
    <3>1. Parts = [i \in 1 .. Len(inputs) |-> CodeOf(inputs[i])]
      BY <1>2, <1>3, <2>1 DEF Parts, DoneInv, ListInv
    <3>2. \A i \in 1 .. Len(inputs) : FinalOf(inputs[i]) = CodeOf(inputs[i])
      BY <2>1 DEF FinalOf, Final
    <3>3. QED
      BY <3>1, <3>2
  <2>2. CASE target # "built"
    <3>1. Parts = [i \in 1 .. Len(inputs) |-> ReplaceSuffix(inputs[i], "o")]
      BY <1>2, <1>3, <2>2 DEF Parts, DoneInv, ListInv
    <3>2. \A i \in 1 .. Len(inputs) : FinalOf(inputs[i]) = ReplaceSuffix(inputs[i], "o")
      BY <1>2, <2>2 DEF FinalOf, Final
    <3>3. QED
      BY <3>1, <3>2
  <2>3. QED
    BY <2>1, <2>2
<1>5. Len(Parts) = Len(inputs)
  BY <1>3, <1>4
<1>6. \A i \in 1 .. Len(inputs) : files[Parts[i]] = Made(Final, <<inputs[i]>>, TRUE)
  BY <1>2, <1>3, <1>4 DEF DoneInv, HeldInv
<1>7. ProgramOf(Parts) = Made("program", inputs, TRUE)
  <2>1. \A i \in 1 .. Len(inputs) :
            /\ files[Parts[i]].of = <<inputs[i]>>
            /\ files[Parts[i]].whole = TRUE
    <3>1. \A of : Made(Final, of, TRUE).of = of /\ Made(Final, of, TRUE).whole = TRUE
      BY DEF Made
    <3>2. QED
      BY <1>6, <3>1
  <2>2. \A i \in 1 .. Len(inputs) :
            (IF files[Parts[i]].of = <<>> THEN NoFile ELSE files[Parts[i]].of[1])
                = inputs[i]
    <3>1. \A x : <<x>> # <<>> /\ <<x>>[1] = x
      OBVIOUS
    <3>2. QED
      BY <2>1, <3>1
  <2> DEFINE sources == [i \in 1 .. Len(Parts) |->
                 IF files[Parts[i]].of = <<>> THEN NoFile ELSE files[Parts[i]].of[1]]
             all == \A i \in 1 .. Len(Parts) : files[Parts[i]].whole
  <2>3. sources = [i \in 1 .. Len(inputs) |-> inputs[i]]
    BY <1>5, <2>2
  <2>4. sources = inputs
    BY <2>3 DEF DoneInv, InputInv
  <2>5. all = TRUE
    BY <1>5, <2>1
  <2>6. ProgramOf(Parts) = Made("program", sources, all)
    BY DEF ProgramOf
  <2> HIDE DEF sources, all
  <2>7. QED
    BY <2>4, <2>5, <2>6
<1>8. files'[Output] = Made("program", inputs, TRUE)
  <2> DEFINE content == ProgramOf(Parts)
             made == With(files, Output, content)
  <2>1. files' = Without(made, Intermediate)
    BY DEF Link
  <2> HIDE DEF content
  <2>2. made[Output] = content
    BY <1>2, OutputIsAName, WithHolds DEF TypeInv
  <2> HIDE DEF made
  <2>3. Output \notin Intermediate
    BY <1>2 DEF Intermediate, DoneInv, ListInv
  <2>4. files'[Output] = made[Output]
    BY <2>1, <2>3, OutputIsAName, WithoutHolds
  <2>5. QED
    BY <1>7, <2>2, <2>4 DEF content
<1>9. EverythingDone'
  BY <1>1, <1>2, <1>8 DEF EverythingDone
<1>10. InputInv' /\ ListInv' /\ HeldInv'
  BY <1>1 DEF DoneInv, InputInv, ListInv, HeldInv
<1>11. QED
  BY <1>9, <1>10 DEF DoneInv

LEMMA OtherStepsKeepDone ==
    ASSUME IInv, DoneInv,
           \/ Begin \/ NextSource
           \/ CompileToCodeFails \/ CompilerError \/ MakingObjectFails \/ LinkFails
    PROVE  DoneInv'
<1>1. CASE Begin
  <2>1. /\ UNCHANGED <<asked, files, k, lists>> /\ at = "begin" /\ status # 0
        /\ \/ at' = "source" /\ status' = status
           \/ at' = "exit" /\ status' = 1
    BY <1>1 DEF Begin, Exit, IInv, TypeInv, Running
  <2>2. QED
    BY <2>1, MovingOnKeepsDone, FailingKeepsDone DEF IInv
<1>2. CASE NextSource
  <2>1. CASE at' = "compile" /\ UNCHANGED <<files, status>>
    <3>1. UNCHANGED <<asked, files, k, lists>> /\ at = "source" /\ status # 0
      BY <1>2, <2>1 DEF NextSource, IInv, TypeInv, Running
    <3>2. QED
      BY <2>1, <3>1, MovingOnKeepsDone DEF IInv
  <2>2. CASE GiveUp(files, created)
    BY <1>2, <2>2, FailingKeepsDone DEF NextSource, GiveUp, Exit
  <2>3. QED
    BY <1>2, <2>1, <2>2 DEF NextSource
<1>3. CASE CompileToCodeFails
  BY <1>3, FailingKeepsDone DEF CompileToCodeFails, GiveUp, Exit
<1>4. CASE CompilerError
  BY <1>4, FailingKeepsDone DEF CompilerError, Exit
<1>5. CASE MakingObjectFails
  BY <1>5, FailingKeepsDone DEF MakingObjectFails, GiveUp, Exit
<1>6. CASE LinkFails
  BY <1>6, FailingKeepsDone DEF LinkFails, GiveUp, Exit
<1>7. QED
  BY <1>1, <1>2, <1>3, <1>4, <1>5, <1>6

LEMMA StutterKeepsDone ==
    ASSUME DoneInv, UNCHANGED vars
    PROVE  DoneInv'
<1>1. /\ UNCHANGED <<asked, lists>>
      /\ UNCHANGED <<files, k, at, status, target, stop, inputs,
                     objects, written, created, created_objects>>
  BY DEF vars, asked, lists
<1>2. Behind' = Behind /\ Behind \subseteq 1 .. Len(inputs)
  BY <1>1, SameInputs DEF Behind
<1>3. Source' = Source /\ Code' = Code /\ Assembly' = Assembly
  BY <1>1, SameSource
<1>4. InputInv' /\ ListInv'
  BY <1>1, <1>2 DEF DoneInv, InputInv, ListInv, CodeOf, CodeSuffix
<1>5. HeldInv'
  BY <1>1, <1>2, <1>3, SameInputs DEF DoneInv, HeldInv
<1>6. EverythingDone'
  BY <1>1 DEF DoneInv, EverythingDone, CodeOf, CodeSuffix
<1>7. QED
  BY <1>4, <1>5, <1>6 DEF DoneInv

\* Where no two input files have one name and the disk takes what is written, a
\* run which ends with status zero did everything it was asked for: the code or
\* the object file of every input file, whole, or the program made of all of
\* them in the order they were named, whatever was there before and whichever
\* tools failed for other runs.
THEOREM EverythingIsDone ==
    ASSUME NamesApart, CodeIsWritten
    PROVE  Spec => []EverythingDone
<1>1. IInv /\ DoneInv /\ [Next]_vars => DoneInv'
  BY CompileToCodeKeepsDone, TranslateKeepsDone, AssembleKeepsDone, LastSourceKeepsDone,
     LinkKeepsDone, OtherStepsKeepDone, StutterKeepsDone
  DEF Next
<1>2. DoneInv => EverythingDone
  BY DEF DoneInv
<1>3. QED
  BY InitDone, Invariance, <1>1, <1>2, PTL DEF Spec

=============================================================================
