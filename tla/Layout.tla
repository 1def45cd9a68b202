------------------------------- MODULE Layout -------------------------------
(***************************************************************************)
(* Where src/nuocc_parser.cpp puts things: the members of a composite in   *)
(* it (ParseMembers), the parameters and variables of a function in its    *)
(* frame (AllocateLocal).  The parser takes the steps which are written    *)
(* here; LayoutSpec says when each of them may be taken, and nothing of    *)
(* the text which asks for it.                                             *)
(***************************************************************************)
EXTENDS SymbolTable

VARIABLE
    function        \* of the function being read: its type, the bytes of its
                    \* frame, the loops and switches around, its labels

laid == <<symbols, types, function>>

InFunction == function.type # NoType

(* What is in a table after a place of it.                                 *)
After(table, mark) == [k \in 1 .. Len(table) - mark |-> table[mark + k]]

IsTable(table) == table = After(table, 0) /\ Len(table) \in Nat

(* A mutant: what is put down begins where the last one ended.             *)
PlacedUnaligned(used, alignment) == used

(* Where a local variable begins in the frame of which `used` bytes are    *)
(* taken, or a member behind the ones before it.                           *)
Placed(used, alignment) ==
    IF used % alignment = 0 THEN used ELSE used + (alignment - (used % alignment))

EndOf(symbol) == symbol.offset + StorageSize(symbol)

(* Where each of some members or parameters begins which stand one after   *)
(* another, at a place its alignment divides.                              *)
Offsets(all) ==
    LET offset[k \in DOMAIN all] ==
            IF k = 1 THEN 0
            ELSE Placed(offset[k - 1] + StorageSize(all[k - 1]), SymbolAlignment(all[k]))
    IN  offset

(* The members of a union all begin at its start.                          *)
MemberOffsets(definition) ==
    LET all == types[definition].members
    IN  IF types[definition].kind = "union" THEN [k \in DOMAIN all |-> 0] ELSE Offsets(all)

(* A mutant: the room of a composite ends where its last member does.      *)
LaidOutShort(definition) ==
    LET all    == types[definition].members
        offset == MemberOffsets(definition)
    IN  [types[definition] EXCEPT
            !.members = [k \in DOMAIN all |-> [all[k] EXCEPT !.offset = offset[k]]],
            !.alignment = Max({1} \union {SymbolAlignment(all[k]) : k \in DOMAIN all}),
            !.size = Max({offset[k] + StorageSize(all[k]) : k \in DOMAIN all})]

(* The alignment is the largest of the members', and the size is rounded   *)
(* up to it.                                                               *)
LaidOut(definition) ==
    LET all       == types[definition].members
        offset    == MemberOffsets(definition)
        alignment == Max({1} \union {SymbolAlignment(all[k]) : k \in DOMAIN all})
    IN  [types[definition] EXCEPT
            !.members = [k \in DOMAIN all |-> [all[k] EXCEPT !.offset = offset[k]]],
            !.alignment = alignment,
            !.size = Placed(Max({offset[k] + StorageSize(all[k]) : k \in DOMAIN all}),
                            alignment)]

---------------------------------------------------------------------------
(* The steps of a definition.  It is known before its members are read,    *)
(* and has no size until they have been.                                   *)
BeginDefinition(kind, name) ==
    types' = Append(types, [kind |-> kind, name |-> name, members |-> <<>>,
                            size |-> 0, alignment |-> 1])

AddMember(definition, member) ==
    /\ StorageSize(member) # 0
    /\ types' = [types EXCEPT ![definition].members = Append(@, member)]

LayOut(definition) ==
    /\ types[definition].members # <<>>
    /\ types' = [types EXCEPT ![definition] = LaidOut(definition)]

IsOpen(definition) == types[definition].size = 0

(* What a member or a variable may be: of a type which was declared and    *)
(* has a size.                                                             *)
Fits(symbol) ==
    /\ {"type", "stype", "count", "offset"} \subseteq DOMAIN symbol
    /\ IsComposite(symbol.type) => symbol.type.composite \in 0 .. Len(types)
    /\ symbol.count \in Nat
    /\ StorageSize(symbol) # 0

DefinitionStep ==
    \/ /\ Len(types') > Len(types)
       /\ \E kind \in {"struct", "union"} : BeginDefinition(kind, Last(types').name)
    \/ \E d \in DOMAIN types \intersect DOMAIN types' :
           /\ IsOpen(d) /\ types'[d].members # <<>>
           /\ LET member == Last(types'[d].members)
              IN  \/ Fits(member) /\ AddMember(d, member)
                  \/ LayOut(d)

---------------------------------------------------------------------------
(* The steps of a frame.                                                   *)

TakenBy(parameters) == IF parameters = <<>> THEN 0 ELSE EndOf(Last(parameters))

(* Its parameters are the first a function has in its frame.               *)
EnterFunction ==
    /\ ~InFunction /\ InFunction'
    /\ function'.mark \in 0 .. Len(symbols')
    /\ LET parameters == After(symbols', function'.mark)
       IN  /\ \A k \in DOMAIN parameters :
                  Fits(parameters[k]) /\ parameters[k].offset = Offsets(parameters)[k]
           /\ function'.size = TakenBy(parameters)

StaysIn ==
    /\ InFunction /\ function'.type = function.type /\ function'.mark = function.mark
    /\ function'.size \in Nat

(* A name is declared in a function: a variable behind everything which is *)
(* in the frame, or something which needs no room there.                   *)
DeclareName ==
    /\ StaysIn /\ symbols' # <<>>
    /\ LET symbol == Last(symbols')
       IN  /\ symbols' = Append(symbols, symbol)
           /\ IF symbol.storage = "kLocal"
              THEN /\ Fits(symbol)
                   /\ symbol.offset = Placed(function.size, SymbolAlignment(symbol))
                   /\ function'.size >= EndOf(symbol)
              ELSE function'.size = function.size

(* Room is taken for what has no name: the counter of a loop which clears. *)
TakeRoom == StaysIn /\ UNCHANGED symbols /\ function'.size >= function.size

LeaveFunction == InFunction /\ ~InFunction'

StayOutside == ~InFunction /\ ~InFunction'

FrameStep ==
    EnterFunction \/ DeclareName \/ TakeRoom \/ LeaveFunction \/ StayOutside

---------------------------------------------------------------------------

LayoutInit == IsTable(symbols) /\ types = <<>> /\ ~InFunction

LayoutNext ==
    \/ DefinitionStep /\ UNCHANGED <<symbols, function>>
    \/ FrameStep /\ IsTable(symbols') /\ UNCHANGED types

LayoutSpec == LayoutInit /\ [][LayoutNext]_laid

---------------------------------------------------------------------------
(* In a composite which has been read no two members share a byte, unless  *)
(* it is a union; each lies inside it and where its type wants it, and so  *)
(* does it in each element of an array of such composites (ParseMembers).  *)
MembersApart ==
    \A d \in {e \in DOMAIN types : types[e].size # 0} :
        LET all == types[d].members
        IN  /\ \A k \in DOMAIN all :
                   /\ all[k].offset % SymbolAlignment(all[k]) = 0
                   /\ types[d].size % SymbolAlignment(all[k]) = 0
                   /\ EndOf(all[k]) <= types[d].size
            /\ types[d].kind = "struct" =>
                   \A j, k \in DOMAIN all : j < k => EndOf(all[j]) <= all[k].offset

(* The variables of the function which is being read lie in its frame,     *)
(* each where its type wants it, and no two of them share a byte           *)
(* (AllocateLocal).                                                        *)
LocalsApart ==
    LET locals == {s \in ToSet(After(symbols, function.mark)) : s.storage = "kLocal"}
    IN  InFunction =>
            \A s \in locals :
                /\ s.offset % SymbolAlignment(s) = 0
                /\ EndOf(s) <= function.size
                /\ \A r \in locals \ {s} : EndOf(s) <= r.offset \/ EndOf(r) <= s.offset

(* Nothing the parser puts down lies in the bytes of something else.       *)
StorageApart == MembersApart /\ LocalsApart
=============================================================================
