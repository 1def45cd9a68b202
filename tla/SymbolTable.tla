---------------------------- MODULE SymbolTable ----------------------------
(***************************************************************************)
(* src/utils/nuocc_symbol_table.cpp: the names of a program, the tags of   *)
(* its structs, unions and enums, and the definitions of its composite     *)
(* types.  A name is found from the latest one back, so that what a        *)
(* function declares hides what stands outside it until it is taken away.  *)
(***************************************************************************)
EXTENDS TypeCheck, SequencesExt

VARIABLES
    symbols,        \* every name known, the latest one last
    tags,           \* what comes after struct, union and enum
    types           \* the definitions, in the order they were begun

symbolic == <<symbols, tags, types>>

(* What is known of a name: `id` tells its storage from that of any other  *)
(* name, whatever that one is called.                                      *)
Symbol(name, id, stype, type) ==
    [name |-> name, id |-> id, stype |-> stype, type |-> type,
     storage |-> "kGlobal", static |-> FALSE, count |-> 0, num |-> 0,
     offset |-> 0, parameters |-> <<>>, variadic |-> FALSE, body |-> FALSE,
     values |-> <<>>, pieces |-> <<>>]

Variable(name, id, type) == Symbol(name, id, "kVariable", type)

SymbolAlignment(symbol) == ValueAlignment(symbol.type, types)

StorageSize(symbol) == SymbolStorageSize(symbol, types)

Spots(table, name) == {k \in DOMAIN table : table[k].name = name}

(* The latest thing of a name, in a set which is empty when there is none. *)
Latest(table, name) ==
    LET at == Spots(table, name) IN IF at = {} THEN {} ELSE {table[Max(at)]}

FindSymbol(name) == Latest(symbols, name)

Updated(table, symbol) == [table EXCEPT ![Max(Spots(table, symbol.name))] = symbol]

AddSymbol(symbol) == symbols' = Append(symbols, symbol)

UpdateSymbol(symbol) == symbols' = Updated(symbols, symbol)

FindTag(name) == Latest(tags, name)

AddTag(name, definition) ==
    tags' = Append(tags, [name |-> name, definition |-> definition])

Restore(mark) == symbols' = SubSeq(symbols, 1, mark)
=============================================================================
