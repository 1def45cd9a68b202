---------------------------- MODULE FrameMachine ----------------------------
(***************************************************************************)
(* What the statements which give local variables their values leave in    *)
(* the frame of a function: the frame is a function from its offsets to    *)
(* bytes, and a statement makes another of it.  Only the trees such        *)
(* statements are made of are run, as the language says they are.          *)
(***************************************************************************)
EXTENDS StatementParser

Junk == 238

Signed(value, type) ==
    IF type = Plain("char") THEN value % 256
    ELSE IF PrimitiveSize(type) = 2
    THEN LET low == value % 65536 IN IF low < 32768 THEN low ELSE low - 65536
    ELSE value

MemberOffset(id) ==
    LET all == UNION {ToSet(types[d].members) : d \in DOMAIN types}
    IN  (CHOOSE member \in all : member.id = id).offset

Loaded(frame, offset, size) ==
    LET sum[k \in 0 .. size] ==
            IF k = 0 THEN 0 ELSE sum[k - 1] + frame[offset + k - 1] * Bytes(k - 1)
    IN  sum[size]

RECURSIVE Value(_, _), PlaceOf(_, _), Run(_, _), Loop(_, _)

Value(tree, frame) ==
    LET Kid(k) == Value(tree.kids[k], frame)
    IN  CASE tree.node = "IntLit" -> tree.num
          [] tree.node = "StrLit" -> TextAt(tree.num)
          [] tree.node = "Negate" -> -Kid(1)
          [] tree.node = "Widen" -> Kid(1)
          [] tree.node = "Cast" -> Signed(Kid(1), tree.type)
          [] tree.node = "Scale" -> Kid(1) * tree.num
          [] tree.node = "Address" -> tree.num
          [] tree.node = "Operator" /\ tree.of = "T_Plus" -> Kid(1) + Kid(2)
          [] tree.node = "Operator" /\ tree.of = "T_Star" -> Kid(1) * Kid(2)
          [] tree.node = "Operator" /\ tree.of = "T_LT" -> IF Kid(1) < Kid(2) THEN 1 ELSE 0
          [] tree.node = "Member" /\ IsArrayMember(tree) -> PlaceOf(tree, frame)
          [] OTHER -> Loaded(frame, PlaceOf(tree, frame), ValueSize(tree.type, types))

PlaceOf(tree, frame) ==
    CASE tree.node = "Identifier" -> tree.num
      [] tree.node = "Member" -> PlaceOf(tree.kids[1], frame) + MemberOffset(tree.of)
      [] tree.node = "Deref" -> Value(tree.kids[1], frame)

Filled(frame, offset, bytes) ==
    [n \in DOMAIN frame |->
        IF n - offset + 1 \in DOMAIN bytes THEN bytes[n - offset + 1] ELSE frame[n]]

Loop(tree, frame) ==
    IF Value(tree.kids[1], frame) = 0 THEN frame
    ELSE Loop(tree, Run(tree.kids[3], Run(tree.kids[2], frame)))

Run(tree, frame) ==
    CASE tree.node = "Glue" -> Run(tree.kids[2], Run(tree.kids[1], frame))
      [] tree.node = "For" -> Loop(tree, frame)
      [] tree.node = "Operator" ->
             LET size   == ValueSize(tree.kids[2].type, types)
                 target == PlaceOf(tree.kids[2], frame)
             IN  Filled(frame, target,
                        IF IsComposite(tree.kids[2].type)
                        THEN [k \in 1 .. size |->
                                 frame[PlaceOf(tree.kids[1], frame) + k - 1]]
                        ELSE BytesOf(Value(tree.kids[1], frame), size))
      [] OTHER -> frame

(* The frame of a function once its body has run in one full of junk.      *)
FrameOf(done) == Run(done.body, [n \in 0 .. done.size - 1 |-> Junk])

RECURSIVE DeclaresIn(_)
DeclaresIn(tree) ==
    IF tree.node = "Glue" THEN DeclaresIn(tree.kids[1]) \union DeclaresIn(tree.kids[2])
    ELSE IF tree.node = "Declare" THEN {tree} ELSE {}

(* The bytes of a variable of that frame.                                  *)
LocalBytes(done, name, size) ==
    LET at1 == (CHOOSE d \in DeclaresIn(done.body) :
                    d.of = Joint(name) \o "@" \o ToString(d.num)).num
    IN  [k \in 1 .. size |-> FrameOf(done)[at1 + k - 1]]
=============================================================================
