-------------------------------- MODULE MCSasm --------------------------------
(***************************************************************************)
(* The instance of the assembler that TLC checks: a root file, a file to   *)
(* include and the body of a scope, with every way the names x and y may   *)
(* be bound and used from inside and outside the scope, every way files    *)
(* may include each other, and arrays small enough to be filled.           *)
(***************************************************************************)
EXTENDS SasmMeaning

CONSTANTS x, y, l, main, lib, body, missing

Lit(n) == [type |-> "int", value |-> n]
Str(t) == [type |-> "str", text |-> t]
Reg(r) == [type |-> "reg", value |-> r]
Use(n) == [type |-> "binding", name |-> n]
Fun(f, e) == [type |-> "funcall", name |-> f, args |-> <<e>>]

AB == Str(<<1, 2>>)
Empty == Str(<<>>)
Minus1 == Lit(31)
NoArgument == [type |-> "funcall", name |-> "len", args |-> <<>>]

Simple == {Lit(1), Lit(2), Minus1, AB, Empty, Str(<<3>>), Reg(2), Use(x), Use(y), Use(l)}
MCExpr == Simple \cup {Fun(f, e) : f \in {"len", "res", "ref", "val", "xyz"}, e \in Simple} \cup {NoArgument}

LabelS(n) == [kind |-> "label", name |-> n]
ConstS(n, e) == [kind |-> "const", name |-> n, value |-> e]
IncludeS(b) == [kind |-> "include", path |-> b]
EntryS(e) == [kind |-> "entry", value |-> e]
ScopeS(b) == [kind |-> "scope", body |-> b]
InstS(op, es) == [kind |-> "inst", op |-> op, operands |-> es]

Nop == InstS("NOP", <<>>)
One(e) == InstS("ONE", <<e>>)
Two(e, f) == InstS("TWO", <<e, f>>)

\* How x and y are bound, and how they are used.
ForX == {Lit(2), Minus1, AB, Empty, Use(y), Use(l), Fun("len", Use(y)), Fun("res", Lit(2)), Fun("res", Minus1), Fun("val", Reg(2))}
ForY == {Lit(1), Str(<<3>>), AB, Use(x), Use(l)}
Uses == {Use(x), Fun("len", Use(x)), Fun("res", Use(x)), Fun("val", Reg(2)), Fun("ref", Lit(1)), Fun("xyz", Use(x)), NoArgument}
Bodies == {<<ConstS(y, Lit(2)), One(Use(x))>>, <<One(Use(l)), LabelS(l), One(Use(x))>>,
           <<One(AB), One(Str(<<3>>))>>, <<One(Fun("len", Use(x))), Two(Use(y), Fun("ref", Reg(2)))>>,
           <<Two(Fun("val", Reg(2)), Fun("val", Reg(2)))>>, <<Two(Use(x), Fun("val", Reg(2)))>>}
Named3 == {[b \in {main, body} |->
              IF b = body THEN inner
              ELSE <<ConstS(x, ex), ScopeS(body), ConstS(y, ey), LabelS(l), Two(use, Use(y)), EntryS(Use(l))>>] :
             ex \in ForX, ey \in ForY, use \in Uses, inner \in Bodies}

\* How files include each other, from the root and from inside the scope.
Libs == {<<Nop, LabelS(l), One(Use(l))>>, <<IncludeS(lib), Nop>>, <<Nop, IncludeS(main)>>,
         <<IncludeS(missing)>>, <<ConstS(y, Lit(1)), One(Use(l)), ScopeS(body)>>}
Mains == {<<Nop, IncludeS(lib), LabelS(y), One(Use(y)), ScopeS(body), EntryS(e)>> : e \in {Use(y), Use(x), Lit(1)}}
         \cup {<<IncludeS(lib), IncludeS(lib), Nop>>, <<EntryS(Use(y)), ConstS(y, Lit(1)), EntryS(Use(y))>>,
               <<ScopeS(body), IncludeS(lib), LabelS(x), ConstS(y, Use(x)), One(Use(y)), EntryS(Use(y))>>}
Included == {[b \in {main, lib, body} |-> CASE b = main -> m [] b = lib -> i [] b = body -> s] :
               m \in Mains, i \in Libs, s \in {<<>>, <<IncludeS(lib), Nop>>, <<LabelS(l), One(Use(l))>>}}

MCSources == Named3 \cup Included
MCName == {x, y, l}
MCBlock == {main, lib, body, missing}
MCOpcode == {"NOP", "ONE", "TWO"}
MCOperandCount == [op \in MCOpcode |-> CASE op = "NOP" -> 0 [] op = "ONE" -> 1 [] op = "TWO" -> 2]
MCChar == 0 .. 3
=============================================================================
