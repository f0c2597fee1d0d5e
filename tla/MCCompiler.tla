----------------------------- MODULE MCCompiler -----------------------------
(***************************************************************************)
(* Programs for model checking Compiler.                                   *)
(***************************************************************************)
EXTENDS Compiler

Lists == INSTANCE SequencesExt

None == <<>>
NoInstrs == {}

Const(n) == Leaf("CONST", n)
Var(name) == Leaf("VAR", name)
KVar(kword) == Leaf("KVAR", kword)
Unary(op, right) == Op(op, NoNode, right)
Def(name) == Unary("VDEF", Var(name))
Set(name, value) == Op("ASSIGN", Var(name), value)
Then(first, last) == Op("ENDL", first, last)
Chain(statements) == Lists!FoldLeft(Then, NoNode, statements)
Function(name, args, body) == Op("FDEF", Var(name), Op("SEP", args, body))
Call(name) == Func(name, NoNode)

Write(target, value) == Op("ASSIGN", target, value)
Five == Const(5)
Equal == Op("CEQ", Var("a"), Five)

Values == {Five, KVar("CIO"), Op("ADD", Var("a"), Five), Op("SUB", Var("a"), Var("a"))}
Conditions == {Const(0), Const(1), Var("a"), Equal, Unary("BOOL", Equal), Op("BAND", Var("a"), Five)}

(* What may stand where variable a is defined.                             *)
Simple ==
  {NoNode, Def("b"), Five, Var("a"), Call("f"), KVar("TRAP"), KVar("TEMP"), KVar("BAD"),
   Op("ADD", Five, Five), Unary("VDEF", Op("COMMA", Var("a"), Var("b"))),
   Unary("VDEF", NoNode), Op("EQARTL", Var("a"), Five)}
  \cup {Set("a", v) : v \in Values}
  \cup {Op("ASSIGN", KVar(kword), Five) : kword \in {"CIO", "NULL", "EXIT"}}
  \cup {Op("ASSIGN", Op(op, Var("a"), NoNode), Five) : op \in {"CER", "CEL"}}

Bodies ==
  {Def("b"), Set("a", Five), Then(Def("b"), Set("b", Var("a"))), Then(Def("a"), Set("a", Five)),
   Op("IF", Equal, Def("b")), Op("WHILE", Equal, Op("IF", Var("a"), Set("a", Five)))}
Branching == {Op(op, c, b) : op \in {"IF", "WHILE"}, c \in Conditions, b \in Bodies}

(* Reported errors and what is compiled around them, a name used behind    *)
(* its block, and the two lists that compile themselves.                   *)
Faulty ==
  {Set("a", NoNode), Op("ASSIGN", NoNode, Five), Op("ASSIGN", Five, Five), Set("a", Equal),
   Op("ASSIGN", Unary("DEREF", Var("a")), Five), Op("ASSIGN", Op("ADD", Five, Five), Five),
   Set("a", Unary("ADD", Five)), Op("ASSIGN", KVar("TRAP"), Five), Set("a", Call("g")),
   Unary("DEREF", Var("a")), Op("SEP", Five, Five), Var("x"),
   Op("IF", NoNode, Five), Op("IF", Unary("CEQ", Five), Five),
   Op("FDEF", Five, Five), Op("FDEF", Five, Op("SEP", NoNode, Five)),
   Function("g", Five, NoNode), Func("f", Five), Func("f", Op("COMMA", Five, Five)),
   Set("a", Then(Five, Five)), Then(Def("c"), Def("d"))}

(* A function in front of it all, with a body of its own.                  *)
FuncBodies ==
  {NoNode, Def("b"), Then(Def("a"), Set("a", Five)), Then(Def("a"), Op("WHILE", Equal, Call("f")))}

InProgram(body, statement, last) ==
  Then(Then(Then(Then(Function("f", NoNode, body), Def("a")), statement), last), NoNode)

Nested == {Op(op, Equal, b) : op \in {"IF", "WHILE"}, b \in Bodies}

(* Functions that call each other, themselves and one that is defined in   *)
(* them, and values that are handed on.                                    *)
Calling ==
  {Chain(<<Function("f", NoNode, Chain(<<Def("a"), Set("a", Five)>>)),
           Function("g", NoNode, Chain(<<Call("f"), Call("g")>>)), Call("f")>>),
   Chain(<<Function("f", NoNode, Chain(<<Function("g", NoNode, Chain(<<Def("a"), Set("a", Five)>>)),
                                         Def("b"), Call("g")>>)), Call("f")>>),
   Chain(<<Def("a"), Def("b"), Set("a", Set("b", Five)), Set("a", Write(KVar("TEMP"), Five)),
           Set("b", Write(KVar("CIO"), Var("a")))>>)}

-----------------------------------------------------------------------------
(* What the back end takes without an error, and without making sense.     *)

(* Values asked of what has none: where there is a variable to lose, where *)
(* there is nothing, and in the condition of a loop.                       *)
NoValues ==
  {KVar("TEMP"), KVar("NULL"), KVar("BAD"), Def("c"), Op("IF", Five, Five), Op("SEP", Five, Five),
   Unary("SUB", Five), Write(KVar("NULL"), Five)}
AsksForNothing ==
  {Chain(<<Def("a"), Set("a", v)>>) : v \in NoValues}
  \cup {Chain(<<Write(KVar("CIO"), v)>>) : v \in NoValues}
  \cup {Chain(<<Def("a"), Op("WHILE", Op("CEQ", v, Five), Set("a", Five))>>) : v \in NoValues}

(* Names outside of their functions: a variable around a function, and a   *)
(* parameter, a variable and a function behind the one they belong to.     *)
NamesAstray ==
  {Chain(<<Def("a"), Function("f", NoNode, Set("a", Five)), Call("f")>>),
   Chain(<<Function("f", Var("p"), NoNode), Set("p", Five)>>),
   Chain(<<Function("f", NoNode, Def("b")), Set("b", Five)>>),
   Chain(<<Function("f", NoNode, Function("g", NoNode, NoNode)), Call("g")>>)}

(* More parameters than registers, a list of them that is none, a keyword  *)
(* nobody knows, errors forgotten behind a pointer, and a call of a second *)
(* function, which stands behind all the code of the caller's section.     *)
And(list, name) == Op("COMMA", list, Var(name))
Parameters(n) == Lists!FoldLeft(And, Var("p"), Times(n - 1, "q"))
Odd ==
  {Chain(<<Function("f", Parameters(n), NoNode)>>) : n \in 6 .. 7}
  \cup {Chain(<<Function("f", Op("ADD", Var("p"), Var("q")), NoNode)>>),
        Chain(<<Write(KVar("RETURN"), Five)>>),
        Chain(<<Def("a"), Set("a", Unary("DEREF", Var("a")))>>),
        Chain(<<Def("a"), Set("a", Unary("DEREF", Call("g")))>>),
        Chain(<<Function("f", NoNode, Chain(<<Def("a"), Set("a", Five), Set("a", Five)>>)),
                Function("g", NoNode, NoNode), Call("g")>>)}

Senseless == AsksForNothing \cup NamesAstray \cup Odd

-----------------------------------------------------------------------------
ProgramsToRun ==
  {InProgram(NoNode, s, t) : s \in Simple, t \in Simple}
  \cup {InProgram(NoNode, s, t) : s \in Branching, t \in {NoNode, Call("f")}}
  \cup {InProgram(Def("b"), s, t) : s \in Nested, t \in Nested}
  \cup {InProgram(NoNode, s, Set("a", Var("b"))) : s \in Nested \cup {Op("IF", Equal, Then(Def("b"), Def("c")))}}
  \cup {InProgram(b, s, Call("f")) : b \in FuncBodies, s \in {Def("b")} \cup Nested}
  \cup {InProgram(NoNode, s, t) : s \in Faulty, t \in {NoNode, Five}}
  \cup {Then(Function("f", args, NoNode), Func("f", Five)) :
          args \in {Var("p"), Op("COMMA", Var("p"), Var("q"))}}
  \cup Calling \cup Senseless

-----------------------------------------------------------------------------
(* Programs on which the code departs from what is written about it.       *)

(* A function that prints its argument.                                    *)
UsesParameter ==
  {Then(Function("f", Var("p"), Op("ASSIGN", KVar("CIO"), Var("p"))), Func("f", Five))}

(* Two branches with nothing in them.                                      *)
EmptyBranches ==
  {Then(Then(Def("a"), Op("IF", Equal, NoNode)), Op("IF", Equal, NoNode))}

(* A variable is set to a value that nothing leaves.                       *)
SetToNothing == {Chain(<<Def("a"), Set("a", KVar("TEMP"))>>)}
=============================================================================
