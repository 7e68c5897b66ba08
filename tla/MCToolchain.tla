---------------------------- MODULE MCToolchain ----------------------------
(***************************************************************************)
(* C programs for Toolchain, each compared with what it means.             *)
(***************************************************************************)
EXTENDS Toolchain, Compiler, Language

CONSTANTS
    Unsupported,    \* Programs that C allows and the compiler does not.
    Programs,   \* The programs of the run, one of the sets below.
    Values,     \* Operands.
    Cases       \* The programs with their inputs and what they must do.

\* What the program must do with its input, and how long its code is; no
\* step changes them.
VARIABLES wanted, size

-----------------------------------------------------------------------------
(* Programs that keep to what the code generator handles: no operation in  *)
(* the right operand of an arithmetic one, none of && and || in that of    *)
(* && and ||, locals in main only, no for, no while whose body is sure to  *)
(* return, no initial value of a global, no character literal, no code     *)
(* where the globals are.  Other programs are below.  Calls of the files,  *)
(* which Toolchain does not serve, and escapes that C or the compiler does *)
(* not know are left out as well.                                          *)

Main(ss) == Function("main", ss)

Small == {Num(3), Un("-", Num(2)), Un("!", Num(0)), Un("+", Invoke("getchar", <<>>))}

Arithmetic == {Bin(op, Num(v), r) : op \in DOMAIN OpLevel \ {"&&", "||"}, v \in Values, r \in Small}

Chains == {Bin(op, l, Num(2)) : op \in DOMAIN OpLevel \ {"&&", "||"}, l \in Arithmetic}

Sides == {Num(0), Bin("<", Num(2), Num(3)), Bin("-", Num(2), Num(2))}

Logic == LET logic == {Bin(op, l, r) : op \in {"&&", "||"}, l, r \in Sides}
         IN  logic \cup {Bin(op, l, r) : op \in {"&&", "||"}, l \in logic, r \in Sides}
                   \cup {Un("!", l) : l \in logic}

ExpressionPrograms ==
    {<<Main(<<ReturnOf(e)>>)>> : e \in Arithmetic \cup Chains \cup Logic}

X == Var("x")

Simple == {Do(Set("x", Bin("+", X, Num(1)))), Do(Invoke("putchar", <<X>>)), ReturnOf(X)}

Tests == {Bin("<", X, Num(2)), Bin("==", X, Num(0)), Un("!", X)}

\* Whether a statement always returns.
RECURSIVE Returns(_)
Returns(s) == CASE s[1] = "return" -> TRUE
                [] s[1] = "ifelse" -> Returns(s[3]) /\ Returns(s[4])
                [] s[1] = "block"  -> \E i \in 1 .. Len(s[2]) : Returns(s[2][i])
                [] OTHER -> FALSE

Under(tests, bodies, others) ==
    {If(c, s) : c \in tests, s \in bodies}
    \cup {IfElse(c, s, t) : c \in tests, s \in bodies, t \in others}
    \cup {IfElse(c, t, s) : c \in tests, s \in bodies, t \in others}
    \cup {While(c, s) : c \in tests, s \in {b \in bodies : ~Returns(b)}}

Shallow == Simple \cup Under(Tests, Simple, Simple)

Deep == Under({Bin("<", X, Num(3))}, Shallow, Simple)
        \cup {Block(<<s, t>>) : s \in Shallow, t \in Simple}
        \cup {While(Bin("<", X, Num(3)), Block(<<s, Do(Set("x", Bin("+", X, Num(1))))>>)) :
                  s \in {t \in Shallow : ~Returns(t)}}

StatementPrograms ==
    {<<Main(<<DeclSet("x", Invoke("getchar", <<>>)), s, Do(Invoke("putchar", <<Bin("+", X, Num(64))>>)),
              ReturnOf(X)>>)>> : s \in Shallow \cup Deep}

F == Invoke("f", <<>>)
G == Var("g")
Count == Do(Set("g", Bin("+", G, Num(1))))

\* Bodies of f: one that counts its calls, one that calls h before and after,
\* and one that calls itself.
Bodies ==
    {<<Count, ReturnOf(Bin("*", G, Num(2)))>>,
     <<Do(Set("g", Bin("-", Invoke("h", <<>>), G))), Do(Invoke("h", <<>>)), ReturnOf(G)>>,
     <<If(Bin("==", G, Num(4)), ReturnOf(Num(9))), Count, ReturnOf(Bin("-", F, Num(1)))>>}

Uses == {<<ReturnOf(F)>>, <<Do(F), ReturnOf(G)>>, <<ReturnOf(Bin("<", F, Num(9)))>>,
         <<DeclSet("x", F), Do(F), ReturnOf(Bin("+", X, G))>>,
         <<While(Bin("<", G, Num(4)), Block(<<Do(Invoke("putchar", <<F>>)), Count>>)), ReturnOf(G)>>}

\* The functions before main or after it.
CallPrograms ==
    LET main(use) == Main(<<Do(Set("g", Num(1)))>> \o use)
        h         == Function("h", <<Do(Set("g", Bin("+", G, Num(2)))),
                                     Do(Invoke("putchar", <<G>>)), ReturnOf(Num(3))>>)
    IN  UNION {{<<Decl("g"), Function("f", b), h, main(u)>>,
                <<main(u), Decl("g"), h, Function("f", b)>>} : b \in Bodies, u \in Uses}

\* Prints a line backwards, and a message.
LinePrograms ==
    {<<Decl("i"), Main(<<Do(Invoke("readline", <<>>)), DeclSet("x", Invoke("linelen", <<>>)),
          DeclSet("i", X),
          While(Var("i"), Block(<<Do(Set("i", Bin("-", Var("i"), Num(1)))),
                                  Do(Invoke("putchar", <<Invoke("lineget", <<Var("i")>>)>>))>>)),
          Do(Invoke("puts", <<Text(<<72, 105>>)>>)), ReturnOf(Invoke("lineget", <<X>>))>>)>>}

Says(chars) == Do(Invoke("puts", <<Text(chars)>>))

\* Short strings of A, n, backslashes and quotes, and all escapes.
EscapePrograms ==
    {<<Main(<<Says(s), ReturnOf(Num(0))>>)>> :
        s \in {t \in UNION {[1 .. n -> {65, 110, 92, 34}] : n \in 0 .. 4} : IsText(t)}
              \cup {<<92, 110, 92, 114, 92, 116, 92, 92, 92, 34, 92, 39, 39>>}}

\* Programs that write the first global and read it back, with more and more
\* code, and those of them that end below the globals.
GrowingPrograms ==
    {<<Decl("g"), Main(<<Do(Set("g", Num(66))), Says([i \in 1 .. n |-> 97]),
                         Do(Invoke("putchar", <<G>>)), ReturnOf(G)>>)>> : n \in 0 .. MaxCode \div 8}

Below == Len(Stub) + 1 .. GlobalBase - CodeBase

FullPrograms == {p \in GrowingPrograms : Len(cc_compile(Tokens(p))) \in Below}

SupportedPrograms == ExpressionPrograms \cup StatementPrograms \cup CallPrograms
                     \cup LinePrograms \cup EscapePrograms \cup FullPrograms

\* A name that is nowhere declared, a function that is nowhere defined, and
\* too many locals, functions, bytes of code and nodes.
UnsupportedPrograms ==
    LET Prints(s) == <<Main(<<Do(Invoke("putchar", <<Num(65)>>)), s, ReturnOf(Num(0))>>)>>
        names     == <<"p", "q", "r", "s">>
    IN  {Prints(Do(Var("y"))), Prints(Do(Invoke("k", <<>>))),
         Prints(Block([i \in 1 .. MaxSymbols + 1 |-> Decl(names[i])])),
         [i \in 1 .. MaxFunctions |-> Function(names[i], <<ReturnOf(Num(1))>>)]
            \o Prints(Do(Invoke("p", <<>>))),
         Prints(Do(Invoke("puts", <<Text([i \in 1 .. MaxCode \div 8 |-> 97])>>))),
         Prints(Block([i \in 1 .. MaxNodes |-> Do(Num(1))]))}

NoPrograms == {}

-----------------------------------------------------------------------------
(* Programs that C gives a meaning and the compiler another.               *)

Program(ss) == <<Main(ss)>>

\* 1 + 2 * 3 and 2 + (3 + 4).
NestedPrograms == {Program(<<ReturnOf(Bin("+", Num(1), Bin("*", Num(2), Num(3))))>>),
                   Program(<<ReturnOf(Bin("+", Num(2), Bin("+", Num(3), Num(4))))>>)}

\* 0 && (1 && 1).
NestedLogicPrograms ==
    {Program(<<ReturnOf(Bin("&&", Num(0), Bin("&&", Num(1), Num(1))))>>)}

\* for (x = 0; x < 3; x = x + 1) putchar(65); return x;
ForPrograms ==
    {Program(<<Decl("x"), For(Set("x", Num(0)), Bin("<", X, Num(3)), Set("x", Bin("+", X, Num(1))),
                              Do(Invoke("putchar", <<Num(65)>>))), ReturnOf(X)>>)}

\* while (0) return 5; return 9;
LoopReturnPrograms == {Program(<<While(Num(0), ReturnOf(Num(5))), ReturnOf(Num(9))>>)}

\* int f() { int x = 3; return x; }
CalleeLocalPrograms ==
    {<<Function("f", <<DeclSet("x", Num(3)), ReturnOf(X)>>), Main(<<ReturnOf(F)>>)>>}

\* int g = 5; int main() { return g; }
GlobalValuePrograms == {<<DeclSet("g", Num(5)), Main(<<ReturnOf(G)>>)>>}

\* 200 + 100 > 250
WidePrograms == {Program(<<ReturnOf(Bin(">", Bin("+", Num(200), Num(100)), Num(250)))>>)}

\* return 'A';
CharPrograms == {Program(<<ReturnOf(Char(65))>>)}

\* Code that goes on where the globals are.
LongPrograms == {p \in GrowingPrograms : Len(cc_compile(Tokens(p))) > GlobalBase - CodeBase}

-----------------------------------------------------------------------------
MCSources == {Tokens(p) : p \in Programs \cup Unsupported}

NoInput    == {<<>>}
SomeInputs == {<<>>, <<1>>, <<2, 97, 98, 8, 99, 10>>}

\* What an earlier program left in the memory.
MCImages == {[a \in (GlobalBase .. GlobalBase + 2) \cup {Scratch} \cup (StackTop - 4 .. StackTop + 2)
                 |-> 85]}

\* What a program that is not supported may do.
Nothing == [value |-> 0, output |-> <<>>, ok |-> FALSE, ended |-> FALSE]

Case(p, i, w) == [source |-> Tokens(p), input |-> i, wanted |-> w,
                  size |-> Len(cc_compile(Tokens(p)))]

MCCases ==
    {Case(p, i, Nothing) : p \in Unsupported, i \in Typed}
    \cup {c \in {Case(p, i, Meaning(p, i)) : p \in Programs, i \in Typed} :
              c.wanted.ok \/ c.wanted.ended}

MCInit == \E c \in Cases : Booted(c.source, c.input) /\ wanted = c.wanted /\ size = c.size

MCNext == ToolchainNext /\ UNCHANGED <<wanted, size>>

MCSpec == /\ MCInit /\ [][MCNext]_<<toolchainVars, wanted, size>>
          /\ WF_toolchainVars(Tick /\ UNCHANGED <<wanted, size>>)

-----------------------------------------------------------------------------
\* Whatever memory it starts in, a compiled program that has halted printed
\* what the C program prints and returned its value, with its stack empty;
\* one whose input ended in readline printed what came before.
ComputesMeaning ==
    Finished =>
        /\ con.output = wanted.output
        /\ wanted.ok => cpu.r["A"] = wanted.value % 256 /\ cpu.sp = StackTop

\* A program that the generator cannot translate becomes the stub, never a
\* part of the program, wherever the generator stopped: it prints nothing,
\* calls nothing, and when it halts it leaves the checksum.
AllOrStub ==
    wanted = Nothing =>
        /\ con.output = <<>> /\ cpu.sp = cpu_init.sp
        /\ Finished => A = Lo(Checksum) /\ cpu.r["B"] = Hi(Checksum)

\* A program that ends below the globals, be it by no more than a byte,
\* never writes over a byte of its own code, with a global, a local, the
\* place of && and ||, or its stack.
CodeIntact ==
    [][stage = "loaded" =>
        \A a \in CodeBase .. CodeBase + size - 1 : mem'[a] = mem[a]]_toolchainVars

\* Every program that C lets end comes to its HLT once it is started.
Terminates == stage = "loaded" ~> Finished
=============================================================================
