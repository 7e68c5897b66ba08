------------------------------ MODULE Language ------------------------------
(***************************************************************************)
(* The C that TuringOS programs are written in, by what it means: trees of *)
(* expressions and statements, the tokens that write them down with no     *)
(* more parentheses than C needs, and the value and the output they have   *)
(* by C's rules.  Compiled programs are compared with these.               *)
(*                                                                         *)
(* An expression or statement is a tuple that begins with its kind.  A     *)
(* program is a sequence of global declarations and functions; a function  *)
(* is a name and the statements of its body.  Strings are sequences of     *)
(* character codes, as they are written between the quotes.                *)
(***************************************************************************)
EXTENDS Integers, Sequences, SequencesExt

CONSTANTS
    IntMod,     \* Numbers are counted modulo this.
    Fuel        \* Turns of loops, and calls, a program may take: a bound.

ASSUME LanguageAssumption == IntMod \in Nat \ {0} /\ Fuel \in Nat

Num(v)          == <<"num", v>>
Char(v)         == <<"char", v>>
Var(x)          == <<"var", x>>
Un(op, e)       == <<"un", op, e>>
Bin(op, l, r)   == <<"bin", op, l, r>>
Set(x, e)       == <<"set", x, e>>
Invoke(f, args) == <<"call", f, args>>
Text(chars)     == <<"text", chars>>

Do(e)           == <<"do", e>>
Decl(x)         == <<"decl", x>>
DeclSet(x, e)   == <<"declset", x, e>>
If(c, s)        == <<"if", c, s>>
IfElse(c, s, t) == <<"ifelse", c, s, t>>
While(c, s)     == <<"while", c, s>>
For(i, c, n, s) == <<"for", i, c, n, s>>
ReturnOf(e)     == <<"return", e>>
Block(ss)       == <<"block", ss>>
Function(f, ss) == <<"function", f, ss>>

-----------------------------------------------------------------------------
(* Tokens.                                                                 *)

Tok(kind)   == [kind |-> kind]
Ident(x)    == [kind |-> "IDENT", name |-> x]

\* How tightly an expression binds.
OpLevel == [op \in {"||", "&&", "==", "!=", "<", "<=", ">", ">=", "+", "-", "*", "/"} |->
    CASE op = "||" -> 1 [] op = "&&" -> 2 [] op \in {"==", "!="} -> 3
      [] op \in {"<", "<=", ">", ">="} -> 4 [] op \in {"+", "-"} -> 5 [] op \in {"*", "/"} -> 6]

Level(e) == CASE e[1] = "set" -> 0 [] e[1] = "bin" -> OpLevel[e[2]] [] e[1] = "un" -> 7
              [] OTHER -> 8

RECURSIVE Written(_, _)
Written(e, level) ==
    IF Level(e) < level THEN <<Tok("(")>> \o Written(e, 0) \o <<Tok(")")>>
    ELSE CASE e[1] = "num"  -> <<[kind |-> "NUMBER", value |-> e[2]]>>
           [] e[1] = "char" -> <<[kind |-> "CHAR", value |-> e[2]]>>
           [] e[1] = "text" -> <<[kind |-> "STRING", chars |-> e[2]]>>
           [] e[1] = "var"  -> <<Ident(e[2])>>
           [] e[1] = "un"   -> <<Tok(e[2])>> \o Written(e[3], 7)
           [] e[1] = "bin"  -> Written(e[3], OpLevel[e[2]]) \o <<Tok(e[2])>>
                               \o Written(e[4], OpLevel[e[2]] + 1)
           [] e[1] = "set"  -> <<Ident(e[2]), Tok("=")>> \o Written(e[3], 0)
           [] e[1] = "call" ->
                 LET args == [i \in 1 .. Len(e[3]) |->
                                 (IF i = 1 THEN <<>> ELSE <<Tok(",")>>) \o Written(e[3][i], 0)]
                 IN  <<Ident(e[2]), Tok("(")>> \o FlattenSeq(args) \o <<Tok(")")>>

\* An if with an else needs braces around a first part that ends in an if
\* without one.
RECURSIVE Open(_)
Open(s) == CASE s[1] = "if" -> TRUE [] s[1] = "ifelse" -> Open(s[4])
             [] s[1] = "while" -> Open(s[3]) [] s[1] = "for" -> Open(s[5]) [] OTHER -> FALSE

RECURSIVE WrittenStatement(_)
WrittenStatement(s) ==
    LET Parens(e) == <<Tok("(")>> \o Written(e, 0) \o <<Tok(")")>>
        Body(ss)  == <<Tok("{")>>
                     \o FlattenSeq([i \in 1 .. Len(ss) |-> WrittenStatement(ss[i])])
                     \o <<Tok("}")>>
    IN  CASE s[1] = "do"      -> Written(s[2], 0) \o <<Tok(";")>>
          [] s[1] = "decl"    -> <<Tok("int"), Ident(s[2]), Tok(";")>>
          [] s[1] = "declset" -> <<Tok("int"), Ident(s[2]), Tok("=")>>
                                 \o Written(s[3], 0) \o <<Tok(";")>>
          [] s[1] = "if"      -> <<Tok("if")>> \o Parens(s[2]) \o WrittenStatement(s[3])
          [] s[1] = "ifelse"  ->
                <<Tok("if")>> \o Parens(s[2])
                \o (IF Open(s[3]) THEN Body(<<s[3]>>) ELSE WrittenStatement(s[3]))
                \o <<Tok("else")>> \o WrittenStatement(s[4])
          [] s[1] = "while"   -> <<Tok("while")>> \o Parens(s[2]) \o WrittenStatement(s[3])
          [] s[1] = "for"     ->
                <<Tok("for"), Tok("(")>> \o Written(s[2], 0) \o <<Tok(";")>>
                \o Written(s[3], 0) \o <<Tok(";")>> \o Written(s[4], 0) \o <<Tok(")")>>
                \o WrittenStatement(s[5])
          [] s[1] = "return"  -> <<Tok("return")>> \o Written(s[2], 0) \o <<Tok(";")>>
          [] s[1] = "block"   -> Body(s[2])
          [] s[1] = "function" -> <<Tok("int"), Ident(s[2]), Tok("("), Tok(")")>> \o Body(s[3])

Tokens(program) ==
    FlattenSeq([i \in 1 .. Len(program) |-> WrittenStatement(program[i])])

-----------------------------------------------------------------------------
(* Meaning.  A state st has the program, the values of the variables, the  *)
(* input not read yet, the output, the last line read, the fuel left, the  *)
(* value of the last expression (v), whether a return was met, and ok,     *)
(* which is FALSE once something is undefined or the fuel is spent.        *)

Byte2Int(v) == v % IntMod
Truth(b)    == IF b THEN 1 ELSE 0

Operation(op, l, r) ==
    CASE op = "+"  -> (l + r) % IntMod
      [] op = "-"  -> (l - r) % IntMod
      [] op = "*"  -> (l * r) % IntMod
      [] op = "/"  -> l \div r
      [] op = "==" -> Truth(l = r)    [] op = "!=" -> Truth(l # r)
      [] op = "<"  -> Truth(l < r)    [] op = "<=" -> Truth(l <= r)
      [] op = ">"  -> Truth(l > r)    [] op = ">=" -> Truth(l >= r)

Value(st, v)  == [st EXCEPT !.v = v]
Stuck(st)     == [st EXCEPT !.ok = FALSE]
Emit(st, cs) == IF st.ok THEN [st EXCEPT !.output = @ \o cs] ELSE st

\* What an escape stands for, by its character after the backslash.
Escape == [c \in {110, 114, 116, 92, 34, 39} |->
              CASE c = 110 -> 10 [] c = 114 -> 13 [] c = 116 -> 9 [] OTHER -> c]

\* A character is escaped when an odd number of backslashes in a row stands
\* before it.
IsEscaped(chars, i) ==
    Cardinality({j \in 1 .. i - 1 : \A k \in j .. i - 1 : chars[k] = 92}) % 2 = 1

\* What may stand between quotes: every escape is one of the above, the
\* last one is complete, and no quote ends the string.
IsText(chars) ==
    /\ \A i \in 1 .. Len(chars) :
          IF IsEscaped(chars, i) THEN chars[i] \in DOMAIN Escape ELSE chars[i] # 34
    /\ ~IsEscaped(chars, Len(chars) + 1)

\* The characters that a string means.
Meant(chars) ==
    FlattenSeq([i \in 1 .. Len(chars) |->
        IF IsEscaped(chars, i) THEN <<Escape[chars[i]]>>
        ELSE IF chars[i] = 92 THEN <<>> ELSE <<chars[i]>>])

\* A line as it is typed: a backspace takes back a character, on the screen
\* too.
Edit(st, c) ==
    IF c # 8 THEN [st EXCEPT !.line = Append(@, c)]
    ELSE IF st.line = <<>> THEN st
    ELSE [Emit(st, <<8, 32, 8>>) EXCEPT !.line = Front(@)]

Known(st, x)     == x \in DOMAIN st.vars
Assign(st, x, v) == [st EXCEPT !.vars = [y \in DOMAIN @ \cup {x} |-> IF y = x THEN v ELSE @[y]]]

BodyOf(st, f) == LET i == CHOOSE j \in 1 .. Len(st.program) :
                              st.program[j][1] = "function" /\ st.program[j][2] = f
                 IN  Block(st.program[i][3])

RECURSIVE Eval(_, _), Exec(_, _)

\* getchar, putchar, puts, readline, linelen, lineget, and functions
\* without parameters.
Called(f, args, st) ==
    LET arg  == IF args = <<>> THEN st ELSE Eval(args[1], st)
        ends == {i \in 1 .. Len(st.input) : st.input[i] = 10}
        eol  == CHOOSE i \in ends : \A j \in ends : i <= j
    IN  CASE f = "getchar"  -> IF st.input = <<>> THEN Value(st, 0)
                               ELSE [Value(st, Head(st.input)) EXCEPT !.input = Tail(@)]
          [] f = "putchar"  -> Emit(arg, <<arg.v % 256>>)
          [] f = "puts"     -> IF ~IsText(args[1][2]) THEN Stuck(st)
                               ELSE Value(Emit(st, Append(Meant(args[1][2]), 10)), 0)
          [] f = "readline" ->
                IF ends = {} THEN [Stuck(st) EXCEPT !.ended = TRUE]
                ELSE FoldLeft(Edit, [Value(st, 0) EXCEPT !.line = <<>>,
                                                         !.input = SubSeq(@, eol + 1, Len(@))],
                              SubSeq(st.input, 1, eol - 1))
          [] f = "linelen"  -> Value(st, Len(st.line))
          [] f = "lineget"  -> Value(arg, IF arg.v < Len(st.line) THEN st.line[arg.v + 1] ELSE 0)
          [] OTHER          ->
                LET done == Exec(BodyOf(st, f), [st EXCEPT !.fuel = @ - 1])
                IN  IF st.fuel = 0 THEN Stuck(st)
                    ELSE [done EXCEPT !.returned = FALSE, !.v = IF done.returned THEN @ ELSE 0]

Eval(e, st) ==
    IF ~st.ok THEN st
    ELSE CASE e[1] \in {"num", "char"} -> Value(st, Byte2Int(e[2]))
           [] e[1] = "var" -> IF Known(st, e[2]) THEN Value(st, st.vars[e[2]]) ELSE Stuck(st)
           [] e[1] = "set" -> LET r == Eval(e[3], st) IN Assign(r, e[2], r.v)
           [] e[1] = "un"  -> LET r == Eval(e[3], st)
                              IN  Value(r, CASE e[2] = "+" -> r.v
                                             [] e[2] = "-" -> (-r.v) % IntMod
                                             [] e[2] = "!" -> Truth(r.v = 0))
           [] e[1] = "call" -> Called(e[2], e[3], st)
           [] e[1] = "bin" /\ e[2] \in {"&&", "||"} ->
                 LET l == Eval(e[3], st)
                     r == Eval(e[4], l)
                 IN  IF (l.v = 0) = (e[2] = "&&") THEN Value(l, Truth(l.v # 0))
                     ELSE Value(r, Truth(r.v # 0))
           [] e[1] = "bin" /\ e[2] \notin {"&&", "||"} ->
                 LET l == Eval(e[3], st)
                     r == Eval(e[4], l)
                 IN  IF e[2] = "/" /\ r.v = 0 THEN Stuck(r)
                     ELSE Value(r, Operation(e[2], l.v, r.v))

Exec(s, st) ==
    LET test == Eval(s[2], st)
        more == IF st.fuel = 0 THEN Stuck(test)
                ELSE Exec(s, Exec(s[3], [test EXCEPT !.fuel = @ - 1]))
    IN  IF ~st.ok \/ st.returned THEN st
        ELSE CASE s[1] = "do"      -> test
               [] s[1] = "decl"    -> Assign(st, s[2], 0)
               [] s[1] = "declset" -> LET r == Eval(s[3], st) IN Assign(r, s[2], r.v)
               [] s[1] = "return"  -> [test EXCEPT !.returned = TRUE]
               [] s[1] = "if"      -> IF test.v # 0 THEN Exec(s[3], test) ELSE test
               [] s[1] = "ifelse"  -> Exec(IF test.v # 0 THEN s[3] ELSE s[4], test)
               [] s[1] = "while"   -> IF ~test.ok \/ test.v = 0 THEN test ELSE more
               [] s[1] = "for"     ->
                     Exec(While(s[3], Block(<<s[5], Do(s[4])>>)), test)
               [] s[1] = "block"   -> FoldLeft(LAMBDA acc, t : Exec(t, acc), st, s[2])

\* Globals get their initial values, or 0, and main runs.
Meaning(program, input) ==
    LET start  == [program |-> program, vars |-> << >>, input |-> input, output |-> <<>>,
                   line |-> <<>>, fuel |-> Fuel, v |-> 0, returned |-> FALSE, ok |-> TRUE,
                   ended |-> FALSE]
        global == FoldLeft(LAMBDA acc, d : IF d[1] = "function" THEN acc ELSE Exec(d, acc),
                           start, program)
        main   == Called("main", <<>>, global)
    IN  [value |-> main.v, output |-> main.output, ok |-> main.ok, ended |-> main.ended]
=============================================================================
