------------------------------- MODULE Codegen -------------------------------
(***************************************************************************)
(* The code generator of the tiny C compiler (cc_codegen in                *)
(* src/compiler/compiler.c): from the nodes of the parser to the bytes of  *)
(* an 8080 program that is loaded at CodeBase.                             *)
(*                                                                         *)
(* A generator state g is the tokens and nodes, the code so far, the names *)
(* of the globals and locals (their places follow from their order), the   *)
(* functions with their bodies and addresses, the calls whose address is   *)
(* still to be filled in, whether the last statement returned, and ok,     *)
(* which stays FALSE once generation has failed.  Addresses are those in   *)
(* memory; 0 stands for the -1 of the code.  Names are taken to have at    *)
(* most 15 characters, as the code generator demands.                      *)
(***************************************************************************)
EXTENDS Integers, Sequences, SequencesExt, Outcome

CONSTANTS
    CodeBase,       \* 0x0100, where programs are loaded.
    GlobalBase,     \* 0x2000, the first global variable.
    Scratch,        \* 0x20FC, where && and || keep their left operand.
    StackTop,       \* 0xFDFF.
    MaxCode,        \* Bytes of code that cc_compile has room for (16384).
    MaxSymbols,     \* Globals, locals of a function, and calls ahead of the
                    \* function's code (64 of each).
    MaxFunctions    \* 32.

cg_emit(g, bytes) ==
    IF g.ok /\ Len(g.code) + Len(bytes) <= MaxCode THEN [g EXCEPT !.code = @ \o bytes]
    ELSE Fail(g)

Addr(a) == <<a % 256, a \div 256>>

cg_pos(g) == CodeBase + Len(g.code)

\* A jump whose address is not known yet, and where that address is to be.
cg_emit_jump_placeholder(g, opcode) == cg_emit(g, <<opcode, 0, 0>>)
Hole(g) == Len(g.code) - 1

cg_patch_jump(g, hole, target) ==
    IF g.ok THEN [g EXCEPT !.code[hole] = target % 256, !.code[hole + 1] = target \div 256]
    ELSE g

\* The name of an identifier's node, or "" for another node.
cg_ident_name(g, i) ==
    IF g.nodes[i].kind = "IDENT" THEN g.tokens[g.nodes[i].token].name ELSE ""

-----------------------------------------------------------------------------
(* Variables.                                                              *)

IsLocal(g, name)  == Contains(g.locals, name)
IsGlobal(g, name) == Contains(g.globals, name)
Place(seq, name)  == SelectInSeq(seq, LAMBDA known : known = name)

\* A local's distance from SP, at which the return address is.
LocalOffset(g, name) == Place(g.locals, name) + 1

\* The first global is one byte too low.
GlobalAddr_Low(g, name) == GlobalBase + Place(g.globals, name) - 2

GlobalAddr(g, name)  == GlobalBase + Place(g.globals, name) - 1

cg_add_local(g, name) ==
    IF name # "" /\ Len(g.locals) < MaxSymbols
    THEN [g EXCEPT !.locals = Append(@, name)] ELSE Fail(g)

cg_add_global(g, name) ==
    IF name # "" /\ Len(g.globals) < MaxSymbols
    THEN [g EXCEPT !.globals = Append(@, name)] ELSE Fail(g)

cg_emit_load_ref(g, name) ==
    IF IsLocal(g, name)
    THEN cg_emit(g, <<\h21>> \o Addr(LocalOffset(g, name)) \o <<\h39, \h7E>>)
    ELSE cg_emit(g, <<\h3A>> \o Addr(GlobalAddr(g, name)))

cg_emit_store_ref(g, name) ==
    IF IsLocal(g, name)
    THEN cg_emit(g, <<\h47, \h21>> \o Addr(LocalOffset(g, name)) \o <<\h39, \h70, \h78>>)
    ELSE cg_emit(g, <<\h32>> \o Addr(GlobalAddr(g, name)))

-----------------------------------------------------------------------------
(* Operators.  The left operand is in B and the right one in A; blocks     *)
(* that start at address b jump to addresses in themselves.                *)

\* A becomes 1 unless it is 0.
Boolify(b) == <<\hB7, \h3E, 0, \hCA>> \o Addr(b + 8) \o <<\h3E, 1>>

Multiply(b) == <<\h4F, \h16, 0, \h79, \hB7, \hCA>> \o Addr(b + 15)
               \o <<\h7A, \h80, \h57, \h0D, \hC3>> \o Addr(b + 3) \o <<\h7A>>

\* The quotient is 0 where the divisor is.
Divide(b) == <<\h4F, \h50, \h06, 0, \h79, \hB7, \hCA>> \o Addr(b + 24)
             \o <<\h7A, \hB9, \hDA>> \o Addr(b + 20)
             \o <<\h91, \h57, \h04, \hC3>> \o Addr(b + 9)
             \o <<\h78, \hC3>> \o Addr(b + 26) \o <<\h3E, 0>>

\* The jumps taken when the comparison holds; for > those when it does not.
CompareJumps == [op \in {"==", "!=", "<", "<=", ">", ">="} |->
    CASE op = "==" -> <<\hCA>> [] op = "!=" -> <<\hC2>> [] op = "<" -> <<\hDA>>
      [] op = "<=" -> <<\hDA, \hCA>> [] op = ">" -> <<\hDA, \hCA>> [] op = ">=" -> <<\hD2>>]

\* Equality is forgotten.
Compare_NoEqual(b, op) ==
    LET jumps == <<CompareJumps[op][1]>>
        true  == b + 5 + 3 * Len(jumps) + (IF op = ">" THEN 0 ELSE 3)
        To(a) == FlattenSeq([i \in 1 .. Len(jumps) |-> <<jumps[i]>> \o Addr(a)])
    IN  <<\h4F, \h78, \hB9, \h3E, 0>>
        \o (IF op = ">" THEN To(true + 2) ELSE To(true) \o <<\hC3>> \o Addr(true + 2))
        \o <<\h3E, 1>>

Compare(b, op) ==
    LET jumps == CompareJumps[op]
        true  == b + 5 + 3 * Len(jumps) + (IF op = ">" THEN 0 ELSE 3)
        To(a) == FlattenSeq([i \in 1 .. Len(jumps) |-> <<jumps[i]>> \o Addr(a)])
    IN  <<\h4F, \h78, \hB9, \h3E, 0>>
        \o (IF op = ">" THEN To(true + 2) ELSE To(true) \o <<\hC3>> \o Addr(true + 2))
        \o <<\h3E, 1>>

\* Both operands are made 0 or 1; the left one comes from Scratch.
Logical(b, combine) ==
    Boolify(b) \o <<\h4F, \h3A>> \o Addr(Scratch) \o Boolify(b + 12) \o <<combine>>

Operate(g, op) ==
    CASE op = "+" -> cg_emit(g, <<\h80>>)
      [] op = "-" -> cg_emit(g, <<\h4F, \h78, \h91>>)
      [] op = "*" -> cg_emit(g, Multiply(cg_pos(g)))
      [] op = "/" -> cg_emit(g, Divide(cg_pos(g)))
      [] op \in DOMAIN CompareJumps -> cg_emit(g, Compare(cg_pos(g), op))
      [] op = "&&" -> cg_emit(g, Logical(cg_pos(g), \hA1))
      [] op = "||" -> cg_emit(g, Logical(cg_pos(g), \hB1))
      [] OTHER -> Fail(g)

-----------------------------------------------------------------------------
(* Calls.                                                                  *)

\* MOV C,A; MVI A,2; OUT 1; MOV A,C
ConoutA == <<\h4F, \h3E, 2, \hD3, 1, \h79>>

\* MVI A,f; OUT 1
Syscall(f) == <<\h3E, f, \hD3, 1>>

\* The functions that are BIOS calls: those that take nothing, and those
\* that take one value, which is in A.
Nothing == [linelen |-> Syscall(\h19)]
           @@ [f \in {"listdir", "namend", "runend", "delend", "ccend", "readline"} |->
                  Syscall(CASE f = "listdir" -> \h0F [] f = "namend" -> \h13
                            [] f = "runend" -> \h14  [] f = "delend" -> \h15
                            [] f = "ccend" -> \h16   [] f = "readline" -> \h17) \o <<\h3E, 0>>]

One == [putchar |-> ConoutA,
        namech  |-> <<\h4F>> \o Syscall(\h12) \o <<\h3E, 0>>,
        lineget |-> <<\h4F>> \o Syscall(\h18)]

Backslash == 92

\* n, r, t, the backslash and both quotes; after a backslash another
\* character is the backslash, and is itself lost.
Escaped(c) == CASE c = 110 -> 10 [] c = 114 -> 13 [] c = 116 -> 9
                [] c \in {92, 34, 39} -> c [] OTHER -> Backslash

\* The characters that are printed for those between the quotes.
RECURSIVE Decoded(_)
Decoded(chars) ==
    IF chars = <<>> THEN <<>>
    ELSE IF chars[1] = Backslash /\ Len(chars) > 1
    THEN <<Escaped(chars[2])>> \o Decoded(SubSeq(chars, 3, Len(chars)))
    ELSE <<chars[1]>> \o Decoded(Tail(chars))

\* The characters of a string, one by one, and a newline; the value is 0.
Puts(chars) ==
    LET printed == Append(Decoded(chars), 10)
    IN  FlattenSeq([i \in 1 .. Len(printed) |-> <<\h3E, printed[i]>> \o ConoutA]) \o <<\h3E, 0>>

cg_emit_puts_string_literal(g, i) ==
    IF g.nodes[i].kind = "LITERAL" /\ g.tokens[g.nodes[i].token].kind = "STRING"
    THEN cg_emit(g, Puts(g.tokens[g.nodes[i].token].chars))
    ELSE Fail(g)

\* The first function of that name, or 0.
cg_find_function(g, name) == SelectInSeq(g.functions, LAMBDA f : f.name = name)

cg_add_pending_call(g, name, hole) ==
    IF Len(g.pending) < MaxSymbols
    THEN [g EXCEPT !.pending = Append(@, [name |-> name, hole |-> hole])]
    ELSE Fail(g)

\* A call of function f, if there is one.
CallOf(g, name, f) ==
    IF f = 0 THEN Fail(g)
    ELSE IF g.functions[f].addr # 0 THEN cg_patch_jump(g, Hole(g), g.functions[f].addr)
    ELSE cg_add_pending_call(g, name, Hole(g))

RECURSIVE cg_expr(_, _), ArgumentsFrom(_, _)

\* The arguments are evaluated, and their values lost.
ArgumentsFrom(g, i) ==
    IF i = 0 THEN g
    ELSE Then(cg_expr(g, i), LAMBDA arg : ArgumentsFrom(arg, g.nodes[i].next))

\* A call of name, with the arguments from node arg on.
cg_call(g, name, arg) ==
    LET alone == arg # 0 /\ g.nodes[arg].next = 0
    IN  CASE name = "" -> Fail(g)
          [] name = "getchar" -> cg_emit(g, Syscall(1))
          [] name = "puts" -> IF alone THEN cg_emit_puts_string_literal(g, arg) ELSE Fail(g)
          [] name \in DOMAIN Nothing -> IF arg = 0 THEN cg_emit(g, Nothing[name]) ELSE Fail(g)
          [] name \in DOMAIN One -> IF alone THEN cg_emit(cg_expr(g, arg), One[name]) ELSE Fail(g)
          [] OTHER ->
                Then(cg_emit_jump_placeholder(ArgumentsFrom(g, arg), \hCD), LAMBDA h :
                    CallOf(h, name, cg_find_function(h, name)))

-----------------------------------------------------------------------------
(* Expressions: the value is left in A.                                    *)

\* The left operand goes to B, and for && and || to Scratch too.
Keep(g, op) ==
    cg_emit(g, (IF op \in {"&&", "||"} THEN <<\h32>> \o Addr(Scratch) ELSE <<>>) \o <<\h47>>)

\* Both operands are evaluated, whatever the operator and the first one are.
cg_binop(g, n) ==
    Operate(cg_expr(Keep(cg_expr(g, n.left), n.op), n.right), n.op)

cg_unop(g, op) ==
    CASE op = "+" -> g
      [] op = "-" -> cg_emit(g, <<\h4F, \h3E, 0, \h91>>)
      [] op = "!" -> cg_emit(g, Boolify(cg_pos(g)) \o <<\hEE, 1>>)

\* A variable that is assigned to and was never declared becomes a global.
cg_assign(g, name) ==
    Then(IF IsLocal(g, name) \/ IsGlobal(g, name) THEN g ELSE cg_add_global(g, name),
         LAMBDA known : cg_emit_store_ref(known, name))

cg_load(g, name) ==
    IF IsLocal(g, name) \/ IsGlobal(g, name) THEN cg_emit_load_ref(g, name) ELSE Fail(g)

cg_expr(g, i) ==
    IF ~g.ok \/ i = 0 THEN Fail(g)
    ELSE LET n == g.nodes[i]
         IN  CASE n.kind = "LITERAL" -> cg_emit(g, <<\h3E, n.value % 256>>)
               [] n.kind = "BINOP"   -> cg_binop(g, n)
               [] n.kind = "UNOP"    -> Then(cg_expr(g, n.left), LAMBDA v : cg_unop(v, n.op))
               [] n.kind = "ASSIGN"  ->
                     Then(cg_expr(g, n.right), LAMBDA v : cg_assign(v, cg_ident_name(g, n.left)))
               [] n.kind = "CALL"    -> cg_call(g, cg_ident_name(g, n.left), n.right)
               [] n.kind = "IDENT"   -> cg_load(g, cg_ident_name(g, i))
               [] OTHER -> Fail(g)

-----------------------------------------------------------------------------
(* Statements; g.returned is saw_return.                                   *)

\* A is 0, the value of a declaration or a return without one.
Zero(g) == cg_emit(g, <<\h3E, 0>>)

ValueOf(g, i) == IF i = 0 THEN Zero(g) ELSE cg_expr(g, i)

\* ORA A; JZ to a place still to come.
cg_jump_if_zero_expr(g, i) == cg_emit_jump_placeholder(cg_emit(cg_expr(g, i), <<\hB7>>), \hCA)

JumpBack(g, a) == cg_emit(g, <<\hC3>> \o Addr(a))

RECURSIVE cg_stmt(_, _), StatementsFrom(_, _)

\* What comes after a return is not translated.
StatementsFrom(g, i) ==
    IF i = 0 THEN g
    ELSE Then(cg_stmt(g, i), LAMBDA st :
            IF st.returned THEN st ELSE StatementsFrom(st, g.nodes[i].next))

cg_var_decl(g, n, name) ==
    Then(IF IsLocal(g, name) THEN g ELSE cg_add_local(g, name), LAMBDA known :
    Then(ValueOf(known, n.right), LAMBDA v : cg_emit_store_ref(v, name)))

\* The exit jump is never filled in.
Loop_NoExit(g, cond, body, step) ==
    Then(IF cond = 0 THEN g ELSE cg_jump_if_zero_expr(g, cond), LAMBDA head :
    Then(cg_stmt(head, body), LAMBDA did :
        IF did.returned THEN did
        ELSE JumpBack(IF step = 0 THEN did ELSE cg_expr(did, step), cg_pos(g))))

\* The loop that while and for share: a body that returns leaves the exit
\* jump as it is.
Loop(g, cond, body, step) ==
    Then(IF cond = 0 THEN g ELSE cg_jump_if_zero_expr(g, cond), LAMBDA head :
    Then(cg_stmt(head, body), LAMBDA did :
        IF did.returned THEN did
        ELSE Then(JumpBack(IF step = 0 THEN did ELSE cg_expr(did, step), cg_pos(g)), LAMBDA back :
                IF cond = 0 THEN back ELSE cg_patch_jump(back, Hole(head), cg_pos(back)))))

cg_for(g, n) ==
    Then(IF n.left = 0 THEN g ELSE cg_stmt(g, n.left), LAMBDA init :
        Loop(init, n.right, n.next, n.third))

\* Only when both parts return does the statement.
cg_if(g, n) ==
    Then(cg_jump_if_zero_expr(g, n.left), LAMBDA test :
    Then(cg_stmt(test, n.right), LAMBDA then :
    Then(IF n.third = 0 THEN then ELSE cg_emit_jump_placeholder(then, \hC3), LAMBDA over :
        LET side == [cg_patch_jump(over, Hole(test), cg_pos(over)) EXCEPT !.returned = FALSE]
        IN  IF n.third = 0 THEN side
            ELSE Then(cg_stmt(side, n.third), LAMBDA else :
                    [cg_patch_jump(else, Hole(over), cg_pos(else)) EXCEPT
                        !.returned = then.returned /\ @]))))

cg_return(g, n) == [cg_emit(ValueOf(g, n.left), <<\hC9>>) EXCEPT !.returned = TRUE]

cg_stmt(g, i) ==
    IF ~g.ok \/ i = 0 THEN Fail(g)
    ELSE LET n == g.nodes[i]
         IN  CASE n.kind = "RETURN"   -> cg_return(g, n)
               [] n.kind = "PROGRAM"  -> StatementsFrom(g, n.left)
               [] n.kind = "VAR_DECL" -> cg_var_decl(g, n, cg_ident_name(g, n.left))
               [] n.kind = "WHILE"    -> Loop(g, n.left, n.right, 0)
               [] n.kind = "FOR"      -> cg_for(g, n)
               [] n.kind = "IF"       -> cg_if(g, n)
               [] OTHER               -> cg_expr(g, i)

-----------------------------------------------------------------------------
(* Programs.                                                               *)

cg_add_function(g, name, body) ==
    IF Len(g.functions) < MaxFunctions
    THEN [g EXCEPT !.functions = Append(@, [name |-> name, body |-> body, addr |-> 0])]
    ELSE Fail(g)

\* A global or a function, node n, is noted.
Declare(g, n, name) ==
    IF n.kind = "FUNC_DECL" THEN cg_add_function(g, name, n.third)
    ELSE IF IsGlobal(g, name) THEN g ELSE cg_add_global(g, name)

\* All of them, from declaration i on.
RECURSIVE Collect(_, _)
Collect(g, i) ==
    IF i = 0 THEN g
    ELSE Then(Declare(g, g.nodes[i], cg_ident_name(g, g.nodes[i].left)), LAMBDA h :
            Collect(h, g.nodes[i].next))

\* The code of one function: one that does not end in a return returns 0.
FunctionCode(g, i) ==
    Then(cg_stmt([g EXCEPT !.functions[i].addr = cg_pos(g), !.locals = <<>>, !.returned = FALSE],
                 g.functions[i].body), LAMBDA body :
        IF body.returned THEN body ELSE cg_emit(Zero(body), <<\hC9>>))

\* The address of main, the last one if there are several, or else of the
\* first function.
MainAddr(g) == LET main == SelectLastInSeq(g.functions, LAMBDA f : f.name = "main")
               IN  g.functions[IF main = 0 THEN 1 ELSE main].addr

FillIn(g, call) == cg_patch_jump(g, call.hole, g.functions[cg_find_function(g, call.name)].addr)

\* LXI SP; CALL main; HLT.
Entry(g) == cg_emit(g, <<\h31>> \o Addr(StackTop) \o <<\hCD, 0, 0, \h76>>)

cc_codegen(tokens, nodes) ==
    LET start == [tokens |-> tokens, nodes |-> nodes, code |-> <<>>, globals |-> <<>>,
                  locals |-> <<>>, functions |-> <<>>, pending |-> <<>>,
                  returned |-> FALSE, ok |-> TRUE]
    IN  Then(Collect(start, nodes[1].left), LAMBDA known :
        IF known.functions = <<>> THEN Fail(known)
        ELSE Then(FoldLeft(FunctionCode, Entry(known),
                           [i \in 1 .. Len(known.functions) |-> i]), LAMBDA all :
                FoldLeft(FillIn, cg_patch_jump(all, 5, MainAddr(all)), all.pending)))
=============================================================================
