------------------------------- MODULE Parser -------------------------------
(***************************************************************************)
(* The parser of the tiny C compiler (cc_parse in                          *)
(* src/compiler/compiler.c): recursive descent from a sequence of tokens   *)
(* to an array of nodes that point to each other by index.                 *)
(*                                                                         *)
(* A token has a kind, and a name, a value or characters where the kind    *)
(* has them; cutting the text into tokens is left out.  A parser state p   *)
(* is the tokens, the position, the nodes made so far, the index of the    *)
(* node the last operator made (at), and ok, which stays FALSE once        *)
(* parsing has failed: then no operator does anything more, as the C       *)
(* functions return -1 up to the top.  Indices start at 1, and 0 stands    *)
(* for the -1 of the code.                                                 *)
(***************************************************************************)
EXTENDS Integers, Sequences, Outcome

CONSTANT MaxNodes       \* Nodes the array of cc_compile takes (8192).

ASSUME ParserAssumption == MaxNodes \in Nat

Node == [kind |-> "UNKNOWN", value |-> 0, op |-> "EOF", token |-> 0,
         left |-> 0, right |-> 0, third |-> 0, next |-> 0]

Leaf(kind, i)  == [Node EXCEPT !.kind = kind, !.token = i]
Make(kind, l)  == [Node EXCEPT !.kind = kind, !.left = l]
Binary(kind, op, l, r) == [Make(kind, l) EXCEPT !.op = op, !.right = r]

p_peek_kind(p) == IF ~p.ok THEN "FAILED"
                  ELSE IF p.pos > Len(p.tokens) THEN "EOF"
                  ELSE p.tokens[p.pos].kind

Skip(p) == [p EXCEPT !.pos = @ + 1]

\* Whatever is there is passed over.
p_expect_Anything(p, kind) == IF p.ok THEN Skip(p) ELSE p

p_expect(p, kind) == IF p_peek_kind(p) = kind THEN Skip(p) ELSE Fail(p)

p_new_node(p, n) ==
    IF p.ok /\ Len(p.nodes) < MaxNodes
    THEN [p EXCEPT !.nodes = Append(@, n), !.at = Len(p.nodes) + 1]
    ELSE Fail(p)

\* The state after p with node i as the result.
Yield(p, i) == [p EXCEPT !.at = i]

\* The result of p becomes a field of node i.
Left(p, i)  == [p EXCEPT !.nodes[i].left = p.at]
Right(p, i) == [p EXCEPT !.nodes[i].right = p.at]
Third(p, i) == [p EXCEPT !.nodes[i].third = p.at]

\* The result of p follows node last; if there is none the list begins with
\* it, as in first.
Chain(p, last, first) ==
    IF last = 0 THEN first ELSE [p EXCEPT !.nodes[last].next = p.at]

-----------------------------------------------------------------------------
(* Expressions.                                                            *)

\* Binary operators, the loosest first.
Levels == <<{"||"}, {"&&"}, {"==", "!="}, {"<", "<=", ">", ">="},
            {"+", "-"}, {"*", "/", "%"}>>

RECURSIVE p_parse_assign(_), p_parse_bin_ltr(_, _), p_parse_unary(_),
          Operators(_, _), Arguments(_, _, _)

\* The arguments of node call, from p on, of which last is the latest.
Arguments(p, call, last) ==
    Then(p_parse_assign(p), LAMBDA arg :
    Then(Chain(arg, last, Right(arg, call)), LAMBDA linked :
        IF p_peek_kind(linked) = "," THEN Arguments(Skip(linked), call, arg.at)
        ELSE Yield(p_expect(linked, ")"), call)))

CallOrName(p) ==
    Then(p_new_node(Skip(p), Leaf("IDENT", p.pos)), LAMBDA id :
        IF p_peek_kind(id) # "(" THEN id
        ELSE Then(p_new_node(Skip(id), Make("CALL", id.at)), LAMBDA call :
                IF p_peek_kind(call) = ")" THEN Skip(call)
                ELSE Arguments(call, call.at, 0)))

p_parse_primary(p) ==
    CASE p_peek_kind(p) = "NUMBER" ->
            p_new_node(Skip(p), [Leaf("LITERAL", p.pos) EXCEPT !.value = p.tokens[p.pos].value])
      [] p_peek_kind(p) \in {"CHAR", "STRING"} ->
            p_new_node(Skip(p), Leaf("LITERAL", p.pos))
      [] p_peek_kind(p) = "IDENT" -> CallOrName(p)
      [] p_peek_kind(p) = "(" -> p_expect(p_parse_assign(Skip(p)), ")")
      [] OTHER -> Fail(p)

p_parse_unary(p) ==
    IF p_peek_kind(p) \in {"!", "-", "+"}
    THEN Then(p_parse_unary(Skip(p)), LAMBDA rhs :
            p_new_node(rhs, Binary("UNOP", p_peek_kind(p), rhs.at, 0)))
    ELSE p_parse_primary(p)

\* The operators of a level after lhs.
Operators(lhs, level) ==
    IF p_peek_kind(lhs) \in Levels[level]
    THEN Then(p_parse_bin_ltr(Skip(lhs), level + 1), LAMBDA rhs :
            Operators(p_new_node(rhs, Binary("BINOP", p_peek_kind(lhs), lhs.at, rhs.at)), level))
    ELSE lhs

\* The right operand takes the operators of its own level with it.
p_parse_bin_ltr_RightToLeft(p, level) ==
    IF level > Len(Levels) THEN p_parse_unary(p)
    ELSE Then(p_parse_bin_ltr(p, level + 1), LAMBDA lhs :
            IF p_peek_kind(lhs) \in Levels[level]
            THEN Then(p_parse_bin_ltr(Skip(lhs), level), LAMBDA rhs :
                    p_new_node(rhs, Binary("BINOP", p_peek_kind(lhs), lhs.at, rhs.at)))
            ELSE lhs)

\* p_parse_or is level 1 and p_parse_mul level 6, under which come the unary
\* operators.
p_parse_bin_ltr(p, level) ==
    IF level > Len(Levels) THEN p_parse_unary(p)
    ELSE Operators(p_parse_bin_ltr(p, level + 1), level)

p_parse_assign(p) ==
    Then(p_parse_bin_ltr(p, 1), LAMBDA lhs :
        IF p_peek_kind(lhs) = "="
        THEN Then(p_parse_assign(Skip(lhs)), LAMBDA rhs :
                p_new_node(rhs, Binary("ASSIGN", "EOF", lhs.at, rhs.at)))
        ELSE lhs)

p_parse_expr(p) == p_parse_assign(p)

-----------------------------------------------------------------------------
(* Statements.                                                             *)

Types == {"int", "char"}

\* What follows the name of a variable whose node is id.
Initialiser(p, id) ==
    Then(p_new_node(p, Make("VAR_DECL", id)), LAMBDA decl :
        Yield(p_expect(IF p_peek_kind(decl) = "=" THEN Right(p_parse_expr(Skip(decl)), decl.at)
                                                  ELSE decl, ";"), decl.at))

\* The name after a type.
Name(p) == p_new_node(p_expect(p, "IDENT"), Leaf("IDENT", p.pos))

p_parse_var_decl_stmt(p) == Then(Name(p), LAMBDA id : Initialiser(id, id.at))

\* An expression and the token that ends it, or that token alone.
UpTo(p, end) == IF p_peek_kind(p) = end THEN Yield(Skip(p), 0)
                ELSE p_expect(p_parse_expr(p), end)

RECURSIVE p_parse_stmt(_), Statements(_, _, _)

Statements(p, block, last) ==
    IF p_peek_kind(p) \in {"}", "EOF", "FAILED"} THEN Yield(p_expect(p, "}"), block)
    ELSE Then(p_parse_stmt(p), LAMBDA st :
            Statements(Chain(st, last, Left(st, block)), block, st.at))

p_parse_block(p) ==
    Then(p_new_node(p, Make("PROGRAM", 0)), LAMBDA block :
        Statements(p_expect(block, "{"), block.at, 0))

ForInit(p) == IF p_peek_kind(p) \in Types THEN p_parse_var_decl_stmt(Skip(p)) ELSE UpTo(p, ";")

\* The body is put where the block puts the statement that follows.
p_parse_for(p) ==
    Then(p_new_node(p, Make("FOR", 0)), LAMBDA node :
    Then(ForInit(p_expect(Skip(node), "(")), LAMBDA init :
    Then(UpTo(init, ";"), LAMBDA cond :
    Then(UpTo(cond, ")"), LAMBDA step :
    Then(p_parse_stmt(step), LAMBDA body :
        Yield([body EXCEPT !.nodes[node.at] =
                   [@ EXCEPT !.left = init.at, !.right = cond.at,
                             !.third = step.at, !.next = body.at]], node.at))))))

\* A condition in parentheses.
Condition(p) == p_expect(p_parse_expr(p_expect(p, "(")), ")")

p_parse_if(p) ==
    Then(p_new_node(p, Make("IF", 0)), LAMBDA node :
    Then(Condition(Skip(node)), LAMBDA cond :
    Then(p_parse_stmt(cond), LAMBDA then :
        LET both == [then EXCEPT !.nodes[node.at] =
                         [@ EXCEPT !.left = cond.at, !.right = then.at]]
        IN  IF p_peek_kind(both) # "else" THEN Yield(both, node.at)
            ELSE Then(p_parse_stmt(Skip(both)), LAMBDA else :
                    Yield(Third(else, node.at), node.at)))))

p_parse_while(p) ==
    Then(p_new_node(p, Make("WHILE", 0)), LAMBDA node :
    Then(Condition(Skip(node)), LAMBDA cond :
    Then(p_parse_stmt(cond), LAMBDA body :
        Yield([body EXCEPT !.nodes[node.at] =
                   [@ EXCEPT !.left = cond.at, !.right = body.at]], node.at))))

p_parse_return(p) ==
    Then(p_new_node(p, Make("RETURN", 0)), LAMBDA node :
    Then(UpTo(Skip(node), ";"), LAMBDA expr :
        Yield(Left(expr, node.at), node.at)))

p_parse_stmt(p) ==
    CASE p_peek_kind(p) = "{"      -> p_parse_block(p)
      [] p_peek_kind(p) = "if"     -> p_parse_if(p)
      [] p_peek_kind(p) = "while"  -> p_parse_while(p)
      [] p_peek_kind(p) = "for"    -> p_parse_for(p)
      [] p_peek_kind(p) = "return" -> p_parse_return(p)
      [] p_peek_kind(p) \in Types  -> p_parse_var_decl_stmt(Skip(p))
      [] p_peek_kind(p) = ";"      -> p_new_node(Skip(p), Node)
      [] OTHER                     -> p_expect(p_parse_expr(p), ";")

-----------------------------------------------------------------------------
(* Programs.                                                               *)

\* The parameters of node func.
RECURSIVE Parameters(_, _, _)
Parameters(p, func, last) ==
    Then(Name(IF p_peek_kind(p) \in Types THEN Skip(p) ELSE Fail(p)), LAMBDA id :
    Then(p_new_node(id, Make("VAR_DECL", id.at)), LAMBDA decl :
    Then(Chain(decl, last, Right(decl, func)), LAMBDA linked :
        IF p_peek_kind(linked) = "," THEN Parameters(Skip(linked), func, decl.at)
        ELSE p_expect(linked, ")"))))

Function(p, id) ==
    Then(p_new_node(Skip(p), Make("FUNC_DECL", id)), LAMBDA func :
    Then(p_parse_block(IF p_peek_kind(func) = ")" THEN Skip(func)
                                                  ELSE Parameters(func, func.at, 0)), LAMBDA body :
        Yield(Third(body, func.at), func.at)))

Declaration(p) ==
    Then(Name(Skip(p)), LAMBDA id :
        IF p_peek_kind(id) = "(" THEN Function(id, id.at) ELSE Initialiser(id, id.at))

RECURSIVE Declarations(_, _)
Declarations(p, last) ==
    IF p_peek_kind(p) = "EOF" THEN p
    ELSE IF p_peek_kind(p) \notin Types THEN Fail(p)
    ELSE Then(Declaration(p), LAMBDA decl :
            Declarations(Chain(decl, last, Left(decl, 1)), decl.at))

cc_parse(tokens) ==
    LET start == [tokens |-> tokens, pos |-> 1, nodes |-> <<>>, at |-> 0, ok |-> TRUE]
    IN  Declarations(p_new_node(start, Make("PROGRAM", 0)), 0)
=============================================================================
