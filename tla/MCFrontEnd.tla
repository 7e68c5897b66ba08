----------------------------- MODULE MCFrontEnd -----------------------------
(***************************************************************************)
(* The front end of the compiler: Lexer, and Parser on the tokens it       *)
(* leaves.  It is given all short texts over an alphabet, texts as long as *)
(* the array of tokens, programs written down from trees, which must come  *)
(* back, and all short sequences of tokens in the place of an expression,  *)
(* of which those that the grammar derives must be taken.                  *)
(***************************************************************************)
EXTENDS Lexer, Parser, FiniteSets, SequencesExt

CONSTANTS
    MaxChars,       \* Characters of the short texts,
    MaxLength       \* and tokens of the sequences that are tried.

LOCAL L == INSTANCE Language WITH IntMod <- 256, Fuel <- 0

VARIABLES
    given,      \* What the text is made of: [kind, of].
    parsed      \* What cc_parse makes of it, or none.

frontEndVars == <<vars, given, parsed>>

-----------------------------------------------------------------------------
(* Trees.  Names are the codes of their letters, as in a text.             *)

NameA == <<97>>
NameB == <<98, 49>>
NameF == <<102>>

Leaves == {L!Num(10), L!Var(NameA)}

Grown(es, ds) ==
    {L!Un(op, e) : op \in {"-", "!"}, e \in es}
    \cup {L!Bin(op, e, d) : op \in {"||", "&&", "==", "<=", "+", "-", "/"}, e \in es, d \in ds}
    \cup {L!Set(NameA, e) : e \in es}

Calls(es) == {L!Invoke(NameF, args) : args \in {<<>>} \cup {<<e>> : e \in es} \cup {<<e, d>> : e, d \in es}}

Expressions ==
    LET es == Leaves \cup Grown(Leaves, Leaves) \cup Calls(Leaves)
    IN  Grown(es, Leaves) \cup Grown(Leaves, es)
        \cup Calls({L!Var(NameA), L!Set(NameA, L!Num(1)), L!Bin("<", L!Num(1), L!Var(NameA)),
                    L!Text(<<92, 34, 39>>)})

Plain == {L!Do(L!Set(NameA, L!Num(1))), L!ReturnOf(L!Num(1)), L!DeclSet(NameB, L!Num(1)), L!Block(<<>>)}

Closed(s) == IF L!Open(s) THEN L!Block(<<s>>) ELSE s

\* A statement of ss, and where there is room for another, one of ts.
Around(ss, ts) ==
    {L!If(L!Num(1), s) : s \in ss} \cup {L!While(L!Num(1), s) : s \in ss}
    \cup {L!IfElse(L!Num(1), Closed(s), t) : s \in ss, t \in ts}
    \cup {L!IfElse(L!Num(1), t, s) : s \in ss, t \in ts}
    \cup {L!Block(<<s, t>>) : s \in ss, t \in ts} \cup {L!Block(<<t, s>>) : s \in ss, t \in ts}

Statements2 == Around(Plain \cup Around(Plain, Plain), Plain)

InMain(s) == <<L!Decl(NameA), L!Function(<<109, 97, 105, 110>>, <<s, L!ReturnOf(L!Var(NameA))>>),
               L!DeclSet(NameB, L!Num(2))>>

Trees == {InMain(L!Do(e)) : e \in Expressions} \cup {InMain(s) : s \in Statements2}

-----------------------------------------------------------------------------
(* Texts.                                                                  *)

Reserved ==
    {<<99, 104, 97, 114>>, <<105, 110, 116>>, <<105, 102>>, <<101, 108, 115, 101>>,
     <<119, 104, 105, 108, 101>>, <<102, 111, 114>>, <<114, 101, 116, 117, 114, 110>>}

Spelling ==
    [kind \in Kinds \ {"IDENT", "NUMBER", "STRING", "CHAR", "EOF"} |->
        CHOOSE s \in Reserved \cup {<<c>> : c \in DOMAIN One} \cup {<<c, Second[c]>> : c \in DOMAIN Two} :
            kind = (IF s \in Reserved THEN keyword_kind(s)
                    ELSE IF Len(s) = 2 THEN Two[s[1]] ELSE One[s[1]])]

RECURSIVE Decimal(_)
Decimal(v) == (IF v < 10 THEN <<>> ELSE Decimal(v \div 10)) \o <<48 + (v % 10)>>

Spelled(tok) == CASE tok.kind = "IDENT"  -> tok.name
                  [] tok.kind = "NUMBER" -> Decimal(tok.value)
                  [] tok.kind = "STRING" -> <<34>> \o tok.chars \o <<34>>
                  [] OTHER               -> Spelling[tok.kind]

\* Whether a word that ends in c, or symbol c, would be read on with d.
Joins(c, d) ==
    \/ c \in Letters \cup Digits /\ d \in Letters \cup Digits
    \/ c \in DOMAIN Second /\ d = Second[c]

\* The text of tokens, with a blank only where it is needed, or with more of
\* them after every token.
Glued(toks) ==
    FlattenSeq([n \in 1 .. Len(toks) |->
        Spelled(toks[n])
        \o (IF n < Len(toks) /\ Joins(Last(Spelled(toks[n])), Head(Spelled(toks[n + 1])))
            THEN <<32>> ELSE <<>>)])

Spread(toks) == FlattenSeq([n \in 1 .. Len(toks) |-> Spelled(toks[n]) \o <<9, 10>>])

\* A letter, a digit, a blank, both quotes, the escape, symbols of one, of
\* one or two, and of two characters, and one that is not known.
Alphabet == {97, 49, 32, 34, 39, 92, 40, 61, 38, 64}

Short == UNION {[1 .. n -> Alphabet] : n \in 0 .. MaxChars}

\* As many tokens as the array takes without and with that of the end, and
\* one more.
Long == {[c \in 1 .. n |-> 59] : n \in MaxTokens - 1 .. MaxTokens + 1}

\* Programs with expressions are glued, programs with statements spread.
TextOf(tree) == IF tree[2][3][1][1] = "do" THEN Glued(L!Tokens(tree)) ELSE Spread(L!Tokens(tree))

MCTexts == Short \cup Long \cup {TextOf(t) : t \in Trees}

-----------------------------------------------------------------------------
(* Tokens for the parser.                                                  *)

p_parse_number(digits) == FoldLeft(LAMBDA value, c : 10 * value + c - 48, 0, digits)

\* What the parser finds in the tokens that the lexer leaves, and in the text
\* they point to.
Read(tok) ==
    LET s == SubSeq(text, tok.first, tok.first + tok.length - 1)
    IN  CASE tok.kind = "IDENT"  -> L!Ident(s)
          [] tok.kind = "NUMBER" -> [kind |-> "NUMBER", value |-> p_parse_number(s)]
          [] tok.kind = "STRING" -> [kind |-> "STRING", chars |-> SubSeq(s, 2, Len(s) - 1)]
          [] OTHER               -> L!Tok(tok.kind)

\* One operator for each kind.
Symbols == {"IDENT", "-", "*", "(", ")", "=", ","}

ShortTokens == UNION {[1 .. n -> Symbols] : n \in 0 .. MaxLength}

\* int main() { return s; }
Asked(s) ==
    <<L!Tok("int"), L!Ident("main"), L!Tok("("), L!Tok(")"), L!Tok("{"), L!Tok("return")>>
    \o [n \in 1 .. Len(s) |-> IF s[n] = "IDENT" THEN L!Ident("a") ELSE L!Tok(s[n])]
    \o <<L!Tok(";"), L!Tok("}")>>

-----------------------------------------------------------------------------
None == [ok |-> FALSE, nodes |-> <<>>]

\* Sequences of tokens are given to the parser, all else to the lexer.
MCInit ==
    /\ \/ \E t \in Short \cup Long : text = t /\ given = [kind |-> "text", of |-> t]
       \/ \E t \in Trees : text = TextOf(t) /\ given = [kind |-> "tree", of |-> t]
       \/ \E s \in ShortTokens : text = <<>> /\ given = [kind |-> "tokens", of |-> s]
    /\ i = 1 /\ tokens = <<>> /\ mode = "between" /\ start = 1
    /\ status = IF given.kind = "tokens" THEN "done" ELSE "reading"
    /\ parsed = None

Lex == Next /\ UNCHANGED <<given, parsed>>

Parse ==
    /\ status = "done" /\ given.kind # "text" /\ parsed = None
    /\ parsed' = cc_parse(IF given.kind = "tokens" THEN Asked(given.of)
                          ELSE [n \in 1 .. Len(tokens) |-> Read(tokens[n])])
    /\ UNCHANGED <<vars, given>>

MCNext == Lex \/ Parse

MCSpec == MCInit /\ [][MCNext]_frontEndVars

-----------------------------------------------------------------------------
(* The tree that the parser's nodes are.                                   *)

NameOf(p, n) == p.tokens[p.nodes[n].token].name

RECURSIVE ChainFrom(_, _)
ChainFrom(p, n) == IF n = 0 THEN <<>> ELSE <<n>> \o ChainFrom(p, p.nodes[n].next)

ExpressionKinds == {"LITERAL", "IDENT", "CALL", "UNOP", "BINOP", "ASSIGN"}

RECURSIVE Tree(_, _)
Tree(p, at) ==
    LET n == p.nodes[at]
        List(j) == [k \in 1 .. Len(ChainFrom(p, j)) |-> Tree(p, ChainFrom(p, j)[k])]
        Stmt(j) == IF p.nodes[j].kind \in ExpressionKinds THEN L!Do(Tree(p, j)) ELSE Tree(p, j)
        Body(j) == [k \in 1 .. Len(ChainFrom(p, j)) |-> Stmt(ChainFrom(p, j)[k])]
    IN  CASE n.kind = "LITERAL"  -> IF p.tokens[n.token].kind = "STRING"
                                    THEN L!Text(p.tokens[n.token].chars) ELSE L!Num(n.value)
          [] n.kind = "IDENT"    -> L!Var(NameOf(p, at))
          [] n.kind = "CALL"     -> L!Invoke(NameOf(p, n.left), List(n.right))
          [] n.kind = "UNOP"     -> L!Un(n.op, Tree(p, n.left))
          [] n.kind = "BINOP"    -> L!Bin(n.op, Tree(p, n.left), Tree(p, n.right))
          [] n.kind = "ASSIGN"   -> L!Set(NameOf(p, n.left), Tree(p, n.right))
          [] n.kind = "PROGRAM"  -> L!Block(Body(n.left))
          [] n.kind = "RETURN"   -> L!ReturnOf(Tree(p, n.left))
          [] n.kind = "WHILE"    -> L!While(Tree(p, n.left), Stmt(n.right))
          [] n.kind = "IF"       -> IF n.third = 0 THEN L!If(Tree(p, n.left), Stmt(n.right))
                                    ELSE L!IfElse(Tree(p, n.left), Stmt(n.right), Stmt(n.third))
          [] n.kind = "VAR_DECL" -> IF n.right = 0 THEN L!Decl(NameOf(p, n.left))
                                    ELSE L!DeclSet(NameOf(p, n.left), Tree(p, n.right))
          [] n.kind = "FUNC_DECL" -> L!Function(NameOf(p, n.left), Tree(p, n.third)[2])

-----------------------------------------------------------------------------
(* What a text is, said without reading it from the left.                  *)

IsQuoted(s) ==
    /\ Len(s) >= 2 /\ s[1] \in DOMAIN Quote /\ s[Len(s)] = s[1]
    \* A quote in it comes after an odd number of escapes in a row, and the
    \* one at the end after an even number.
    /\ LET Escapes(n) == Cardinality({m \in 2 .. n - 1 : \A k \in m .. n - 1 : s[k] = Escape})
       IN  /\ \A n \in 2 .. Len(s) - 1 : s[n] = s[1] => Escapes(n) % 2 = 1
           /\ Escapes(Len(s)) % 2 = 0

IsLexeme(s) ==
    \/ Len(s) = 1 /\ s[1] \in Blanks \cup DOMAIN One
    \/ Len(s) = 2 /\ s[1] \in DOMAIN Second /\ s[2] = Second[s[1]]
    \/ IsQuoted(s)
    \/ \A n \in 1 .. Len(s) : s[n] \in Digits
    \/ s[1] \in Letters /\ \A n \in 1 .. Len(s) : s[n] \in Letters \cup Digits

RECURSIVE Splits(_)
Splits(s) ==
    s = <<>> \/ \E n \in 1 .. Len(s) : IsLexeme(SubSeq(s, 1, n)) /\ Splits(SubSeq(s, n + 1, Len(s)))

-----------------------------------------------------------------------------
(* What a sequence of tokens is: derived by the grammar of expressions, if *)
(* it can be cut into parts that are.                                      *)

RECURSIVE Derives(_, _)
Derives(what, s) ==
    LET n == Len(s)
        Parts(op, l, r) == \E k \in 2 .. n - 1 : /\ s[k] = op
                                                 /\ Derives(l, SubSeq(s, 1, k - 1))
                                                 /\ Derives(r, SubSeq(s, k + 1, n))
    IN  CASE what = "list"    -> Derives("assign", s) \/ Parts(",", "list", "assign")
          [] what = "assign"  -> Derives("sum", s) \/ Parts("=", "sum", "assign")
          [] what = "sum"     -> Derives("product", s) \/ Parts("-", "sum", "product")
          [] what = "product" -> Derives("unary", s) \/ Parts("*", "product", "unary")
          [] what = "unary"   -> \/ Derives("primary", s)
                                 \/ n > 1 /\ s[1] = "-" /\ Derives("unary", Tail(s))
          [] what = "primary" ->
                \/ s = <<"IDENT">>
                \/ n > 2 /\ s[1] = "(" /\ s[n] = ")" /\ Derives("assign", SubSeq(s, 2, n - 1))
                \/ s = <<"IDENT", "(", ")">>
                \/ /\ n > 3 /\ s[1] = "IDENT" /\ s[2] = "(" /\ s[n] = ")"
                   /\ Derives("list", SubSeq(s, 3, n - 1))

-----------------------------------------------------------------------------
\* A text is refused by the lexer exactly when there is no way at all to cut
\* it into tokens and blanks, unless the array is full.
RefusesOnlyNonsense ==
    /\ status = "done" => Splits(text)
    /\ status = "refused" /\ Splits(text) => Len(tokens) = MaxTokens

\* A program written with the parentheses, braces and blanks C needs, and no
\* others, comes back as the tree it was written from: no token is joined
\* with the next one, operators group by their precedence and from the left,
\* an else goes with the nearest if, and no statement, argument or
\* declaration is lost or moved.
ParsesBack ==
    given.kind = "tree" /\ status # "reading" =>
        /\ status = "done"
        /\ parsed # None => parsed.ok /\ Tree(parsed, 1) = L!Block(given.of)

\* A sequence of tokens is taken for an expression exactly when the grammar
\* derives it (return alone has none).
AcceptsTheGrammar ==
    parsed # None /\ given.kind = "tokens" =>
        parsed.ok = (given.of = <<>> \/ Derives("assign", given.of))
=============================================================================
