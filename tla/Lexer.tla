-------------------------------- MODULE Lexer --------------------------------
(***************************************************************************)
(* The lexer of the tiny C compiler (cc_lex in src/compiler/compiler.c):   *)
(* it cuts a text into tokens, one character or symbol at a time.          *)
(*                                                                         *)
(* Characters are their codes; a text has no NUL, which ends it.  A token  *)
(* is its kind, as in Parser, and its place in the text; lines and columns *)
(* are left out, as nothing uses them.  mode is the loop the lexer is in:  *)
(* that over the tokens ("between"), over the characters of a "word" or a  *)
(* "number", or up to a quote, of which it is the kind of token.           *)
(***************************************************************************)
EXTENDS Integers, Sequences

CONSTANTS
    Texts,          \* The texts that are read.
    MaxTokens       \* Tokens the array of cc_compile takes (4096).

ASSUME LexerAssumption == Texts \subseteq Seq(1 .. 255) /\ MaxTokens \in Nat

VARIABLES
    text,
    i,          \* The next character.
    tokens,
    mode,
    start,      \* Where the token that is being read begins.
    status      \* "reading", "done" or "refused".

vars == <<text, i, tokens, mode, start, status>>

Blanks  == {32, 9, 13, 10}
Digits  == 48 .. 57
Letters == (65 .. 90) \cup (97 .. 122) \cup {95}
Escape  == 92

\* The two quotes, and the kind of token between them.
Quote == [c \in {34, 39} |-> IF c = 34 THEN "STRING" ELSE "CHAR"]

\* Tokens of one character.
One == [c \in {33} \cup (40 .. 45) \cup {37, 47} \cup (59 .. 62) \cup {91, 93, 123, 125} |->
    CASE c = 33 -> "!" [] c = 37 -> "%" [] c = 40 -> "(" [] c = 41 -> ")" [] c = 42 -> "*"
      [] c = 43 -> "+" [] c = 44 -> "," [] c = 45 -> "-" [] c = 47 -> "/" [] c = 59 -> ";"
      [] c = 60 -> "<" [] c = 61 -> "=" [] c = 62 -> ">" [] c = 91 -> "[" [] c = 93 -> "]"
      [] c = 123 -> "{" [] c = 125 -> "}"]

\* Tokens of two characters: what the second must be, and the kind.
Second == [c \in {33, 60, 61, 62, 38, 124} |-> IF c \in {38, 124} THEN c ELSE 61]
Two == [c \in DOMAIN Second |->
    CASE c = 33 -> "!=" [] c = 60 -> "<=" [] c = 61 -> "==" [] c = 62 -> ">="
      [] c = 38 -> "&&" [] c = 124 -> "||"]

keyword_kind(word) ==
    CASE word = <<99, 104, 97, 114>>            -> "char"
      [] word = <<105, 110, 116>>               -> "int"
      [] word = <<105, 102>>                    -> "if"
      [] word = <<101, 108, 115, 101>>          -> "else"
      [] word = <<119, 104, 105, 108, 101>>     -> "while"
      [] word = <<102, 111, 114>>               -> "for"
      [] word = <<114, 101, 116, 117, 114, 110>> -> "return"
      [] OTHER                                  -> "IDENT"

-----------------------------------------------------------------------------
Init ==
    /\ text \in Texts
    /\ i = 1 /\ tokens = <<>> /\ mode = "between" /\ start = 1
    /\ status = "reading"

AtEnd == i > Len(text)

\* Whether the next character is one of a set.
Next_In(chars) == i \in 1 .. Len(text) /\ text[i] \in chars

Token(kind, first, length) == [kind |-> kind, first |-> first, length |-> length]

Refuse == status' = "refused" /\ UNCHANGED <<text, i, tokens, mode, start>>

\* A token is stored wherever it lands.
push_tok_NoLimit(tok, next) ==
    /\ tokens' = Append(tokens, tok) /\ i' = next
    /\ mode' = "between" /\ start' = next
    /\ UNCHANGED <<text, status>>

\* A token is ready, and the reader goes on at next; the array may be full.
push_tok(tok, next) ==
    IF Len(tokens) >= MaxTokens THEN Refuse
    ELSE /\ tokens' = Append(tokens, tok) /\ i' = next
         /\ mode' = "between" /\ start' = next
         /\ UNCHANGED <<text, status>>

Between == status = "reading" /\ mode = "between"

Blank ==
    /\ Between /\ Next_In(Blanks)
    /\ i' = i + 1 /\ start' = i + 1
    /\ UNCHANGED <<text, tokens, mode, status>>

\* The loops over words, numbers and quoted characters begin.
Begin ==
    /\ Between
    /\ \/ Next_In(Letters) /\ mode' = "word"
       \/ Next_In(Digits) /\ mode' = "number"
       \/ Next_In(DOMAIN Quote) /\ mode' = Quote[text[i]]
    /\ start' = i /\ i' = i + 1
    /\ UNCHANGED <<text, tokens, status>>

\* The characters that carry a word or a number on.
Carries == IF mode = "word" THEN Letters \cup Digits ELSE Digits

\* The character after a word is passed over with it.
Word_PassesOver ==
    /\ status = "reading" /\ mode \in {"word", "number"}
    /\ IF Next_In(Carries)
       THEN i' = i + 1 /\ UNCHANGED <<text, tokens, mode, start, status>>
       ELSE push_tok(Token(IF mode = "word" THEN keyword_kind(SubSeq(text, start, i - 1))
                                            ELSE "NUMBER", start, i - start),
                     IF AtEnd THEN i ELSE i + 1)

Word ==
    /\ status = "reading" /\ mode \in {"word", "number"}
    /\ IF Next_In(Carries)
       THEN i' = i + 1 /\ UNCHANGED <<text, tokens, mode, start, status>>
       ELSE push_tok(Token(IF mode = "word" THEN keyword_kind(SubSeq(text, start, i - 1))
                                            ELSE "NUMBER", start, i - start), i)

\* A quoted token may go on to the end of the text.
Quoted_NoEnd ==
    /\ status = "reading" /\ mode \in {"STRING", "CHAR"}
    /\ IF AtEnd \/ text[i] = text[start]
       THEN push_tok(Token(mode, start, i + 1 - start), i + 1)
       ELSE /\ i' = IF text[i] = Escape /\ i < Len(text) THEN i + 2 ELSE i + 1
            /\ UNCHANGED <<text, tokens, mode, start, status>>

\* The character after an escape does not end the token.
Quoted ==
    /\ status = "reading" /\ mode \in {"STRING", "CHAR"}
    /\ IF AtEnd THEN Refuse
       ELSE IF text[i] = text[start] THEN push_tok(Token(mode, start, i + 1 - start), i + 1)
       ELSE /\ i' = IF text[i] = Escape /\ i < Len(text) THEN i + 2 ELSE i + 1
            /\ UNCHANGED <<text, tokens, mode, start, status>>

Symbol ==
    /\ Between /\ Next_In(DOMAIN One \cup DOMAIN Second)
    /\ IF text[i] \in DOMAIN Second /\ i < Len(text) /\ text[i + 1] = Second[text[i]]
       THEN push_tok(Token(Two[text[i]], i, 2), i + 2)
       ELSE IF text[i] \in DOMAIN One THEN push_tok(Token(One[text[i]], i, 1), i + 1)
       ELSE Refuse

\* No token begins with this character.
Unknown ==
    /\ Between /\ ~AtEnd
    /\ ~Next_In(Blanks \cup Letters \cup Digits \cup DOMAIN Quote \cup DOMAIN One \cup DOMAIN Second)
    /\ Refuse

\* The last token is that of the end.
Finish ==
    /\ Between /\ AtEnd
    /\ IF Len(tokens) >= MaxTokens THEN Refuse
       ELSE /\ tokens' = Append(tokens, Token("EOF", i, 0))
            /\ status' = "done"
            /\ UNCHANGED <<text, i, mode, start>>

Over == status # "reading" /\ UNCHANGED vars

Next == Blank \/ Begin \/ Word \/ Quoted \/ Symbol \/ Unknown \/ Finish \/ Over

Spec == Init /\ [][Next]_vars

-----------------------------------------------------------------------------
(* What must hold.                                                         *)

Kinds == {"IDENT", "NUMBER", "STRING", "CHAR", "EOF"}
         \cup {"char", "int", "if", "else", "while", "for", "return"}
         \cup {One[c] : c \in DOMAIN One} \cup {Two[c] : c \in DOMAIN Two}

\* The types; the array of tokens is never overrun, and no character past
\* the NUL is looked at.
TypeOK ==
    /\ text \in Seq(1 .. 255)
    /\ i \in 1 .. Len(text) + 1 /\ start \in 1 .. i
    /\ tokens \in Seq([kind : Kinds, first : Nat \ {0}, length : Nat]) /\ Len(tokens) <= MaxTokens
    /\ mode \in {"between", "word", "number", "STRING", "CHAR"}
    /\ status \in {"reading", "done", "refused"}

\* Where token n ends, and the next one may begin; token 0 ends before the text.
EndOf(n) == IF n = 0 THEN 1 ELSE tokens[n].first + tokens[n].length

\* The tokens follow each other in the text, and what lies between them, and
\* between the last one and the one being read, is blank: no character is
\* lost, used twice, or part of no token.
TilesTheText ==
    /\ \A n \in 1 .. Len(tokens) :
          /\ EndOf(n - 1) <= tokens[n].first
          /\ \A c \in EndOf(n - 1) .. tokens[n].first - 1 : text[c] \in Blanks
    /\ EndOf(Len(tokens)) <= start
    /\ \A c \in EndOf(Len(tokens)) .. start - 1 : text[c] \in Blanks

=============================================================================
