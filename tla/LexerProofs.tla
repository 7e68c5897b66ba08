----------------------------- MODULE LexerProofs -----------------------------
(***************************************************************************)
(* Theorems about Lexer, for every text and every size of the array of     *)
(* tokens: the array is not overrun and nothing past the end of the text   *)
(* is looked at, and the tokens tile the text.                             *)
(***************************************************************************)
EXTENDS Lexer, TLAPS

\* Between tokens the next one may begin here; in a token it began before.
Began == IF mode = "between" THEN start = i ELSE start < i

TypeInv == TypeOK /\ Began

-----------------------------------------------------------------------------
(* The tokens there are.                                                   *)

\* The kinds of symbols, quoted tokens and words are kinds.
LEMMA KindsOfSymbols ==
    /\ \A c \in DOMAIN One : One[c] \in Kinds
    /\ \A c \in DOMAIN Two : Two[c] \in Kinds
    /\ {"IDENT", "NUMBER", "STRING", "CHAR", "EOF"} \subseteq Kinds
BY DEF Kinds

LEMMA KindsOfQuotes == \A c \in DOMAIN Quote : Quote[c] \in {"STRING", "CHAR"}
BY DEF Quote

LEMMA KindsOfWords == \A word : keyword_kind(word) \in Kinds
BY DEF keyword_kind, Kinds

LEMMA SameDomain == DOMAIN Two = DOMAIN Second
BY DEF Two

\* The parts of the type invariant.
Tok == [kind : Kinds, first : Nat \ {0}, length : Nat]

TextType   == text \in Seq(1 .. 255) /\ i \in 1 .. Len(text) + 1 /\ start \in 1 .. i
TokensType == tokens \in Seq(Tok) /\ Len(tokens) <= MaxTokens
ModeType   == /\ mode \in {"between", "word", "number", "STRING", "CHAR"}
              /\ status \in {"reading", "done", "refused"}

LEMMA TypeParts == TypeOK <=> TextType /\ TokensType /\ ModeType
BY DEF TypeOK, TextType, TokensType, ModeType, Tok

LEMMA TypePartsNext == TypeOK' <=> TextType' /\ TokensType' /\ ModeType'
BY DEF TypeOK, TextType, TokensType, ModeType, Tok

\* A token that is stored has room.
LEMMA PushKeepsTypes ==
    ASSUME TextType, TokensType, ModeType, Began,
           NEW tok \in Tok, NEW next \in 1 .. Len(text) + 1, push_tok(tok, next)
    PROVE  TextType' /\ TokensType' /\ ModeType' /\ Began'
<1>1. CASE Len(tokens) >= MaxTokens
  BY <1>1 DEF push_tok, Refuse, TextType, TokensType, ModeType, Began
<1>2. CASE ~(Len(tokens) >= MaxTokens)
  <2>1. /\ tokens' = Append(tokens, tok) /\ i' = next /\ mode' = "between" /\ start' = next
        /\ UNCHANGED <<text, status>>
    BY <1>2 DEF push_tok
  <2>2. TextType' /\ ModeType' /\ Began'
    BY <2>1 DEF TextType, ModeType, Began
  <2>3. tokens' \in Seq(Tok) /\ Len(tokens') = Len(tokens) + 1
    BY <2>1 DEF TokensType
  <2>4. TokensType'
    <3>1. Len(tokens) \in Nat /\ MaxTokens \in Nat
      BY LexerAssumption DEF TokensType
    <3>2. QED
      BY <2>3, <3>1, <1>2 DEF TokensType
  <2>5. QED
    BY <2>2, <2>4
<1>3. QED
  BY <1>1, <1>2

\* Each step keeps the types.
LEMMA TypeStep == TypeInv /\ [Next]_vars => TypeInv'
<1> SUFFICES ASSUME TypeInv, [Next]_vars PROVE TypeInv'
  OBVIOUS
<1>1. TextType /\ TokensType /\ ModeType /\ Began
  BY TypeParts DEF TypeInv
<1>2. SUFFICES TextType' /\ TokensType' /\ ModeType' /\ Began'
  BY TypePartsNext DEF TypeInv
<1>3. Len(text) \in Nat /\ i \in Nat /\ start \in Nat /\ \A c : Next_In(c) => i <= Len(text)
  BY <1>1 DEF TextType, Next_In
<1>4. CASE Blank
  BY <1>1, <1>3, <1>4 DEF Blank, Between, TextType, TokensType, ModeType, Began
<1>5. CASE Begin
  <2>1. mode' \in {"word", "number", "STRING", "CHAR"}
    BY <1>5, KindsOfQuotes DEF Begin, Next_In
  <2>2. i <= Len(text)
    BY <1>5, <1>3 DEF Begin
  <2>3. TextType'
    BY <1>1, <1>3, <1>5, <2>2 DEF Begin, TextType
  <2>4. TokensType'
    BY <1>1, <1>5 DEF Begin, TokensType
  <2>5. ModeType' /\ Began'
    BY <1>1, <1>3, <1>5, <2>1 DEF Begin, ModeType, Began
  <2>6. QED
    BY <2>3, <2>4, <2>5
<1>6. CASE Word
  <2>1. CASE Next_In(Carries)
    <3>1. i' = i + 1 /\ UNCHANGED <<text, tokens, mode, start, status>> /\ mode \in {"word", "number"}
      BY <1>6, <2>1 DEF Word
    <3>2. i <= Len(text)
      BY <2>1, <1>3
    <3>3. QED
      BY <1>1, <1>3, <3>1, <3>2 DEF TextType, TokensType, ModeType, Began
  <2>2. CASE ~Next_In(Carries)
    <3> DEFINE tok == Token(IF mode = "word" THEN keyword_kind(SubSeq(text, start, i - 1))
                            ELSE "NUMBER", start, i - start)
    <3>1. push_tok(tok, i)
      BY <1>6, <2>2 DEF Word
    <3>2. tok \in Tok
      BY <1>1, KindsOfWords, KindsOfSymbols DEF Tok, Token, TextType
    <3>3. i \in 1 .. Len(text) + 1
      BY <1>1 DEF TextType
    <3> HIDE DEF tok
    <3>4. QED
      BY <1>1, <3>1, <3>2, <3>3, PushKeepsTypes
  <2>3. QED
    BY <2>1, <2>2
<1>7. CASE Quoted
  <2>1. CASE AtEnd
    BY <1>1, <1>7, <2>1 DEF Quoted, Refuse, TextType, TokensType, ModeType, Began
  <2>2. CASE ~AtEnd /\ text[i] = text[start]
    <3>1. push_tok(Token(mode, start, i + 1 - start), i + 1) /\ mode \in {"STRING", "CHAR"}
      BY <1>7, <2>2 DEF Quoted
    <3>2. Token(mode, start, i + 1 - start) \in Tok
      BY <1>1, <3>1, KindsOfSymbols DEF Tok, Token, TextType
    <3>3. i + 1 \in 1 .. Len(text) + 1
      BY <1>3, <2>2 DEF AtEnd
    <3>4. QED
      BY <1>1, <3>1, <3>2, <3>3, PushKeepsTypes
  <2>3. CASE ~AtEnd /\ text[i] # text[start]
    <3>1. /\ i' = IF text[i] = Escape /\ i < Len(text) THEN i + 2 ELSE i + 1
          /\ UNCHANGED <<text, tokens, mode, start, status>> /\ mode \in {"STRING", "CHAR"}
      BY <1>7, <2>3 DEF Quoted
    <3>2. i' \in 1 .. Len(text) + 1 /\ i' > i
      BY <1>3, <2>3, <3>1 DEF AtEnd
    <3>3. QED
      BY <1>1, <1>3, <3>1, <3>2 DEF TextType, TokensType, ModeType, Began
  <2>4. QED
    BY <2>1, <2>2, <2>3
<1>8. CASE Symbol
  <2>1. i <= Len(text)
    BY <1>8, <1>3 DEF Symbol
  <2>2. CASE text[i] \in DOMAIN Second /\ i < Len(text) /\ text[i + 1] = Second[text[i]]
    <3>1. push_tok(Token(Two[text[i]], i, 2), i + 2)
      BY <1>8, <2>2 DEF Symbol
    <3>2. Token(Two[text[i]], i, 2) \in Tok
      BY <1>1, <2>2, KindsOfSymbols, SameDomain DEF Tok, Token, TextType
    <3>3. i + 2 \in 1 .. Len(text) + 1
      BY <1>3, <2>2
    <3>4. QED
      BY <1>1, <3>1, <3>2, <3>3, PushKeepsTypes
  <2>3. CASE ~(text[i] \in DOMAIN Second /\ i < Len(text) /\ text[i + 1] = Second[text[i]])
             /\ text[i] \in DOMAIN One
    <3>1. push_tok(Token(One[text[i]], i, 1), i + 1)
      BY <1>8, <2>3 DEF Symbol
    <3>2. Token(One[text[i]], i, 1) \in Tok
      BY <1>1, <2>3, KindsOfSymbols DEF Tok, Token, TextType
    <3>3. i + 1 \in 1 .. Len(text) + 1
      BY <1>3, <2>1
    <3>4. QED
      BY <1>1, <3>1, <3>2, <3>3, PushKeepsTypes
  <2>4. CASE Refuse
    BY <1>1, <2>4 DEF Refuse, TextType, TokensType, ModeType, Began
  <2>5. QED
    BY <1>8, <2>2, <2>3, <2>4 DEF Symbol
<1>9. CASE Unknown
  BY <1>1, <1>9 DEF Unknown, Refuse, TextType, TokensType, ModeType, Began
<1>10. CASE Finish
  <2>1. CASE Len(tokens) >= MaxTokens
    BY <1>1, <1>10, <2>1 DEF Finish, Refuse, TextType, TokensType, ModeType, Began
  <2>2. CASE ~(Len(tokens) >= MaxTokens)
    <3>1. /\ tokens' = Append(tokens, Token("EOF", i, 0)) /\ status' = "done"
          /\ UNCHANGED <<text, i, mode, start>>
      BY <1>10, <2>2 DEF Finish
    <3>2. Token("EOF", i, 0) \in Tok
      BY <1>1, KindsOfSymbols DEF Tok, Token, TextType
    <3>3. tokens' \in Seq(Tok) /\ Len(tokens') = Len(tokens) + 1
      BY <1>1, <3>1, <3>2 DEF TokensType
    <3>4. Len(tokens) \in Nat /\ MaxTokens \in Nat
      BY <1>1, LexerAssumption DEF TokensType
    <3>5. TokensType'
      BY <2>2, <3>3, <3>4 DEF TokensType
    <3>6. TextType' /\ ModeType' /\ Began'
      BY <1>1, <3>1 DEF TextType, ModeType, Began
    <3>7. QED
      BY <3>5, <3>6
  <2>3. QED
    BY <2>1, <2>2
<1>11. CASE Over \/ UNCHANGED vars
  BY <1>1, <1>11 DEF Over, vars, TextType, TokensType, ModeType, Began
<1>12. QED
  BY <1>4, <1>5, <1>6, <1>7, <1>8, <1>9, <1>10, <1>11 DEF Next

LEMMA TypeInit == Init => TypeInv
<1> SUFFICES ASSUME Init PROVE TypeInv
  OBVIOUS
<1>1. text \in Seq(1 .. 255) /\ Len(text) \in Nat
  BY LexerAssumption DEF Init
<1>2. TextType /\ ModeType /\ Began
  BY <1>1 DEF Init, TextType, ModeType, Began
<1>3. TokensType
  BY LexerAssumption DEF Init, TokensType
<1>4. QED
  BY <1>2, <1>3, TypeParts DEF TypeInv

LEMMA TypeInvariant == Spec => []TypeInv
BY TypeInit, TypeStep, PTL DEF Spec

\* The array of tokens is never overrun, and no character past the end of the
\* text is looked at, whatever the text (cc_lex, push_tok).
THEOREM TypeCorrect == Spec => []TypeOK
<1>1. TypeInv => TypeOK
  BY DEF TypeInv
<1>2. QED
  BY TypeInvariant, <1>1, PTL

-----------------------------------------------------------------------------
(* The tokens tile the text.                                               *)

\* TilesTheText, of any tokens: from one place to another there are blanks.
Blanked(t, from, to) == from <= to /\ \A c \in from .. to - 1 : t[c] \in Blanks

EndIn(toks, n) == IF n = 0 THEN 1 ELSE toks[n].first + toks[n].length

Tiles(toks, t, to) ==
    /\ \A n \in 1 .. Len(toks) : Blanked(t, EndIn(toks, n - 1), toks[n].first)
    /\ Blanked(t, EndIn(toks, Len(toks)), to)

LEMMA TilesParts == TilesTheText <=> Tiles(tokens, text, start)
BY Zenon DEF TilesTheText, Tiles, Blanked, EndOf, EndIn

LEMMA TilesPartsNext == TilesTheText' <=> Tiles(tokens', text', start')
BY Zenon DEF TilesTheText, Tiles, Blanked, EndOf, EndIn

LEMMA NothingBetween == ASSUME NEW t, NEW from \in Nat PROVE Blanked(t, from, from)
BY DEF Blanked

\* A token that begins where the last one, and the blanks after it, end.
LEMMA AppendTiles ==
    ASSUME NEW toks \in Seq(Tok), NEW t, NEW from \in Nat, Tiles(toks, t, from),
           NEW tok \in Tok, tok.first = from
    PROVE  Tiles(Append(toks, tok), t, tok.first + tok.length)
<1> DEFINE more == Append(toks, tok)
<1>1. /\ Len(toks) \in Nat /\ Len(more) = Len(toks) + 1 /\ more[Len(toks) + 1] = tok
      /\ \A n \in 1 .. Len(toks) : more[n] = toks[n]
  OBVIOUS
<1>2. tok.first \in Nat /\ tok.length \in Nat
  BY DEF Tok
<1>3. \A n \in 0 .. Len(toks) : EndIn(more, n) = EndIn(toks, n)
  BY <1>1 DEF EndIn
<1>4. EndIn(more, Len(more)) = tok.first + tok.length
  BY <1>1 DEF EndIn
<1>5. /\ \A n \in 1 .. Len(toks) : Blanked(t, EndIn(toks, n - 1), toks[n].first)
      /\ Blanked(t, EndIn(toks, Len(toks)), from)
  BY Zenon DEF Tiles
<1> HIDE DEF more
<1>6. ASSUME NEW n \in 1 .. Len(more) PROVE Blanked(t, EndIn(more, n - 1), more[n].first)
  <2>1. CASE n = Len(toks) + 1
    <3>1. EndIn(more, n - 1) = EndIn(toks, Len(toks)) /\ more[n].first = from
      BY <1>1, <1>3, <2>1
    <3>2. QED
      BY <1>5, <3>1
  <2>2. CASE n \in 1 .. Len(toks)
    <3>1. EndIn(more, n - 1) = EndIn(toks, n - 1) /\ more[n] = toks[n]
      BY <1>1, <1>3, <2>2
    <3>2. QED
      BY <1>5, <2>2, <3>1
  <2>3. QED
    BY <1>1, <2>1, <2>2
<1>7. Blanked(t, EndIn(more, Len(more)), tok.first + tok.length)
  <2>1. tok.first + tok.length \in Nat
    BY <1>2
  <2>2. QED
    BY <1>4, <2>1, NothingBetween
<1>8. QED
  BY <1>6, <1>7, Zenon DEF Tiles, more

\* A token that is stored, or refused.
LEMMA PushTiles ==
    ASSUME TextType, TokensType, TilesTheText,
           NEW tok \in Tok, tok.first = start, NEW next, next = tok.first + tok.length,
           push_tok(tok, next)
    PROVE  TilesTheText'
<1>1. CASE Len(tokens) >= MaxTokens
  BY <1>1, TilesParts, TilesPartsNext DEF push_tok, Refuse
<1>2. CASE ~(Len(tokens) >= MaxTokens)
  <2>1. tokens' = Append(tokens, tok) /\ start' = tok.first + tok.length /\ text' = text
    BY <1>2 DEF push_tok
  <2>2. tokens \in Seq(Tok) /\ start \in Nat /\ Tiles(tokens, text, start)
    BY TilesParts DEF TextType, TokensType
  <2>3. QED
    BY <2>1, <2>2, AppendTiles, TilesPartsNext
<1>3. QED
  BY <1>1, <1>2

\* What a step does to the tokens: nothing, a blank more behind the last one,
\* or a token that begins there.
LEMMA TilesStep == TypeInv /\ TilesTheText /\ [Next]_vars => TilesTheText'
<1> SUFFICES ASSUME TypeInv, TilesTheText, [Next]_vars PROVE TilesTheText'
  OBVIOUS
<1>1. TextType /\ TokensType /\ ModeType /\ Began /\ Tiles(tokens, text, start)
  BY TypeParts, TilesParts DEF TypeInv
<1>2. Len(text) \in Nat /\ i \in Nat \ {0} /\ start \in Nat \ {0} /\ start <= i
  BY <1>1 DEF TextType
<1>3. ASSUME UNCHANGED <<text, tokens, start>> PROVE TilesTheText'
  BY <1>1, <1>3, TilesPartsNext
<1>4. mode = "between" => start = i
  BY <1>1 DEF Began
<1>5. CASE Blank
  <2>1. /\ tokens' = tokens /\ text' = text /\ start' = start + 1
        /\ text[start] \in Blanks
    BY <1>4, <1>5 DEF Blank, Between, Next_In
  <2>2. Tiles(tokens, text, start + 1)
    <3> DEFINE end == EndIn(tokens, Len(tokens))
    <3>1. end \in Nat
      <4>1. Len(tokens) \in Nat /\ \A n \in 1 .. Len(tokens) : tokens[n] \in Tok
        BY <1>1 DEF TokensType
      <4>2. \A t \in Tok : t.first \in Nat /\ t.length \in Nat
        BY DEF Tok
      <4>3. QED
        BY <4>1, <4>2 DEF EndIn
    <3>2. Blanked(text, end, start)
      BY <1>1, Zenon DEF Tiles
    <3> HIDE DEF end
    <3>3. Blanked(text, end, start + 1)
      BY <1>2, <2>1, <3>1, <3>2 DEF Blanked
    <3>4. Blanked(text, EndIn(tokens, Len(tokens)), start + 1)
      BY <3>3 DEF end
    <3>5. QED
      BY <1>1, <3>4, Zenon DEF Tiles
  <2>3. QED
    BY <2>1, <2>2, TilesPartsNext
<1>6. CASE Begin
  BY <1>3, <1>4, <1>6 DEF Begin, Between
<1>7. CASE Word
  <2>1. CASE Next_In(Carries)
    BY <1>3, <1>7, <2>1 DEF Word
  <2>2. CASE ~Next_In(Carries)
    <3> DEFINE tok == Token(IF mode = "word" THEN keyword_kind(SubSeq(text, start, i - 1))
                            ELSE "NUMBER", start, i - start)
    <3>1. push_tok(tok, i)
      BY <1>7, <2>2 DEF Word
    <3>2. tok \in Tok
      BY <1>2, KindsOfWords, KindsOfSymbols DEF Tok, Token
    <3>3. tok.first = start /\ i = tok.first + tok.length
      BY <1>2 DEF Token
    <3> HIDE DEF tok
    <3>4. QED
      BY <1>1, <3>1, <3>2, <3>3, PushTiles
  <2>3. QED
    BY <2>1, <2>2
<1>8. CASE Quoted
  <2>1. CASE AtEnd
    BY <1>3, <1>8, <2>1 DEF Quoted, Refuse
  <2>2. CASE ~AtEnd /\ text[i] = text[start]
    <3> DEFINE tok == Token(mode, start, i + 1 - start)
    <3>1. push_tok(tok, i + 1) /\ mode \in {"STRING", "CHAR"}
      BY <1>8, <2>2 DEF Quoted
    <3>2. tok \in Tok
      BY <1>2, <3>1, KindsOfSymbols DEF Tok, Token
    <3>3. tok.first = start /\ i + 1 = tok.first + tok.length
      BY <1>2 DEF Token
    <3> HIDE DEF tok
    <3>4. QED
      BY <1>1, <3>1, <3>2, <3>3, PushTiles
  <2>3. CASE ~AtEnd /\ text[i] # text[start]
    BY <1>3, <1>8, <2>3 DEF Quoted
  <2>4. QED
    BY <2>1, <2>2, <2>3
<1>9. CASE Symbol
  <2>1. start = i
    BY <1>4, <1>9 DEF Symbol, Between
  <2>2. CASE text[i] \in DOMAIN Second /\ i < Len(text) /\ text[i + 1] = Second[text[i]]
    <3> DEFINE tok == Token(Two[text[i]], i, 2)
    <3>1. push_tok(tok, i + 2)
      BY <1>9, <2>2 DEF Symbol
    <3>2. tok \in Tok
      BY <1>2, <2>2, KindsOfSymbols, SameDomain DEF Tok, Token
    <3>3. tok.first = start /\ i + 2 = tok.first + tok.length
      BY <2>1 DEF Token
    <3> HIDE DEF tok
    <3>4. QED
      BY <1>1, <3>1, <3>2, <3>3, PushTiles
  <2>3. CASE ~(text[i] \in DOMAIN Second /\ i < Len(text) /\ text[i + 1] = Second[text[i]])
             /\ text[i] \in DOMAIN One
    <3> DEFINE tok == Token(One[text[i]], i, 1)
    <3>1. push_tok(tok, i + 1)
      BY <1>9, <2>3 DEF Symbol
    <3>2. tok \in Tok
      BY <1>2, <2>3, KindsOfSymbols DEF Tok, Token
    <3>3. tok.first = start /\ i + 1 = tok.first + tok.length
      BY <2>1 DEF Token
    <3> HIDE DEF tok
    <3>4. QED
      BY <1>1, <3>1, <3>2, <3>3, PushTiles
  <2>4. CASE Refuse
    BY <1>3, <2>4 DEF Refuse
  <2>5. QED
    BY <1>9, <2>2, <2>3, <2>4 DEF Symbol
<1>10. CASE Unknown
  BY <1>3, <1>10 DEF Unknown, Refuse
<1>11. CASE Finish
  <2>1. CASE Len(tokens) >= MaxTokens
    BY <1>3, <1>11, <2>1 DEF Finish, Refuse
  <2>2. CASE ~(Len(tokens) >= MaxTokens)
    <3> DEFINE tok == Token("EOF", i, 0)
    <3>1. /\ tokens' = Append(tokens, tok) /\ text' = text /\ start' = start /\ start = i
      BY <1>4, <1>11, <2>2 DEF Finish, Between
    <3>2. tok \in Tok
      BY <1>2, KindsOfSymbols DEF Tok, Token
    <3>3. tok.first = start /\ start' = tok.first + tok.length
      BY <1>2, <3>1 DEF Token
    <3>4. tokens \in Seq(Tok) /\ start \in Nat
      BY <1>1, <1>2 DEF TokensType
    <3> HIDE DEF tok
    <3>5. Tiles(Append(tokens, tok), text, tok.first + tok.length)
      BY <1>1, <3>2, <3>3, <3>4, AppendTiles
    <3>6. QED
      BY <3>1, <3>3, <3>5, TilesPartsNext
  <2>3. QED
    BY <2>1, <2>2
<1>12. CASE Over \/ UNCHANGED vars
  BY <1>3, <1>12 DEF Over, vars
<1>13. QED
  BY <1>5, <1>6, <1>7, <1>8, <1>9, <1>10, <1>11, <1>12 DEF Next

\* No character of a text is lost, used twice, or part of no token, unless it
\* is a blank (cc_lex).
THEOREM TokensTile == Spec => []TilesTheText
<1>1. Init => TilesTheText
  BY TilesParts DEF Init, Tiles, Blanked, EndIn
<1>2. TypeInv /\ TilesTheText /\ [Next]_vars => TilesTheText'
  BY TilesStep
<1>3. QED
  BY TypeInvariant, <1>1, <1>2, PTL DEF Spec
=============================================================================
