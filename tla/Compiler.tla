------------------------------ MODULE Compiler ------------------------------
(***************************************************************************)
(* The tiny C compiler (cc_compile in src/compiler/compiler.c): Parser and *)
(* Codegen one after the other, from the tokens of a program to the bytes  *)
(* of its .com file.                                                       *)
(***************************************************************************)
EXTENDS Integers, Sequences

CONSTANTS
    MaxNodes,   \* The constants of Parser
    CodeBase, GlobalBase, Scratch, StackTop, MaxCode, MaxSymbols, MaxFunctions,  \* and Codegen.
    Checksum    \* The checksum of the source.

ASSUME CompilerAssumption ==
    /\ Checksum \in 0 .. 65535
    /\ {CodeBase, GlobalBase, Scratch, StackTop} \subseteq 0 .. 65535
    /\ {MaxCode, MaxSymbols, MaxFunctions} \subseteq Nat
    /\ CodeBase + MaxCode <= 65535

P  == INSTANCE Parser
CG == INSTANCE Codegen

\* The compiler fails, and nothing is written.
Refused == <<>>

\* What is left of a program that the generator cannot translate: NOP;
\* MVI A; MVI B; HLT.
Stub == <<\h00, \h3E, Checksum % 256, \h06, Checksum \div 256, \h76>>

\* What was generated before the failure is kept.
Generated_Partial(parsed) == CG!cc_codegen(parsed.tokens, parsed.nodes).code

\* The bytes of the program in a parser's result.
Generated(parsed) ==
    LET g == CG!cc_codegen(parsed.tokens, parsed.nodes)
    IN  IF g.ok THEN g.code ELSE Stub

cc_compile(tokens) == LET parsed == P!cc_parse(tokens)
                      IN  IF parsed.ok THEN Generated(parsed) ELSE Refused
=============================================================================
