----------------------------- MODULE FileStore -----------------------------
(***************************************************************************)
(* What the file system promises its callers (src/fs/fs.h) on a host that  *)
(* does not fail: a store of files by name, of so many blocks in all and   *)
(* so many in a file.  It knows no directory and no allocation.            *)
(*                                                                         *)
(* What a new process finds is the store as it is or as it was one step    *)
(* before: a call that is no write is one step, and a write one for each   *)
(* of its blocks and one for its end, when what it added is in the file.   *)
(***************************************************************************)
EXTENDS Integers, Sequences, FiniteSets, Functions

CONSTANTS
    Names,              \* Names of files.
    Bytes,              \* What files are made of; 0 fills a last block.
    Block,              \* Bytes in a block.
    FileBlocks,         \* Blocks a file may have.
    Blocks,             \* Blocks there are for all of them.
    MaxFiles,           \* Files there may be.
    Handles,            \* Files that may be open at once, counted from 0.
    Lengths             \* How many bytes callers ask for.

VARIABLES
    files,      \* The bytes of each file there is.
    kept,       \* The same, in what a killed process leaves.
    up,         \* Whether the store may be asked for names.
    opened,     \* The name and the position of each open file.
    writing,    \* The write that is going on.
    ret         \* What the last call returned.

storeVars == <<files, kept, up, opened, writing, ret>>

NoWrite == [busy |-> FALSE, fh |-> 0, byte |-> 0, len |-> 0, done |-> 0, pos |-> 0]

Quiet == ~writing.busy /\ UNCHANGED <<up, writing>>

\* Every call that comes to the disk makes what was done before it last.
Lasts == kept' = files

With(f, x, v)  == [y \in DOMAIN f \cup {x} |-> IF y = x THEN v ELSE f[y]]
Least(S)       == CHOOSE x \in S : \A y \in S : x <= y
LesserOf(m, n) == IF m <= n THEN m ELSE n
FreeHandle     == Least(Handles \ DOMAIN opened)
Size(fh)       == Len(files[opened[fh].name])

-----------------------------------------------------------------------------
Init ==
    /\ files = <<>> /\ kept = <<>>
    /\ up = FALSE
    /\ opened = <<>>
    /\ writing = NoWrite
    /\ ret = 0

\* A call that finds nothing to do, or has nothing to do with files.
Elsewhere(rc) ==
    /\ Quiet
    /\ rc \in {0, -1} /\ ret' = rc
    /\ kept' \in {kept, files}
    /\ UNCHANGED <<files, opened>>

Open(n) ==
    /\ Quiet /\ up
    /\ n \in DOMAIN files /\ DOMAIN opened # Handles
    /\ opened' = With(opened, FreeHandle, [name |-> n, pos |-> 0])
    /\ ret' = FreeHandle
    /\ Lasts
    /\ UNCHANGED files

\* With no handle left the file is made all the same.
Create(n) ==
    /\ Quiet /\ up
    /\ n \in Names \ DOMAIN files /\ Cardinality(DOMAIN files) < MaxFiles
    /\ files' = With(files, n, <<>>)
    /\ IF DOMAIN opened = Handles
       THEN ret' = -1 /\ UNCHANGED opened
       ELSE ret' = FreeHandle /\ opened' = With(opened, FreeHandle, [name |-> n, pos |-> 0])
    /\ Lasts

\* No handle stays on a file that is gone.
Delete(n) ==
    /\ Quiet /\ up
    /\ n \in DOMAIN files
    /\ files' = Restrict(files, DOMAIN files \ {n})
    /\ opened' = Restrict(opened, {fh \in DOMAIN opened : opened[fh].name # n})
    /\ ret' = 0
    /\ Lasts

Exists == /\ Quiet /\ up /\ files # <<>> /\ ret' = 1
          /\ Lasts /\ UNCHANGED <<files, opened>>

List == /\ Quiet /\ up /\ ret' = Cardinality(DOMAIN files)
        /\ Lasts /\ UNCHANGED <<files, opened>>

Close(fh) ==
    /\ Quiet
    /\ opened' = Restrict(opened, DOMAIN opened \ {fh})
    /\ ret' = 0
    /\ UNCHANGED <<files, kept>>

Read(fh, len) ==
    /\ Quiet
    /\ fh \in DOMAIN opened /\ len > 0
    /\ ret' = LesserOf(len, Size(fh) - opened[fh].pos)
    /\ opened' = [opened EXCEPT ![fh].pos = @ + ret']
    /\ Lasts
    /\ UNCHANGED files

-----------------------------------------------------------------------------
(* Writing.                                                                *)

BlocksOf(bytes) == (bytes + Block - 1) \div Block

\* The blocks in use if the file called n had so many bytes.
InUse(n, bytes) ==
    UNION {{m} \X (0 .. BlocksOf(IF m = n THEN bytes ELSE Len(files[m])) - 1) :
            m \in DOMAIN files}

\* The file of handle fh may come to have so many bytes: no block is lost,
\* whatever was written, deleted or cut off by a kill before.
HasRoom(fh, bytes) ==
    \/ bytes <= Size(fh)
    \/ /\ BlocksOf(bytes) <= FileBlocks
       /\ Cardinality(InUse(opened[fh].name, bytes)) <= Blocks

WriteBegin(fh, len, byte) ==
    /\ ~writing.busy
    /\ fh \in DOMAIN opened /\ len > 0
    /\ writing' = [busy |-> TRUE, fh |-> fh, byte |-> byte, len |-> len,
                   done |-> 0, pos |-> opened[fh].pos]
    /\ ret' = 0
    /\ Lasts
    /\ UNCHANGED <<files, up, opened>>

\* The next bytes: those within the file are in it at once.
WriteSome(k) ==
    /\ writing.busy /\ k \in 1 .. writing.len - writing.done
    /\ LET n == opened[writing.fh].name  at == writing.pos
       IN  /\ HasRoom(writing.fh, at + k)
           /\ \/ /\ at + k <= Len(files[n])
                 /\ files' = [files EXCEPT ![n] = [q \in DOMAIN @ |->
                                IF at < q /\ q <= at + k THEN writing.byte ELSE @[q]]]
              \/ at >= Len(files[n]) /\ files' = files
    /\ writing' = [writing EXCEPT !.done = @ + k, !.pos = @ + k]
    /\ Lasts
    /\ UNCHANGED <<up, opened, ret>>

\* All is written, or there is no room for one byte more.  The file now has
\* the bytes past its end, and zeros up to the end of the block.
WriteEnd ==
    /\ writing.busy
    /\ writing.done = writing.len \/ ~HasRoom(writing.fh, writing.pos + 1)
    /\ files' = [files EXCEPT ![opened[writing.fh].name] =
                    IF writing.pos <= Len(@) THEN @
                    ELSE [q \in 1 .. BlocksOf(writing.pos) * Block |->
                            CASE q <= Len(@) -> @[q]
                              [] Len(@) < q /\ q <= writing.pos -> writing.byte
                              [] OTHER -> 0]]
    /\ opened' = [opened EXCEPT ![writing.fh].pos = writing.pos]
    /\ ret' = writing.done
    /\ writing' = NoWrite
    /\ Lasts
    /\ UNCHANGED up

\* A program that writes a sector by its address changes a block at most.
Scribble(byte) ==
    /\ Quiet /\ up
    /\ \/ files' = files
       \/ \E n \in DOMAIN files : \E b \in 0 .. BlocksOf(Len(files[n])) - 1 :
            files' = [files EXCEPT ![n] = [q \in DOMAIN @ |->
                        IF b * Block < q /\ q <= (b + 1) * Block THEN byte ELSE @[q]]]
    /\ ret' = 0
    /\ Lasts
    /\ UNCHANGED opened

-----------------------------------------------------------------------------
(* The process.                                                            *)

Mount ==
    /\ ~writing.busy
    /\ up' = TRUE /\ opened' = <<>> /\ ret' = 0
    /\ Lasts
    /\ UNCHANGED <<files, writing>>

\* It ends, and has lost nothing or the last step.
Gone ==
    /\ up /\ up' = FALSE
    /\ files' \in {kept} \cup (IF writing.busy THEN {} ELSE {files})
    /\ kept' = files'
    /\ opened' = <<>> /\ writing' = NoWrite /\ ret' = 0

Next ==
    \/ \E rc \in {0, -1} : Elsewhere(rc)
    \/ \E n \in Names : Open(n) \/ Create(n) \/ Delete(n)
    \/ Exists \/ List
    \/ \E fh \in Handles : Close(fh)
    \/ \E fh \in DOMAIN opened, len \in Lengths : Read(fh, len)
    \/ \E fh \in DOMAIN opened, len \in Lengths, byte \in Bytes : WriteBegin(fh, len, byte)
    \/ \E k \in 1 .. Block : WriteSome(k)
    \/ WriteEnd
    \/ \E byte \in Bytes : Scribble(byte)
    \/ Mount \/ Gone

Spec == Init /\ [][Next]_storeVars
=============================================================================
