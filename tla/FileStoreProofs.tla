-------------------------- MODULE FileStoreProofs ---------------------------
(***************************************************************************)
(* The file system implements the store of files: for every geometry,      *)
(* directory size, handle table and set of names the assumptions allow, on *)
(* a host that does not fail.                                              *)
(***************************************************************************)
EXTENDS FileSystemProofs

-----------------------------------------------------------------------------
(* Places in a file.                                                       *)

\* The blocks of a file of bytes.
LEMMA BlocksReach ==
    ASSUME NEW bytes \in Nat, NEW s \in Nat
    PROVE  /\ Store!BlocksOf(bytes) \in Nat
           /\ s < Store!BlocksOf(bytes) <=> s * SectorBytes < bytes
<1> DEFINE c == Store!BlocksOf(bytes)
<1>1. c = (bytes + (SectorBytes - 1)) \div SectorBytes
  BY SectorSize DEF Store!BlocksOf
<1>2. /\ c \in Nat /\ c * SectorBytes \in Nat
      /\ bytes <= c * SectorBytes /\ c * SectorBytes < bytes + SectorBytes
  BY <1>1, RoundedUp
<1>3. s * SectorBytes \in Nat /\ SectorBytes \in Nat
  BY SectorSize
<1> HIDE DEF c
<1>4. ASSUME s < c PROVE s * SectorBytes < bytes
  <2>1. s * SectorBytes + SectorBytes <= c * SectorBytes
    BY <1>2, <1>4, Multiples
  <2>2. QED
    BY <1>2, <1>3, <2>1
<1>5. ASSUME ~(s < c) PROVE ~(s * SectorBytes < bytes)
  <2>1. CASE c = s
    BY <1>2, <1>3, <2>1
  <2>2. CASE c < s
    <3>1. c * SectorBytes + SectorBytes <= s * SectorBytes
      BY <1>2, <2>2, Multiples
    <3>2. QED
      BY <1>2, <1>3, <3>1
  <2>3. QED
    BY <1>2, <1>5, <2>1, <2>2
<1>6. QED
  BY <1>2, <1>4, <1>5 DEF c

\* Whole blocks.
LEMMA WholeBlocks ==
    ASSUME NEW c \in Nat
    PROVE  c * SectorBytes \in Nat /\ Store!BlocksOf(c * SectorBytes) = c
<1>1. c * SectorBytes \in Nat
  BY SectorSize
<1> DEFINE b == Store!BlocksOf(c * SectorBytes)
<1>2. b \in Nat /\ \A s \in Nat : s < b <=> s * SectorBytes < c * SectorBytes
  BY <1>1, BlocksReach
<1>3. \A s \in Nat : s * SectorBytes < c * SectorBytes <=> s < c
  <2> SUFFICES ASSUME NEW s \in Nat PROVE s * SectorBytes < c * SectorBytes <=> s < c
    OBVIOUS
  <2>1. s * SectorBytes \in Nat /\ SlotOf(s * SectorBytes) = s
    BY SlotStart
  <2>2. QED
    BY <2>1, SlotBefore
<1> HIDE DEF b
<1>4. ~(b < c) /\ ~(c < b)
  BY <1>2, <1>3
<1>5. QED
  BY <1>1, <1>2, <1>4 DEF b

-----------------------------------------------------------------------------
(* The files of an image.                                                  *)

\* A file has a sector in each slot that its size covers and in no other.
Filled(dir) ==
    \A e \in Entries : dir[e].active =>
        /\ dir[e].count <= SlotsPerFile
        /\ \A s \in Slots : dir[e].alloc[s] # 0 <=> s < dir[e].count

Sound(image) ==
    /\ image \in ImageType
    /\ SectorsOwnedOnce(image.dir) /\ OneEntryPerName(image.dir) /\ Filled(image.dir)

LEMMA FileNames ==
    ASSUME NEW image
    PROVE  DOMAIN Stored(image) =
             {image.dir[e].name : e \in {x \in Entries : image.dir[x].active}}
BY DEF Stored

LEMMA FileOf ==
    ASSUME NEW image, OneEntryPerName(image.dir), NEW e \in Entries, image.dir[e].active
    PROVE  /\ image.dir[e].name \in DOMAIN Stored(image)
           /\ Stored(image)[image.dir[e].name] = Content(image, e)
<1> DEFINE active == {x \in Entries : image.dir[x].active}
           n == image.dir[e].name
<1>1. e \in active
  OBVIOUS
<1>2. (CHOOSE x \in active : image.dir[x].name = n) = e
  BY <1>1 DEF OneEntryPerName
<1>3. QED
  BY <1>1, <1>2 DEF Stored

\* A function is the files of an image when it has their names and contents.
LEMMA StoredIs ==
    ASSUME NEW image, OneEntryPerName(image.dir),
           NEW F, F = [n \in DOMAIN F |-> F[n]],
           DOMAIN F = {image.dir[e].name : e \in {x \in Entries : image.dir[x].active}},
           \A e \in Entries : image.dir[e].active => F[image.dir[e].name] = Content(image, e)
    PROVE  Stored(image) = F
<1>1. Stored(image) = [n \in DOMAIN F |-> Stored(image)[n]]
  BY DEF Stored
<1>2. ASSUME NEW n \in DOMAIN F PROVE Stored(image)[n] = F[n]
  <2>1. PICK e \in Entries : image.dir[e].active /\ image.dir[e].name = n
    BY <1>2
  <2>2. QED
    BY <2>1, FileOf
<1>3. QED
  BY <1>1, <1>2

\* Its size and bytes.
LEMMA SizeType ==
    ASSUME NEW image \in ImageType, NEW e \in Entries
    PROVE  /\ image.dir[e].count \in Nat /\ SizeOf(image.dir[e]) \in Nat
           /\ SizeOf(image.dir[e]) = image.dir[e].count * SectorBytes
<1>1. image.dir[e].count \in Nat
  BY DEF ImageType, EntryType
<1>2. QED
  BY <1>1, SectorSize DEF SizeOf

LEMMA LengthOf ==
    ASSUME NEW image \in ImageType, NEW e \in Entries
    PROVE  /\ DOMAIN Content(image, e) = 1 .. SizeOf(image.dir[e])
           /\ Len(Content(image, e)) = SizeOf(image.dir[e])
<1>1. SizeOf(image.dir[e]) \in Nat
  BY SizeType
<1>2. QED
  BY <1>1 DEF Content

LEMMA ByteOfFile ==
    ASSUME NEW image, Sound(image), NEW e \in Entries, image.dir[e].active,
           NEW q \in 1 .. SizeOf(image.dir[e])
    PROVE  /\ q - 1 \in Nat /\ SlotOf(q - 1) \in Slots /\ SlotOf(q - 1) < image.dir[e].count
           /\ (q - 1) % SectorBytes \in 0 .. SectorBytes - 1
           /\ image.dir[e].alloc[SlotOf(q - 1)] # 0
           /\ Content(image, e)[q] =
                image.sec[image.dir[e].alloc[SlotOf(q - 1)] - 1][(q - 1) % SectorBytes]
<1>1. image \in ImageType /\ image.dir[e].count \in Nat /\ image.dir[e].count <= SlotsPerFile
  BY SizeType DEF Sound, Filled
<1>2. q - 1 \in Nat /\ q - 1 < image.dir[e].count * SectorBytes
  BY <1>1, SizeType
<1>3. SlotOf(q - 1) \in Nat /\ SlotOf(q - 1) < image.dir[e].count
  BY <1>1, <1>2, SlotBefore, PlaceOf
<1>4. SlotOf(q - 1) \in Slots
  BY <1>1, <1>3, FileSystemAssumption DEF Slots
<1>5. image.dir[e].alloc[SlotOf(q - 1)] # 0
  BY <1>3, <1>4 DEF Sound, Filled
<1>6. (q - 1) % SectorBytes \in 0 .. SectorBytes - 1
  BY <1>2, PlaceOf
<1>7. QED
  BY <1>2, <1>3, <1>4, <1>5, <1>6 DEF Content

\* A file whose entry and sectors are the same.
LEMMA ContentSame ==
    ASSUME NEW one, Sound(one), NEW two, Sound(two), NEW e \in Entries,
           one.dir[e].active, two.dir[e].active,
           two.dir[e].count = one.dir[e].count,
           \A s \in Slots : s < one.dir[e].count =>
              /\ two.dir[e].alloc[s] = one.dir[e].alloc[s]
              /\ two.sec[one.dir[e].alloc[s] - 1] = one.sec[one.dir[e].alloc[s] - 1]
    PROVE  Content(two, e) = Content(one, e)
<1>1. SizeOf(two.dir[e]) = SizeOf(one.dir[e])
  BY DEF SizeOf
<1>2. /\ Content(two, e) = [q \in 1 .. SizeOf(one.dir[e]) |-> Content(two, e)[q]]
      /\ Content(one, e) = [q \in 1 .. SizeOf(one.dir[e]) |-> Content(one, e)[q]]
  BY <1>1 DEF Content
<1>3. ASSUME NEW q \in 1 .. SizeOf(one.dir[e]) PROVE Content(two, e)[q] = Content(one, e)[q]
  <2> DEFINE x == SlotOf(q - 1)
             i == (q - 1) % SectorBytes
  <2>1. /\ x \in Slots /\ x < one.dir[e].count
        /\ Content(one, e)[q] = one.sec[one.dir[e].alloc[x] - 1][i]
    BY <1>3, ByteOfFile
  <2>2. Content(two, e)[q] = two.sec[two.dir[e].alloc[x] - 1][i]
    <3>1. q \in 1 .. SizeOf(two.dir[e])
      BY <1>1, <1>3
    <3>2. QED
      BY <3>1, ByteOfFile
  <2> HIDE DEF x, i
  <2>3. QED
    BY <2>1, <2>2
<1>4. QED
  BY <1>2, <1>3

\* The entries in use, and the files, of two images.
Active(image) == {e \in Entries : image.dir[e].active}

LEMMA SameFiles ==
    ASSUME NEW one, Sound(one), NEW two, Sound(two),
           \A e \in Entries : two.dir[e].active <=> one.dir[e].active,
           \A e \in Entries : one.dir[e].active =>
              /\ two.dir[e].name = one.dir[e].name
              /\ Content(two, e) = Content(one, e)
    PROVE  Stored(two) = Stored(one)
<1> DEFINE F == Stored(one)
<1>1. F = [n \in DOMAIN F |-> F[n]]
  BY DEF Stored
<1>2. DOMAIN F = {two.dir[e].name : e \in {x \in Entries : two.dir[x].active}}
  <2>1. DOMAIN F = {one.dir[e].name : e \in {x \in Entries : one.dir[x].active}}
    BY FileNames
  <2> HIDE DEF F
  <2>2. QED
    BY <2>1
<1>3. \A e \in Entries : two.dir[e].active => F[two.dir[e].name] = Content(two, e)
  BY FileOf DEF Sound
<1> HIDE DEF F
<1>4. Stored(two) = F
  BY <1>1, <1>2, <1>3, StoredIs DEF Sound
<1>5. QED
  BY <1>4 DEF F

LEMMA FileChanged ==
    ASSUME NEW one, Sound(one), NEW two, Sound(two),
           NEW x \in Entries, one.dir[x].active,
           \A e \in Entries : two.dir[e].active <=> one.dir[e].active,
           \A e \in Entries : one.dir[e].active => two.dir[e].name = one.dir[e].name,
           \A e \in Entries : one.dir[e].active /\ e # x => Content(two, e) = Content(one, e)
    PROVE  Stored(two) = [Stored(one) EXCEPT ![one.dir[x].name] = Content(two, x)]
<1> DEFINE n == one.dir[x].name
           F == [Stored(one) EXCEPT ![n] = Content(two, x)]
<1>0. OneEntryPerName(one.dir) /\ OneEntryPerName(two.dir)
  BY DEF Sound
<1>1. DOMAIN F = DOMAIN Stored(one) /\ n \in DOMAIN F
  BY <1>0, FileOf
<1>2. DOMAIN F = {two.dir[e].name : e \in {y \in Entries : two.dir[y].active}}
  <2>1. DOMAIN F = {one.dir[e].name : e \in {y \in Entries : one.dir[y].active}}
    BY <1>1, FileNames
  <2> HIDE DEF F
  <2>2. QED
    BY <2>1
<1>3. ASSUME NEW e \in Entries, two.dir[e].active
      PROVE  F[two.dir[e].name] = Content(two, e)
  <2>1. one.dir[e].active /\ two.dir[e].name = one.dir[e].name
    BY <1>3
  <2>2. CASE e = x
    BY <1>1, <2>1, <2>2
  <2>3. CASE e # x
    <3>1. one.dir[e].name # n
      BY <1>0, <2>1, <2>3 DEF OneEntryPerName
    <3>2. one.dir[e].name \in DOMAIN Stored(one) /\ Stored(one)[one.dir[e].name] = Content(one, e)
      BY <1>0, <2>1, FileOf
    <3>3. QED
      BY <2>1, <2>3, <3>1, <3>2
  <2>4. QED
    BY <2>2, <2>3
<1>4. F = [m \in DOMAIN F |-> F[m]]
  BY DEF Stored
<1> HIDE DEF F
<1>5. Stored(two) = F
  BY <1>0, <1>2, <1>3, <1>4, StoredIs
<1>6. QED
  BY <1>5 DEF F

LEMMA FileAdded ==
    ASSUME NEW one, Sound(one), NEW two, Sound(two), NEW x \in Entries, NEW n,
           ~one.dir[x].active, two.dir[x] = NewEntry(n),
           \A e \in Entries : e # x => two.dir[e] = one.dir[e],
           \A e \in Entries : one.dir[e].active => Content(two, e) = Content(one, e),
           ~NameFound(one.dir, n)
    PROVE  Stored(two) = Store!With(Stored(one), n, <<>>)
<1> DEFINE F == Store!With(Stored(one), n, <<>>)
<1>0. OneEntryPerName(one.dir) /\ OneEntryPerName(two.dir)
  BY DEF Sound
<1>1. DOMAIN F = DOMAIN Stored(one) \cup {n} /\ F = [m \in DOMAIN F |-> F[m]]
  BY DEF Store!With
<1>2. DOMAIN F = {two.dir[e].name : e \in {y \in Entries : two.dir[y].active}}
  <2>1. DOMAIN Stored(one) = {one.dir[e].name : e \in {y \in Entries : one.dir[y].active}}
    BY FileNames
  <2>2. two.dir[x].active /\ two.dir[x].name = n
    BY DEF NewEntry
  <2> HIDE DEF F
  <2>3. QED
    BY <1>1, <2>1, <2>2
<1>3. ASSUME NEW e \in Entries, two.dir[e].active
      PROVE  F[two.dir[e].name] = Content(two, e)
  <2>1. CASE e = x
    <3>1. two.dir[x].name = n /\ two.dir[x].count = 0
      BY DEF NewEntry
    <3>2. SizeOf(two.dir[x]) = 0
      BY <3>1, SectorSize DEF SizeOf
    <3>3. Content(two, x) = <<>>
      BY <3>2 DEF Content
    <3>4. F[n] = <<>>
      BY DEF Store!With
    <3>5. QED
      BY <2>1, <3>1, <3>3, <3>4
  <2>2. CASE e # x
    <3>1. two.dir[e] = one.dir[e] /\ one.dir[e].active /\ Content(two, e) = Content(one, e)
      BY <1>3, <2>2
    <3>2. one.dir[e].name # n
      BY <3>1 DEF NameFound
    <3>3. one.dir[e].name \in DOMAIN Stored(one) /\ Stored(one)[one.dir[e].name] = Content(one, e)
      BY <1>0, <3>1, FileOf
    <3>4. F[one.dir[e].name] = Stored(one)[one.dir[e].name]
      BY <3>2, <3>3 DEF Store!With
    <3>5. QED
      BY <3>1, <3>3, <3>4
  <2>3. QED
    BY <2>1, <2>2
<1> HIDE DEF F
<1>4. Stored(two) = F
  BY <1>0, <1>1, <1>2, <1>3, StoredIs
<1>5. QED
  BY <1>4 DEF F

LEMMA FileRemoved ==
    ASSUME NEW one, Sound(one), NEW two, Sound(two), NEW x \in Entries, one.dir[x].active,
           ~two.dir[x].active,
           \A e \in Entries : e # x => two.dir[e] = one.dir[e],
           \A e \in Entries : one.dir[e].active /\ e # x => Content(two, e) = Content(one, e)
    PROVE  Stored(two) = Store!Restrict(Stored(one), DOMAIN Stored(one) \ {one.dir[x].name})
<1> DEFINE n == one.dir[x].name
           F == Store!Restrict(Stored(one), DOMAIN Stored(one) \ {n})
<1>0. OneEntryPerName(one.dir) /\ OneEntryPerName(two.dir)
  BY DEF Sound
<1>1. DOMAIN F = DOMAIN Stored(one) \ {n} /\ F = [m \in DOMAIN F |-> F[m]]
  BY DEF Store!Restrict
<1>2. \A e \in Entries : two.dir[e].active <=> one.dir[e].active /\ e # x
  OBVIOUS
<1>3. \A e \in Entries : one.dir[e].active /\ e # x => one.dir[e].name # n
  BY <1>0 DEF OneEntryPerName
<1>4. DOMAIN F = {two.dir[e].name : e \in {y \in Entries : two.dir[y].active}}
  <2>1. DOMAIN Stored(one) = {one.dir[e].name : e \in {y \in Entries : one.dir[y].active}}
    BY FileNames
  <2> HIDE DEF F
  <2>2. QED
    BY <1>1, <1>2, <1>3, <2>1
<1>5. ASSUME NEW e \in Entries, two.dir[e].active
      PROVE  F[two.dir[e].name] = Content(two, e)
  <2>1. one.dir[e].active /\ e # x /\ two.dir[e] = one.dir[e] /\ Content(two, e) = Content(one, e)
    BY <1>2, <1>5
  <2>2. one.dir[e].name \in DOMAIN Stored(one) /\ Stored(one)[one.dir[e].name] = Content(one, e)
    BY <1>0, <2>1, FileOf
  <2>3. F[one.dir[e].name] = Stored(one)[one.dir[e].name]
    BY <1>3, <2>1, <2>2 DEF Store!Restrict
  <2>4. QED
    BY <2>1, <2>2, <2>3
<1> HIDE DEF F
<1>6. Stored(two) = F
  BY <1>0, <1>1, <1>4, <1>5, StoredIs
<1>7. QED
  BY <1>6 DEF F

\* There is a file for each entry in use.
LEMMA HowMany ==
    ASSUME NEW image, Sound(image)
    PROVE  /\ IsFiniteSet(Active(image)) /\ Cardinality(Active(image)) \in Nat
           /\ Cardinality(DOMAIN Stored(image)) = Cardinality(Active(image))
<1>1. IsFiniteSet(Entries)
  BY FS_Interval, FileSystemAssumption DEF Entries
<1>2. Active(image) \in SUBSET Entries
  BY DEF Active
<1>3. IsFiniteSet(Active(image)) /\ Cardinality(Active(image)) \in Nat
  BY <1>1, <1>2, FS_Subset, FS_CardinalityType
<1> DEFINE f == [e \in Active(image) |-> image.dir[e].name]
<1>4. f \in Bijection(Active(image), DOMAIN Stored(image))
  <2>1. DOMAIN Stored(image) = {image.dir[e].name : e \in Active(image)}
    BY FileNames DEF Active
  <2>2. f \in Surjection(Active(image), DOMAIN Stored(image))
    BY <2>1 DEF Surjection
  <2>3. f \in Injection(Active(image), DOMAIN Stored(image))
    <3>1. f \in [Active(image) -> DOMAIN Stored(image)]
      BY <2>1
    <3>2. \A a, b \in Active(image) : f[a] = f[b] => a = b
      BY DEF Active, Sound, OneEntryPerName
    <3>3. QED
      BY <3>1, <3>2 DEF Injection, IsInjective
  <2>4. QED
    BY <2>2, <2>3 DEF Bijection
<1>5. ExistsBijection(Active(image), DOMAIN Stored(image))
  BY <1>4 DEF ExistsBijection
<1>6. QED
  BY <1>3, <1>5, FS_Bijection

-----------------------------------------------------------------------------
(* Room.                                                                   *)

\* The places of files that have a sector.
Taken(dir) ==
    {p \in (Names \cup {BadName}) \X Slots :
        \E e \in Entries : dir[e].active /\ dir[e].name = p[1] /\ dir[e].alloc[p[2]] # 0}

LEMMA TakenIs ==
    ASSUME NEW dir \in Directories, NEW n, NEW s
    PROVE  <<n, s>> \in Taken(dir) <=>
             s \in Slots /\ \E e \in Entries :
                dir[e].active /\ dir[e].name = n /\ dir[e].alloc[s] # 0
BY DEF Taken, Directories, EntryType

\* The sector of each.
SectorAt(dir) ==
    [p \in Taken(dir) |->
        dir[CHOOSE e \in Entries : dir[e].active /\ dir[e].name = p[1]].alloc[p[2]] - 1]

LEMMA SectorAtIs ==
    ASSUME NEW dir \in Directories, OneEntryPerName(dir),
           NEW e \in Entries, NEW s \in Slots, dir[e].active, dir[e].alloc[s] # 0
    PROVE  /\ <<dir[e].name, s>> \in Taken(dir)
           /\ SectorAt(dir)[<<dir[e].name, s>>] = dir[e].alloc[s] - 1
<1>1. <<dir[e].name, s>> \in Taken(dir)
  BY TakenIs
<1>2. (CHOOSE x \in Entries : dir[x].active /\ dir[x].name = dir[e].name) = e
  BY DEF OneEntryPerName
<1>3. QED
  BY <1>1, <1>2 DEF SectorAt

\* No more places than sectors, and as many when no sector is free.
LEMMA TakenFit ==
    ASSUME NEW dir \in Directories, SectorsOwnedOnce(dir), OneEntryPerName(dir)
    PROVE  /\ IsFiniteSet(Taken(dir)) /\ Cardinality(Taken(dir)) \in Nat
           /\ Cardinality(Taken(dir)) <= TotalSectors - FirstData
           /\ FreeSectors(dir) = {} => Cardinality(Taken(dir)) = TotalSectors - FirstData
<1> DEFINE f == SectorAt(dir)
<1>1. /\ IsFiniteSet(DataSectors)
      /\ Cardinality(DataSectors) = TotalSectors - FirstData
  <2>1. TotalSectors \in Nat /\ FirstData \in Nat /\ FirstData <= TotalSectors
    BY GeometryAssumption
  <2>2. CASE FirstData = TotalSectors
    BY <2>1, <2>2, FS_Interval DEF DataSectors
  <2>3. CASE FirstData < TotalSectors
    BY <2>1, <2>3, FS_Interval DEF DataSectors
  <2>4. QED
    BY <2>1, <2>2, <2>3
<1>2. ASSUME NEW p \in Taken(dir)
      PROVE  \E e \in Entries, s \in Slots :
                /\ dir[e].active /\ dir[e].alloc[s] # 0
                /\ p = <<dir[e].name, s>> /\ f[p] = dir[e].alloc[s] - 1
  <2>1. PICK n \in Names \cup {BadName}, s \in Slots : p = <<n, s>>
    BY DEF Taken
  <2>2. PICK e \in Entries : dir[e].active /\ dir[e].name = n /\ dir[e].alloc[s] # 0
    BY <2>1, TakenIs
  <2>3. f[p] = dir[e].alloc[s] - 1
    BY <2>1, <2>2, SectorAtIs
  <2>4. QED
    BY <2>1, <2>2, <2>3
<1>3. \A e \in Entries, s \in Slots : dir[e].alloc[s] \in Nat
  BY FileSystemAssumption DEF Directories, EntryType, Allocs
<1>4. f \in Injection(Taken(dir), DataSectors)
  <2>1. ASSUME NEW p \in Taken(dir) PROVE f[p] \in DataSectors
    BY <1>2, <2>1 DEF SectorsOwnedOnce
  <2>2. f \in [Taken(dir) -> DataSectors]
    BY <2>1 DEF SectorAt
  <2>3. ASSUME NEW a \in Taken(dir), NEW b \in Taken(dir), f[a] = f[b] PROVE a = b
    <3>1. PICK e \in Entries, s \in Slots :
                /\ dir[e].active /\ dir[e].alloc[s] # 0
                /\ a = <<dir[e].name, s>> /\ f[a] = dir[e].alloc[s] - 1
      BY <1>2
    <3>2. PICK x \in Entries, t \in Slots :
                /\ dir[x].active /\ dir[x].alloc[t] # 0
                /\ b = <<dir[x].name, t>> /\ f[b] = dir[x].alloc[t] - 1
      BY <1>2
    <3>3. dir[x].alloc[t] = dir[e].alloc[s]
      BY <1>3, <2>3, <3>1, <3>2
    <3>4. e = x /\ s = t
      BY <3>1, <3>2, <3>3 DEF SectorsOwnedOnce
    <3>5. QED
      BY <3>1, <3>2, <3>4
  <2>4. QED
    BY <2>2, <2>3 DEF Injection, IsInjective
<1>5. /\ IsFiniteSet(Taken(dir))
      /\ Cardinality(Taken(dir)) <= Cardinality(DataSectors)
      /\ f \in Surjection(Taken(dir), DataSectors) =>
            Cardinality(Taken(dir)) = Cardinality(DataSectors)
  BY <1>1, <1>4, FS_Injection
<1>6. ASSUME FreeSectors(dir) = {} PROVE f \in Surjection(Taken(dir), DataSectors)
  <2>1. ASSUME NEW l \in DataSectors PROVE \E p \in Taken(dir) : f[p] = l
    <3>1. SectorInUse(dir, l)
      BY <1>6 DEF FreeSectors
    <3>2. PICK e \in Entries, s \in Slots :
              dir[e].active /\ dir[e].alloc[s] # 0 /\ dir[e].alloc[s] - 1 = l
      BY <3>1 DEF SectorInUse
    <3>3. QED
      BY <3>2, SectorAtIs
  <2>2. f \in [Taken(dir) -> DataSectors]
    BY <1>4 DEF Injection
  <2> HIDE DEF f
  <2>3. QED
    BY <2>1, <2>2 DEF Surjection
<1>7. QED
  BY <1>1, <1>5, <1>6, FS_CardinalityType

\* The blocks of a store are those places, when the file of entry x has bytes
\* in just the slots that dir gives it.
LEMMA InUseIs ==
    ASSUME Sound(disk), NEW dir \in Directories, NEW x \in Entries, disk.dir[x].active,
           dir[x].active, dir[x].name = disk.dir[x].name,
           \A e \in Entries : e # x => dir[e] = disk.dir[e],
           NEW bytes \in Nat, Store!BlocksOf(bytes) <= SlotsPerFile,
           \A s \in Slots : dir[x].alloc[s] # 0 <=> s * SectorBytes < bytes
    PROVE  Store!InUse(disk.dir[x].name, bytes) = Taken(dir)
<1> DEFINE files == Stored(disk)
           name == disk.dir[x].name
           Blks(m) == Store!BlocksOf(IF m = name THEN bytes ELSE Len(files[m]))
<1>0. disk \in ImageType /\ OneEntryPerName(disk.dir) /\ SlotsPerFile \in Nat
  BY FileSystemAssumption DEF Sound
<1>1. \A m \in Nat : m \in Slots <=> m < SlotsPerFile
  BY <1>0 DEF Slots
<1>2. \A p : p \in Store!InUse(name, bytes) <=>
              \E m \in DOMAIN files : p \in {m} \X (0 .. Blks(m) - 1)
  BY DEF Store!InUse
<1>3. ASSUME NEW e \in Entries, disk.dir[e].active, NEW s \in Nat
      PROVE  /\ Blks(disk.dir[e].name) \in Nat
             /\ s < Blks(disk.dir[e].name) <=> s \in Slots /\ dir[e].alloc[s] # 0
  <2>1. CASE e = x
    <3>1. Blks(name) = Store!BlocksOf(bytes)
      OBVIOUS
    <3>2. s < Store!BlocksOf(bytes) <=> s * SectorBytes < bytes
      BY BlocksReach
    <3>3. Store!BlocksOf(bytes) \in Nat
      BY BlocksReach
    <3>4. QED
      BY <1>0, <1>1, <2>1, <3>1, <3>2, <3>3
  <2>2. CASE e # x
    <3>1. disk.dir[e].name # name /\ dir[e] = disk.dir[e]
      BY <1>0, <1>3, <2>2 DEF OneEntryPerName
    <3>2. Len(files[disk.dir[e].name]) = disk.dir[e].count * SectorBytes /\ disk.dir[e].count \in Nat
      BY <1>0, <1>3, FileOf, LengthOf, SizeType
    <3>3. Blks(disk.dir[e].name) = disk.dir[e].count
      BY <3>1, <3>2, WholeBlocks
    <3>4. /\ disk.dir[e].count <= SlotsPerFile
          /\ \A t \in Slots : disk.dir[e].alloc[t] # 0 <=> t < disk.dir[e].count
      BY <1>3 DEF Sound, Filled
    <3>5. QED
      BY <1>0, <1>1, <3>1, <3>2, <3>3, <3>4
  <2>3. QED
    BY <2>1, <2>2
<1> HIDE DEF files, name, Blks
<1>4. ASSUME NEW p, p \in Store!InUse(name, bytes) PROVE p \in Taken(dir)
  <2>1. PICK m \in DOMAIN files : p \in {m} \X (0 .. Blks(m) - 1)
    BY <1>2, <1>4
  <2>2. PICK e \in Entries : disk.dir[e].active /\ disk.dir[e].name = m
    <3>1. DOMAIN files = {disk.dir[e].name : e \in {y \in Entries : disk.dir[y].active}}
      BY FileNames DEF files
    <3>2. QED
      BY <2>1, <3>1
  <2>3. PICK s \in 0 .. Blks(m) - 1 : p = <<m, s>>
    BY <2>1
  <2>4. s \in Nat /\ s < Blks(m)
    BY <1>3, <2>2, <2>3
  <2>5. s \in Slots /\ dir[e].alloc[s] # 0
    BY <1>3, <2>2, <2>4
  <2>6. dir[e].active /\ dir[e].name = m
    BY <2>2 DEF name
  <2>7. QED
    BY <2>3, <2>5, <2>6, TakenIs
<1>5. ASSUME NEW p, p \in Taken(dir) PROVE p \in Store!InUse(name, bytes)
  <2>1. PICK n \in Names \cup {BadName}, s \in Slots : p = <<n, s>>
    BY <1>5 DEF Taken
  <2>2. PICK e \in Entries : dir[e].active /\ dir[e].name = n /\ dir[e].alloc[s] # 0
    BY <1>5, <2>1, TakenIs
  <2>3. disk.dir[e].active /\ disk.dir[e].name = n
    BY <2>2 DEF name
  <2>4. n \in DOMAIN files
    BY <1>0, <2>3, FileOf DEF files
  <2>5. s \in Nat
    BY DEF Slots
  <2>6. s < Blks(n) /\ Blks(n) \in Nat
    BY <1>3, <2>2, <2>3, <2>5
  <2>7. p \in {n} \X (0 .. Blks(n) - 1)
    BY <2>1, <2>5, <2>6
  <2>8. QED
    BY <1>2, <2>4, <2>7
<1>6. Store!InUse(name, bytes) = Taken(dir)
  BY <1>4, <1>5
<1>7. QED
  BY <1>6 DEF name

-----------------------------------------------------------------------------
(* The invariant.                                                          *)

\* An open file has been read or written up to its end at most.
PositionsIn ==
    \A h \in Handles : handle[h].used =>
        handle[h].pos <= SizeOf(disk.dir[handle[h].entry])

\* The running write: it started at the position of its handle; what it adds
\* to the entry are the sectors of the slots it has begun to fill past the
\* end of the file, with its bytes and then zeros.
JobExtends == job.busy =>
    LET old == disk.dir[JobEntry]
    IN  /\ job.fh \in Handles /\ handle[job.fh].used
        /\ job.pos = handle[job.fh].pos + job.total
        /\ job.total <= job.len /\ job.pos <= SlotsPerFile * SectorBytes
        /\ job.rec.count = old.count
        /\ \A s \in Slots : s < old.count => job.rec.alloc[s] = old.alloc[s]
        /\ \A s \in Slots : ~(s < old.count) =>
              /\ job.rec.alloc[s] # 0 <=> s * SectorBytes < job.pos
              /\ job.rec.alloc[s] # 0 =>
                    \A i \in 0 .. SectorBytes - 1 :
                        disk.sec[job.rec.alloc[s] - 1][i] =
                            IF s * SectorBytes + i < job.pos THEN job.data ELSE 0

StoreInv ==
    /\ SafeInv /\ HandlesLive /\ PositionsIn /\ JobExtends
    /\ Filled(disk.dir) /\ Filled(durable.dir)

LEMMA StoreImages ==
    ASSUME StoreInv
    PROVE  /\ TypeOK /\ Sound(disk) /\ Sound(durable)
           /\ disk.dir \in Directories /\ durable.dir \in Directories
BY GoodNow DEF StoreInv, SafeInv, TypeOK, Sound, GoodDir

\* Steps that leave the handles, the job and what the process sees.
LEMMA NothingMoved ==
    ASSUME StoreInv, SafeInv', HandlesLive', disk' = disk, handle' = handle, job' = job,
           durable' \in {disk, durable}
    PROVE  StoreInv'
BY DEF StoreInv, PositionsIn, JobExtends, JobEntry

\* Steps after which no write is running.
LEMMA NoJobLeft ==
    ASSUME SafeInv', HandlesLive', ~job'.busy, PositionsIn',
           Filled(disk'.dir), Filled(durable'.dir)
    PROVE  StoreInv'
BY DEF StoreInv, JobExtends

\* An entry is put in the directory.
LEMMA EntryFilled ==
    ASSUME NEW dir \in Directories, Filled(dir), NEW e \in Entries, NEW rec,
           rec.active => /\ rec.count <= SlotsPerFile
                         /\ \A s \in Slots : rec.alloc[s] # 0 <=> s < rec.count
    PROVE  Filled([dir EXCEPT ![e] = rec])
<1> DEFINE new == [dir EXCEPT ![e] = rec]
<1>1. new[e] = rec /\ \A x \in Entries : x # e => new[x] = dir[x]
  BY DEF Directories
<1> HIDE DEF new
<1>2. Filled(new)
  BY <1>1 DEF Filled
<1>3. QED
  BY <1>2 DEF new

\* A handle is opened on entry e, which is in use, at its start.
LEMMA HandleOpened ==
    ASSUME TypeOK, NEW h \in Handles, NEW e \in Entries,
           handle' = [handle EXCEPT ![h] = OpenedHandle(e)],
           SizeOf(disk'.dir[e]) \in Nat,
           \A x \in Handles : handle[x].used =>
              handle[x].pos <= SizeOf(disk'.dir[handle[x].entry])
    PROVE  PositionsIn'
<1>1. handle'[h] = [used |-> TRUE, entry |-> e, pos |-> 0]
  BY DEF TypeOK, OpenedHandle
<1>2. \A x \in Handles : x # h => handle'[x] = handle[x]
  BY DEF TypeOK
<1>3. QED
  BY <1>1, <1>2 DEF PositionsIn

\* A refusal or an answer.
LEMMA PlainStored ==
    ASSUME IOErrors = FALSE, StoreInv, SafeInv', HandlesLive', NEW rc,
           Refused(rc) \/ Fails(rc) \/ Answers(rc)
    PROVE  StoreInv'
BY NothingMoved DEF Refused, Fails, HostFails, Answers, SeekAndRead, Seek

LEMMA OpenStored ==
    ASSUME IOErrors = FALSE, StoreInv, SafeInv', HandlesLive', NEW sp, Open(sp)
    PROVE  StoreInv'
<1>1. CASE NameCallFails(sp, -1) \/ Answers(-1)
  BY <1>1, PlainStored DEF NameCallFails
<1>2. ASSUME NEW e \in Entries, NEW h \in Handles,
             handle' = [handle EXCEPT ![h] = OpenedHandle(e)], SeekAndRead, job' = job
      PROVE  StoreInv'
  <2>1. disk' = disk /\ durable' = disk /\ ~job'.busy
    BY <1>2 DEF Open, Idle, SeekAndRead, Seek
  <2>2. TypeOK /\ SizeOf(disk.dir[e]) \in Nat
    BY SizeType, StoreImages DEF TypeOK
  <2>3. PositionsIn'
    BY <1>2, <2>1, <2>2, HandleOpened DEF StoreInv, PositionsIn
  <2>4. QED
    BY <2>1, <2>3, NoJobLeft DEF StoreInv
<1>3. QED
  BY <1>1, <1>2 DEF Open

LEMMA CreateStored ==
    ASSUME IOErrors = FALSE, StoreInv, SafeInv', HandlesLive', NEW sp, Create(sp)
    PROVE  StoreInv'
<1>1. CASE NameCallFails(sp, -1) \/ Answers(-1)
  BY <1>1, PlainStored DEF NameCallFails
<1>2. ASSUME NEW e \in Entries, NEW n,
             ~disk.dir[e].active,
             SeekAndWrite([disk EXCEPT !.dir[e] = NewEntry(n)]), job' = job,
             \/ handle' = handle
             \/ \E h \in Handles : handle' = [handle EXCEPT ![h] = OpenedHandle(e)]
      PROVE  StoreInv'
  <2>1. /\ disk'.dir = [disk.dir EXCEPT ![e] = NewEntry(n)] /\ durable' = disk /\ ~job'.busy
        /\ TypeOK
    BY <1>2, StoreImages DEF Create, Idle, SeekAndWrite, Seek, TypeOK, ImageType
  <2>2. Filled(disk'.dir)
    <3>1. /\ NewEntry(n).count = 0 /\ \A s \in Slots : NewEntry(n).alloc[s] = 0
          /\ \A s \in Slots : ~(s < 0)
      BY DEF NewEntry, NoAlloc, Slots
    <3>2. /\ NewEntry(n).count <= SlotsPerFile
          /\ \A s \in Slots : NewEntry(n).alloc[s] # 0 <=> s < NewEntry(n).count
      BY <3>1, FileSystemAssumption
    <3>3. disk.dir \in Directories /\ Filled(disk.dir)
      BY StoreImages DEF StoreInv
    <3>4. QED
      BY <2>1, <3>2, <3>3, EntryFilled
  <2>3. ASSUME NEW x \in Handles, handle[x].used
        PROVE  handle[x].pos <= SizeOf(disk'.dir[handle[x].entry])
    <3>1. handle[x].entry \in Entries /\ handle[x].entry # e
      BY <1>2, <2>1, <2>3 DEF StoreInv, HandlesLive, TypeOK, HandleType
    <3>2. disk'.dir[handle[x].entry] = disk.dir[handle[x].entry]
      BY <2>1, <3>1, StoreImages DEF Directories
    <3>3. QED
      BY <2>3, <3>2 DEF StoreInv, PositionsIn
  <2>4. SizeOf(disk'.dir[e]) \in Nat
    BY <2>1, SectorSize DEF SizeOf, NewEntry, TypeOK, ImageType
  <2>5. PositionsIn'
    <3>1. CASE handle' = handle
      BY <2>3, <3>1 DEF PositionsIn
    <3>2. QED
      BY <1>2, <2>1, <2>3, <2>4, <3>1, HandleOpened
  <2>6. QED
    BY <2>1, <2>2, <2>5, NoJobLeft DEF StoreInv
<1>3. ASSUME NEW e \in Entries, IsLeast(e, FreeEntries(Refreshed)) PROVE ~disk.dir[e].active
  BY <1>3 DEF IsLeast, FreeEntries, Refreshed
<1>4. QED
  BY <1>1, <1>2, <1>3 DEF Create

LEMMA DeleteStored ==
    ASSUME IOErrors = FALSE, StoreInv, SafeInv', HandlesLive', NEW sp, Delete(sp)
    PROVE  StoreInv'
<1>1. CASE NameCallFails(sp, -1) \/ Answers(-1)
  BY <1>1, PlainStored DEF NameCallFails
<1>2. ASSUME NEW e \in Entries, SeekAndWrite([disk EXCEPT !.dir[e] = FreeEntry]),
             handle' = HandlesWithout(e), job' = job
      PROVE  StoreInv'
  <2>1. /\ disk'.dir = [disk.dir EXCEPT ![e] = FreeEntry] /\ durable' = disk /\ ~job'.busy
        /\ TypeOK
    BY <1>2, StoreImages DEF Delete, Idle, SeekAndWrite, Seek, TypeOK, ImageType
  <2>2. Filled(disk'.dir)
    <3>1. ~FreeEntry.active
      BY DEF FreeEntry
    <3>2. QED
      BY <2>1, <3>1, StoreImages, EntryFilled DEF StoreInv
  <2>3. ASSUME NEW x \in Handles, handle'[x].used
        PROVE  handle'[x].pos <= SizeOf(disk'.dir[handle'[x].entry])
    <3>1. handle'[x] = handle[x] /\ handle[x].entry # e /\ handle[x].used
      BY <1>2, <2>3 DEF HandlesWithout, ClosedHandle
    <3>2. disk'.dir[handle[x].entry] = disk.dir[handle[x].entry]
      BY <2>1, <3>1, StoreImages DEF Directories, TypeOK, HandleType
    <3>3. QED
      BY <3>1, <3>2 DEF StoreInv, PositionsIn
  <2>4. QED
    BY <2>1, <2>2, <2>3, NoJobLeft DEF StoreInv, PositionsIn
<1>3. QED
  BY <1>1, <1>2 DEF Delete

LEMMA CloseStored ==
    ASSUME StoreInv, SafeInv', HandlesLive', NEW fh, Close(fh)
    PROVE  StoreInv'
<1>1. disk' = disk /\ durable' = durable /\ ~job'.busy
  BY DEF Close, Idle
<1>2. PositionsIn'
  BY <1>1 DEF Close, ClosedHandle, StoreInv, PositionsIn
<1>3. QED
  BY <1>1, <1>2, NoJobLeft DEF StoreInv

\* What fs_read reads: what it was asked for or what there is, if less.
LEMMA ReadGives ==
    ASSUME IOErrors = FALSE, StoreInv, NEW fh, NEW len \in Nat, Read(fh, len),
           ~BadHandle(fh), len > 0
    PROVE  /\ fh \in Handles /\ handle[fh].used /\ handle[fh].pos \in Nat
           /\ LET left == SizeOf(disk.dir[handle[fh].entry]) - handle[fh].pos
              IN  /\ left \in Nat
                  /\ ret'.rc = (IF len <= left THEN len ELSE left)
           /\ handle' = [handle EXCEPT ![fh].pos = @ + ret'.rc]
           /\ disk' = disk /\ durable' = disk /\ mounted' = mounted /\ job' = job
<1> DEFINE e == handle[fh].entry
           pos == handle[fh].pos
           size == SizeOf(disk.dir[e])
           entry == disk.dir[e]
<1>1. fh \in Handles /\ handle[fh].used /\ TypeOK /\ e \in Entries /\ pos \in Nat /\ entry.active
  BY StoreImages DEF BadHandle, StoreInv, HandlesLive, TypeOK, HandleType
<1>2. PICK n \in 0 .. len :
        /\ IsLeast(n, ReadLimits(entry, pos, len))
        /\ handle' = [handle EXCEPT ![fh].pos = @ + n]
        /\ Returns(n)
        /\ SeekAndRead /\ mounted' = mounted /\ job' = job
  BY DEF Read, Fails, Refused, HostFails, Refreshed
<1>3. size \in Nat /\ entry.count \in Nat /\ size = entry.count * SectorBytes /\ pos <= size
  BY <1>1, SizeType DEF TypeOK, StoreInv, PositionsIn
<1>4. size - pos \in Nat /\ Ahead(size, pos) = size - pos
  BY <1>1, <1>3 DEF Ahead
<1>5. n <= len /\ n <= size - pos
  BY <1>2, <1>4 DEF IsLeast, ReadLimits
<1>6. ASSUME NEW s \in Slots, entry.alloc[s] = 0
      PROVE  size - pos <= Ahead(s * SectorBytes, pos)
  <2>1. s \in Nat /\ ~(s < entry.count)
    BY <1>1, <1>6 DEF StoreInv, Filled, Slots
  <2>2. s * SectorBytes \in Nat /\ SectorBytes \in Nat /\ SlotOf(s * SectorBytes) = s
    BY <2>1, SlotStart, SectorSize
  <2>3. ~(s * SectorBytes < size)
    BY <1>3, <2>1, <2>2, SlotBefore
  <2>4. QED
    BY <1>1, <1>3, <2>2, <2>3 DEF Ahead
<1>7. n = len \/ size - pos <= n
  BY <1>2, <1>4, <1>6 DEF IsLeast, ReadLimits
<1>8. n = IF len <= size - pos THEN len ELSE size - pos
  BY <1>4, <1>5, <1>7
<1>9. ret'.rc = n
  BY <1>2 DEF Returns, Result
<1>10. QED
  BY <1>1, <1>2, <1>4, <1>8, <1>9 DEF SeekAndRead, Seek

LEMMA ReadStored ==
    ASSUME IOErrors = FALSE, StoreInv, SafeInv', HandlesLive', NEW fh, NEW len \in Nat,
           Read(fh, len)
    PROVE  StoreInv'
<1>1. CASE Refused(-1) \/ Refused(0)
  BY <1>1, PlainStored
<1>2. CASE ~BadHandle(fh) /\ len > 0
  <2>1. /\ fh \in Handles /\ handle[fh].used /\ handle[fh].pos \in Nat
        /\ ret'.rc \in Nat
        /\ handle[fh].pos + ret'.rc <= SizeOf(disk.dir[handle[fh].entry])
    <3> DEFINE left == SizeOf(disk.dir[handle[fh].entry]) - handle[fh].pos
    <3>1. /\ fh \in Handles /\ handle[fh].used /\ handle[fh].pos \in Nat
          /\ left \in Nat
          /\ ret'.rc = (IF len <= left THEN len ELSE left)
      BY <1>2, ReadGives
    <3>2. SizeOf(disk.dir[handle[fh].entry]) \in Nat
      BY <3>1, SizeType, StoreImages DEF TypeOK, HandleType
    <3>3. QED
      BY <3>1, <3>2
  <2>2. /\ handle' = [handle EXCEPT ![fh].pos = @ + ret'.rc]
        /\ disk' = disk /\ durable' = disk /\ job' = job
    BY <1>2, ReadGives
  <2>3. /\ handle'[fh].pos = handle[fh].pos + ret'.rc /\ handle'[fh].entry = handle[fh].entry
        /\ \A h \in Handles : h # fh => handle'[h] = handle[h]
    BY <2>1, <2>2, StoreImages DEF TypeOK, HandleType
  <2>4. PositionsIn'
    BY <2>1, <2>2, <2>3 DEF StoreInv, PositionsIn
  <2>5. ~job'.busy
    BY <2>2 DEF Read, Idle
  <2>6. QED
    BY <2>2, <2>4, <2>5, NoJobLeft DEF StoreInv
<1>3. QED
  BY <1>1, <1>2 DEF Read

LEMMA BeginStored ==
    ASSUME StoreInv, SafeInv', HandlesLive', NEW fh, NEW len \in Nat, NEW byte,
           WriteBegin(fh, len, byte)
    PROVE  StoreInv'
<1>1. TypeOK /\ fh \in Handles /\ handle[fh].used
  BY StoreImages DEF WriteBegin, BadHandle
<1>2. handle[fh].entry \in Entries /\ handle[fh].pos \in Nat
  BY <1>1 DEF TypeOK, HandleType
<1>3. /\ disk' = disk /\ durable' = disk /\ handle' = handle
      /\ job' = [busy |-> TRUE, fh |-> fh, data |-> byte, len |-> len, total |-> 0,
                 pos |-> handle[fh].pos, rec |-> disk.dir[handle[fh].entry]]
  BY DEF WriteBegin, SeekAndRead, Seek, Refreshed
<1>4. JobEntry' = handle[fh].entry
  BY <1>3 DEF JobEntry
<1> DEFINE old == disk.dir[handle[fh].entry]
<1>5. ASSUME NEW s \in Slots, ~(s < old.count)
      PROVE  old.alloc[s] = 0 /\ ~(s * SectorBytes < handle[fh].pos)
  <2>1. old.active
    BY <1>1 DEF StoreInv, HandlesLive
  <2>2. old.alloc[s] = 0
    BY <1>2, <1>5, <2>1 DEF StoreInv, Filled
  <2>3. handle[fh].pos <= SizeOf(old) /\ SizeOf(old) = old.count * SectorBytes
        /\ old.count \in Nat /\ SizeOf(old) \in Nat
    BY <1>1, <1>2, SizeType DEF StoreInv, PositionsIn, TypeOK
  <2>4. s \in Nat
    BY DEF Slots
  <2>5. s * SectorBytes \in Nat /\ ~(s * SectorBytes < old.count * SectorBytes)
    BY <1>5, <2>3, <2>4, SlotStart, SlotBefore
  <2>6. QED
    BY <1>2, <2>2, <2>3, <2>5
<1>6. /\ handle[fh].pos = handle[fh].pos + 0 /\ 0 <= len
      /\ handle[fh].pos <= SlotsPerFile * SectorBytes
  <2>1. /\ handle[fh].pos <= SizeOf(old) /\ old.count <= SlotsPerFile
        /\ SizeOf(old) = old.count * SectorBytes /\ old.count \in Nat
    BY <1>1, <1>2, SizeType DEF StoreInv, PositionsIn, TypeOK, HandlesLive, Filled
  <2>2. old.count * SectorBytes <= SlotsPerFile * SectorBytes
    BY <2>1, MultiplesUpTo, FileSystemAssumption
  <2>3. old.count * SectorBytes \in Nat /\ SlotsPerFile * SectorBytes \in Nat
    BY <2>1, SlotStart, FileSystemAssumption
  <2>4. QED
    BY <1>2, <2>1, <2>2, <2>3
<1>7. JobExtends'
  <2>1. /\ job'.fh = fh /\ job'.pos = handle[fh].pos /\ job'.total = 0 /\ job'.len = len
        /\ job'.rec = old
    BY <1>3
  <2> HIDE DEF old
  <2>2. disk'.dir[JobEntry'] = old
    BY <1>3, <1>4 DEF old
  <2>3. QED
    BY <1>1, <1>3, <1>5, <1>6, <2>1, <2>2 DEF JobExtends
<1>8. PositionsIn' /\ Filled(disk'.dir) /\ Filled(durable'.dir)
  BY <1>3 DEF StoreInv, PositionsIn
<1>9. QED
  BY <1>7, <1>8 DEF StoreInv

-----------------------------------------------------------------------------
(* A running write keeps it.                                               *)

LEMMA JobNow ==
    ASSUME StoreInv, job.busy
    PROVE  /\ TypeOK /\ job \in JobType /\ JobEntry \in Entries /\ job.fh \in Handles
           /\ job.pos \in Nat /\ job.total \in Nat /\ job.len \in Nat /\ job.rec \in EntryType
           /\ disk.dir[JobEntry].active /\ job.rec.active
           /\ job.rec.name = disk.dir[JobEntry].name
           /\ job.rec.count = disk.dir[JobEntry].count /\ job.rec.count \in Nat
           /\ JobDir \in Directories /\ JobDir[JobEntry] = job.rec
           /\ \A e \in Entries : e # JobEntry => JobDir[e] = disk.dir[e]
           /\ SectorsOwnedOnce(JobDir) /\ OneEntryPerName(JobDir)
<1>1. /\ TypeOK /\ job \in JobType /\ JobEntry \in Entries /\ job.fh \in Handles
      /\ job.pos \in Nat /\ job.total \in Nat /\ job.len \in Nat /\ job.rec \in EntryType
      /\ job.rec.count \in Nat
  BY StoreImages, JobDirType DEF TypeOK, JobType, EntryType
<1>2. disk.dir[JobEntry].active
  BY <1>1 DEF StoreInv, JobExtends, HandlesLive, JobEntry
<1>3. job.rec.active /\ job.rec.name = disk.dir[JobEntry].name
  BY <1>2 DEF StoreInv, SafeInv, JobKeepsName
<1>4. job.rec.count = disk.dir[JobEntry].count
  BY DEF StoreInv, JobExtends
<1>5. /\ JobDir \in Directories /\ JobDir[JobEntry] = job.rec
      /\ \A e \in Entries : e # JobEntry => JobDir[e] = disk.dir[e]
  BY <1>1, StoreImages, JobDirType DEF JobDir, Directories
<1>6. SectorsOwnedOnce(JobDir)
  BY DEF StoreInv, SafeInv, AllocSafe
<1>7. OneEntryPerName(JobDir)
  <2>1. OneEntryPerName(disk.dir)
    BY StoreImages DEF Sound
  <2>2. ASSUME NEW e \in Entries
        PROVE  JobDir[e].name = disk.dir[e].name /\ (JobDir[e].active <=> disk.dir[e].active)
    <3>1. CASE e = JobEntry
      BY <1>2, <1>3, <1>5, <3>1
    <3>2. CASE e # JobEntry
      BY <1>5, <3>2
    <3>3. QED
      BY <3>1, <3>2
  <2>3. QED
    BY <2>1, <2>2 DEF OneEntryPerName
<1>8. QED
  BY <1>1, <1>2, <1>3, <1>4, <1>5, <1>6, <1>7

\* The part of the sector that the next step writes.
LEMMA ChunkIs ==
    ASSUME StoreInv, WriteMore
    PROVE  /\ job.busy /\ SlotOf(job.pos) \in Slots /\ SlotOf(job.pos) \in Nat
           /\ Chunk \in Nat /\ Chunk > 0 /\ job.total + Chunk <= job.len
           /\ job.pos % SectorBytes \in Nat /\ SlotOf(job.pos) * SectorBytes \in Nat
           /\ (job.pos % SectorBytes) + Chunk <= SectorBytes
           /\ job.pos = SlotOf(job.pos) * SectorBytes + (job.pos % SectorBytes)
BY JobNow, ChunkSize DEF WriteMore

\* Where the job is after it.
LEMMA AdvancedIs ==
    ASSUME StoreInv, WriteMore, NEW rec, job' = Advanced(rec), handle' = handle
    PROVE  /\ job'.busy /\ job'.fh = job.fh /\ job'.data = job.data /\ job'.len = job.len
           /\ job'.total = job.total + Chunk /\ job'.pos = job.pos + Chunk /\ job'.rec = rec
           /\ JobEntry' = JobEntry
<1>1. job \in JobType /\ job.busy
  BY ChunkIs, JobNow
<1>2. QED
  BY <1>1 DEF Advanced, JobType, JobEntry

\* A sector is put in a slot of the entry, or is in it.
LEMMA SectorExtends ==
    ASSUME StoreInv, WriteMore, NEW rec, job' = Advanced(rec),
           handle' = handle, disk'.dir = disk.dir,
           rec.count = job.rec.count, rec.alloc[SlotOf(job.pos)] # 0,
           \A s \in Slots : s # SlotOf(job.pos) =>
              /\ rec.alloc[s] = job.rec.alloc[s]
              /\ rec.alloc[s] # 0 =>
                    disk'.sec[rec.alloc[s] - 1] = disk.sec[rec.alloc[s] - 1],
           SlotOf(job.pos) < job.rec.count =>
              rec.alloc[SlotOf(job.pos)] = job.rec.alloc[SlotOf(job.pos)],
           ~(SlotOf(job.pos) < job.rec.count) =>
              \A i \in 0 .. SectorBytes - 1 :
                 disk'.sec[rec.alloc[SlotOf(job.pos)] - 1][i] =
                    IF SlotOf(job.pos) * SectorBytes + i < job.pos + Chunk THEN job.data ELSE 0
    PROVE  JobExtends'
<1> DEFINE s0 == SlotOf(job.pos)
           old == disk.dir[JobEntry]
<1>1. /\ job.busy /\ s0 \in Slots /\ s0 \in Nat /\ Chunk \in Nat /\ Chunk > 0
      /\ job.total + Chunk <= job.len
      /\ job.pos % SectorBytes \in Nat /\ s0 * SectorBytes \in Nat
      /\ (job.pos % SectorBytes) + Chunk <= SectorBytes
      /\ job.pos = s0 * SectorBytes + (job.pos % SectorBytes)
  BY ChunkIs
<1>2. /\ job.pos \in Nat /\ job.total \in Nat /\ job.len \in Nat
      /\ job.rec.count = old.count /\ old.count \in Nat /\ SectorBytes \in Nat
  BY <1>1, JobNow, SectorSize
<1>3. /\ job.fh \in Handles /\ handle[job.fh].used
      /\ job.pos = handle[job.fh].pos + job.total
      /\ \A s \in Slots : s < old.count => job.rec.alloc[s] = old.alloc[s]
      /\ \A s \in Slots : ~(s < old.count) =>
            /\ job.rec.alloc[s] # 0 <=> s * SectorBytes < job.pos
            /\ job.rec.alloc[s] # 0 =>
                  \A i \in 0 .. SectorBytes - 1 :
                      disk.sec[job.rec.alloc[s] - 1][i] =
                          IF s * SectorBytes + i < job.pos THEN job.data ELSE 0
  BY <1>1 DEF StoreInv, JobExtends
<1>4. /\ job'.busy /\ job'.fh = job.fh /\ job'.data = job.data /\ job'.len = job.len
      /\ job'.total = job.total + Chunk /\ job'.pos = job.pos + Chunk /\ job'.rec = rec
      /\ JobEntry' = JobEntry
  BY AdvancedIs
<1>5. handle[job.fh].pos \in Nat
  BY <1>3, StoreImages DEF TypeOK, HandleType
<1>6. /\ job'.pos = handle'[job'.fh].pos + job'.total /\ job'.total <= job'.len
      /\ job'.pos <= SlotsPerFile * SectorBytes
  <2>1. SlotsPerFile \in Nat /\ s0 < SlotsPerFile
    BY <1>1, FileSystemAssumption DEF Slots
  <2>2. s0 * SectorBytes + SectorBytes <= SlotsPerFile * SectorBytes
    BY <1>1, <2>1, Multiples
  <2>3. SlotsPerFile * SectorBytes \in Nat
    BY <2>1, SlotStart
  <2>4. job'.total <= job'.len
    BY <1>1, <1>4
  <2>5. job'.pos = handle'[job'.fh].pos + job'.total
    <3>1. handle'[job'.fh].pos = handle[job.fh].pos
      BY <1>4
    <3>2. job'.pos = job.pos + Chunk /\ job'.total = job.total + Chunk
      BY <1>4
    <3>3. job.pos = handle[job.fh].pos + job.total
      BY <1>3
    <3>4. Chunk \in Nat /\ job.total \in Nat
      BY <1>1, <1>2
    <3>5. job.pos + Chunk = handle[job.fh].pos + (job.total + Chunk)
      BY <1>5, <3>3, <3>4
    <3>6. QED
      BY <3>1, <3>2, <3>5
  <2>6. job'.pos <= SlotsPerFile * SectorBytes
    <3>1. job'.pos = job.pos + Chunk
      BY <1>4
    <3> HIDE DEF s0
    <3>2. QED
      BY <1>1, <1>2, <2>2, <2>3, <3>1
  <2>7. QED
    BY <2>4, <2>5, <2>6
<1>7. \A s \in Slots : s < old.count => rec.alloc[s] = old.alloc[s]
  <2>1. ASSUME NEW s \in Slots, s < old.count
        PROVE  rec.alloc[s] = old.alloc[s]
    <3>1. job.rec.alloc[s] = old.alloc[s]
      BY <1>3, <2>1
    <3>2. CASE s = s0
      <4>1. s0 < job.rec.count
        BY <1>2, <2>1, <3>2
      <4>2. QED
        BY <3>1, <3>2, <4>1
    <3>3. CASE s # s0
      BY <3>1, <3>3
    <3>4. QED
      BY <3>2, <3>3
  <2>2. QED
    BY <2>1
<1>8. ASSUME NEW s \in Slots, ~(s < old.count), s # s0
      PROVE  /\ rec.alloc[s] # 0 <=> s * SectorBytes < job.pos + Chunk
             /\ rec.alloc[s] # 0 =>
                   \A i \in 0 .. SectorBytes - 1 :
                       disk'.sec[rec.alloc[s] - 1][i] =
                           IF s * SectorBytes + i < job.pos + Chunk THEN job.data ELSE 0
  <2>1. s \in Nat /\ s * SectorBytes \in Nat
    BY SlotStart DEF Slots
  <2>2. rec.alloc[s] = job.rec.alloc[s]
    BY <1>8
  <2>3. ASSUME s < s0
        PROVE  s * SectorBytes + SectorBytes <= job.pos
    <3>1. s * SectorBytes + SectorBytes <= s0 * SectorBytes
      BY <1>1, <2>1, <2>3, Multiples
    <3>2. QED
      BY <1>1, <1>2, <2>1, <3>1
  <2>4. ASSUME s0 < s
        PROVE  ~(s * SectorBytes < job.pos + Chunk)
    <3>1. s0 * SectorBytes + SectorBytes <= s * SectorBytes
      BY <1>1, <2>1, <2>4, Multiples
    <3>2. QED
      BY <1>1, <1>2, <2>1, <3>1
  <2>5. CASE s < s0
    <3>1. s * SectorBytes < job.pos /\ s * SectorBytes < job.pos + Chunk
      BY <1>1, <1>2, <2>1, <2>3, <2>5, SectorSize
    <3>2. \A i \in 0 .. SectorBytes - 1 :
             s * SectorBytes + i < job.pos /\ s * SectorBytes + i < job.pos + Chunk
      BY <1>1, <1>2, <2>1, <2>3, <2>5
    <3>3. rec.alloc[s] # 0
      BY <1>3, <1>8, <2>2, <3>1
    <3>4. \A i \in 0 .. SectorBytes - 1 : disk.sec[job.rec.alloc[s] - 1][i] = job.data
      BY <1>3, <1>8, <2>2, <3>2, <3>3
    <3>5. disk'.sec[rec.alloc[s] - 1] = disk.sec[job.rec.alloc[s] - 1]
      BY <1>8, <2>2, <3>3
    <3>6. QED
      BY <3>1, <3>2, <3>3, <3>4, <3>5
  <2>6. CASE s0 < s
    <3>1. ~(s * SectorBytes < job.pos + Chunk) /\ ~(s * SectorBytes < job.pos)
      BY <1>1, <1>2, <2>1, <2>4, <2>6
    <3>2. rec.alloc[s] = 0
      BY <1>3, <1>8, <2>2, <3>1
    <3>3. QED
      BY <3>1, <3>2
  <2>7. QED
    BY <1>1, <1>8, <2>1, <2>5, <2>6
<1>9. ASSUME ~(s0 < old.count)
      PROVE  s0 * SectorBytes < job.pos + Chunk
  BY <1>1, <1>2
<1>10. \A s \in Slots : ~(s < old.count) =>
         /\ rec.alloc[s] # 0 <=> s * SectorBytes < job.pos + Chunk
         /\ rec.alloc[s] # 0 =>
               \A i \in 0 .. SectorBytes - 1 :
                   disk'.sec[rec.alloc[s] - 1][i] =
                       IF s * SectorBytes + i < job.pos + Chunk THEN job.data ELSE 0
  BY <1>2, <1>8, <1>9
<1>11. disk'.dir[JobEntry'] = old
  BY <1>4
<1> HIDE DEF old, s0
<1>12. /\ job'.fh \in Handles /\ handle'[job'.fh].used
       /\ job'.pos = handle'[job'.fh].pos + job'.total
       /\ job'.total <= job'.len /\ job'.pos <= SlotsPerFile * SectorBytes
       /\ job'.rec.count = disk'.dir[JobEntry'].count
  BY <1>2, <1>3, <1>4, <1>6, <1>11
<1>13. \A s \in Slots : s < disk'.dir[JobEntry'].count =>
          job'.rec.alloc[s] = disk'.dir[JobEntry'].alloc[s]
  BY <1>4, <1>7, <1>11
<1>14. \A s \in Slots : ~(s < disk'.dir[JobEntry'].count) =>
          /\ job'.rec.alloc[s] # 0 <=> s * SectorBytes < job'.pos
          /\ job'.rec.alloc[s] # 0 =>
                \A i \in 0 .. SectorBytes - 1 :
                    disk'.sec[job'.rec.alloc[s] - 1][i] =
                        IF s * SectorBytes + i < job'.pos THEN job'.data ELSE 0
  BY <1>4, <1>10, <1>11
<1>15. QED
  BY <1>12, <1>13, <1>14 DEF JobExtends

\* The sector fs_write changes, where the slot has one.
LEMMA InPlaceIs ==
    ASSUME StoreInv, WriteInPlace
    PROVE  LET k == job.rec.alloc[SlotOf(job.pos)]
           IN  /\ k # 0 /\ k \in Nat /\ k - 1 \in DataSectors
               /\ \A s \in Slots : job.rec.alloc[s] = k => s = SlotOf(job.pos)
               /\ disk'.sec[k - 1] = Patched(disk.sec[k - 1])
               /\ \A l : l # k - 1 => disk'.sec[l] = disk.sec[l]
               /\ disk'.dir = disk.dir /\ durable' = disk /\ handle' = handle
               /\ job' = Advanced(job.rec) /\ mounted' = mounted /\ ret' = ret
<1> DEFINE k == job.rec.alloc[SlotOf(job.pos)]
<1>1. /\ SeekAndWrite([disk EXCEPT !.sec[k - 1] = Patched(disk.sec[k - 1])])
      /\ job' = Advanced(job.rec) /\ ret' = ret /\ handle' = handle /\ mounted' = mounted
      /\ WriteMore /\ job.busy /\ SlotOf(job.pos) \in Slots /\ k # 0
  BY DEF WriteInPlace, WriteMore
<1>2. /\ JobEntry \in Entries /\ JobDir[JobEntry] = job.rec /\ job.rec.active
      /\ SectorsOwnedOnce(JobDir) /\ job.rec \in EntryType /\ disk \in ImageType
  BY <1>1, JobNow DEF TypeOK
<1>3. k - 1 \in DataSectors /\ \A s \in Slots : job.rec.alloc[s] = k => s = SlotOf(job.pos)
  BY <1>1, <1>2 DEF SectorsOwnedOnce
<1>4. k \in Nat
  BY <1>1, <1>2, FileSystemAssumption DEF EntryType, Allocs
<1>5. /\ disk'.sec[k - 1] = Patched(disk.sec[k - 1])
      /\ \A l : l # k - 1 => disk'.sec[l] = disk.sec[l]
      /\ disk'.dir = disk.dir /\ durable' = disk
  BY <1>1, <1>2, <1>3 DEF SeekAndWrite, Seek, ImageType
<1>6. QED
  BY <1>1, <1>3, <1>4, <1>5

\* The sector it takes, where the slot has none.
LEMMA AllocatingIs ==
    ASSUME InReach, StoreInv, WriteAllocating
    PROVE  \E l, rec :
               /\ l \in DataSectors /\ l \in Nat /\ ~SectorInUse(JobDir, l)
               /\ rec = [job.rec EXCEPT !.alloc[SlotOf(job.pos)] = l + 1]
               /\ rec.alloc[SlotOf(job.pos)] = l + 1 /\ rec.count = job.rec.count
               /\ \A s \in Slots : s # SlotOf(job.pos) => rec.alloc[s] = job.rec.alloc[s]
               /\ disk'.sec[l] = Patched(ZeroBlock)
               /\ \A x : x # l => disk'.sec[x] = disk.sec[x]
               /\ disk'.dir = disk.dir /\ durable' = disk /\ handle' = handle
               /\ job' = Advanced(rec) /\ mounted' = mounted /\ ret' = ret
<1> DEFINE s0 == SlotOf(job.pos)
<1>1. PICK l \in DataSectors :
        /\ IsLeast(l, FreeSectors(JobDir))
        /\ SeekAndWrite([disk EXCEPT !.sec[l] = Patched(ZeroBlock)])
        /\ job' = Advanced([job.rec EXCEPT !.alloc[s0] = AllocByte(l)])
  BY DEF WriteAllocating
<1>2. /\ WriteMore /\ job.busy /\ s0 \in Slots /\ handle' = handle /\ mounted' = mounted
      /\ ret' = ret
  BY DEF WriteAllocating, WriteMore
<1>3. job.rec \in EntryType /\ disk \in ImageType
  BY <1>2, JobNow DEF TypeOK
<1>4. AllocByte(l) = l + 1 /\ l \in Nat
  BY <1>1, <1>2, ByteInReach
<1>5. ~SectorInUse(JobDir, l)
  BY <1>1 DEF IsLeast, FreeSectors
<1> DEFINE rec == [job.rec EXCEPT !.alloc[s0] = l + 1]
<1>6. /\ rec.alloc[s0] = l + 1 /\ rec.count = job.rec.count
      /\ \A s \in Slots : s # s0 => rec.alloc[s] = job.rec.alloc[s]
  BY <1>2, <1>3 DEF EntryType
<1>7. job' = Advanced(rec)
  BY <1>1, <1>4
<1>8. /\ disk'.sec[l] = Patched(ZeroBlock)
      /\ \A x : x # l => disk'.sec[x] = disk.sec[x]
      /\ disk'.dir = disk.dir /\ durable' = disk
  BY <1>1, <1>3 DEF SeekAndWrite, Seek, ImageType
<1>9. rec = [job.rec EXCEPT !.alloc[SlotOf(job.pos)] = l + 1]
  OBVIOUS
<1> HIDE DEF rec
<1> DEFINE Takes(x, r) ==
             /\ x \in DataSectors /\ x \in Nat /\ ~SectorInUse(JobDir, x)
             /\ r = [job.rec EXCEPT !.alloc[SlotOf(job.pos)] = x + 1]
             /\ r.alloc[SlotOf(job.pos)] = x + 1 /\ r.count = job.rec.count
             /\ \A s \in Slots : s # SlotOf(job.pos) => r.alloc[s] = job.rec.alloc[s]
             /\ disk'.sec[x] = Patched(ZeroBlock)
             /\ \A y : y # x => disk'.sec[y] = disk.sec[y]
             /\ disk'.dir = disk.dir /\ durable' = disk /\ handle' = handle
             /\ job' = Advanced(r) /\ mounted' = mounted /\ ret' = ret
<1>10. Takes(l, rec)
  <2>1. /\ l \in DataSectors /\ l \in Nat /\ ~SectorInUse(JobDir, l)
        /\ rec = [job.rec EXCEPT !.alloc[SlotOf(job.pos)] = l + 1]
        /\ rec.alloc[SlotOf(job.pos)] = l + 1 /\ rec.count = job.rec.count
        /\ \A s \in Slots : s # SlotOf(job.pos) => rec.alloc[s] = job.rec.alloc[s]
    BY <1>4, <1>5, <1>6, <1>9
  <2>2. QED
    BY <1>2, <1>7, <1>8, <2>1
<1>11. \E x, r : Takes(x, r)
  <2> HIDE DEF Takes
  <2>1. QED
    BY <1>10
<1>12. QED
  BY <1>11

\* The bytes of the chunk are where it is.
LEMMA PatchedIs ==
    ASSUME StoreInv, WriteMore, NEW block, NEW i \in 0 .. SectorBytes - 1
    PROVE  Patched(block)[i] =
             IF /\ job.pos <= SlotOf(job.pos) * SectorBytes + i
                /\ SlotOf(job.pos) * SectorBytes + i < job.pos + Chunk
             THEN job.data ELSE block[i]
<1>1. /\ Chunk \in Nat /\ job.pos % SectorBytes \in Nat /\ SlotOf(job.pos) * SectorBytes \in Nat
      /\ job.pos = SlotOf(job.pos) * SectorBytes + (job.pos % SectorBytes)
  BY ChunkIs
<1>2. Patched(block)[i] = IF /\ job.pos % SectorBytes <= i
                             /\ i < (job.pos % SectorBytes) + Chunk
                          THEN job.data ELSE block[i]
  BY DEF Patched
<1>3. /\ job.pos % SectorBytes <= i <=> job.pos <= SlotOf(job.pos) * SectorBytes + i
      /\ i < (job.pos % SectorBytes) + Chunk
           <=> SlotOf(job.pos) * SectorBytes + i < job.pos + Chunk
  BY <1>1
<1>4. QED
  BY <1>2, <1>3

LEMMA InPlaceStored ==
    ASSUME StoreInv, SafeInv', HandlesLive', WriteInPlace
    PROVE  StoreInv'
<1> DEFINE s0 == SlotOf(job.pos)
           k == job.rec.alloc[s0]
<1>1. /\ WriteMore /\ job.busy /\ s0 \in Slots
  BY DEF WriteInPlace, WriteMore
<1>2. /\ k # 0 /\ k \in Nat
      /\ \A s \in Slots : job.rec.alloc[s] = k => s = s0
      /\ disk'.sec[k - 1] = Patched(disk.sec[k - 1])
      /\ \A l : l # k - 1 => disk'.sec[l] = disk.sec[l]
      /\ disk'.dir = disk.dir /\ durable' = disk /\ handle' = handle
      /\ job' = Advanced(job.rec)
  BY InPlaceIs
<1>3. \A s \in Slots : s # s0 /\ job.rec.alloc[s] # 0 =>
        disk'.sec[job.rec.alloc[s] - 1] = disk.sec[job.rec.alloc[s] - 1]
  <2>1. \A s \in Slots : job.rec.alloc[s] \in Nat
    BY <1>1, JobNow, FileSystemAssumption DEF EntryType, Allocs
  <2>2. QED
    BY <1>2, <2>1
<1>4. ASSUME ~(s0 < job.rec.count), NEW i \in 0 .. SectorBytes - 1
      PROVE  disk'.sec[k - 1][i] = IF s0 * SectorBytes + i < job.pos + Chunk THEN job.data ELSE 0
  <2>1. disk.sec[k - 1][i] = IF s0 * SectorBytes + i < job.pos THEN job.data ELSE 0
    BY <1>1, <1>2, <1>4, JobNow DEF StoreInv, JobExtends
  <2>2. Patched(disk.sec[k - 1])[i] =
             IF job.pos <= s0 * SectorBytes + i /\ s0 * SectorBytes + i < job.pos + Chunk
             THEN job.data ELSE disk.sec[k - 1][i]
    BY <1>1, PatchedIs
  <2>3. Chunk \in Nat /\ s0 * SectorBytes \in Nat /\ job.pos \in Nat
    BY <1>1, ChunkIs, JobNow
  <2> HIDE DEF k, s0
  <2>4. QED
    BY <1>2, <2>1, <2>2, <2>3
<1>5. JobExtends'
  BY <1>1, <1>2, <1>3, <1>4, SectorExtends
<1>6. PositionsIn' /\ Filled(disk'.dir) /\ Filled(durable'.dir)
  BY <1>2 DEF StoreInv, PositionsIn
<1>7. QED
  BY <1>5, <1>6 DEF StoreInv

LEMMA AllocatingStored ==
    ASSUME InReach, StoreInv, SafeInv', HandlesLive', WriteAllocating
    PROVE  StoreInv'
<1> DEFINE s0 == SlotOf(job.pos)
<1>1. /\ WriteMore /\ job.busy /\ s0 \in Slots /\ job.rec.alloc[s0] = 0
  BY DEF WriteAllocating, WriteMore
<1>2. PICK l, rec :
               /\ l \in DataSectors /\ l \in Nat /\ ~SectorInUse(JobDir, l)
               /\ rec = [job.rec EXCEPT !.alloc[s0] = l + 1]
               /\ rec.alloc[s0] = l + 1 /\ rec.count = job.rec.count
               /\ \A s \in Slots : s # s0 => rec.alloc[s] = job.rec.alloc[s]
               /\ disk'.sec[l] = Patched(ZeroBlock)
               /\ \A x : x # l => disk'.sec[x] = disk.sec[x]
               /\ disk'.dir = disk.dir /\ durable' = disk /\ handle' = handle
               /\ job' = Advanced(rec) /\ mounted' = mounted /\ ret' = ret
  BY AllocatingIs
<1>3. ASSUME NEW s \in Slots, job.rec.alloc[s] # 0 PROVE job.rec.alloc[s] - 1 # l
  BY <1>1, <1>2, <1>3, JobNow DEF SectorInUse
<1>4. \A s \in Slots : s # s0 =>
         /\ rec.alloc[s] = job.rec.alloc[s]
         /\ rec.alloc[s] # 0 => disk'.sec[rec.alloc[s] - 1] = disk.sec[rec.alloc[s] - 1]
  BY <1>2, <1>3
<1>5. ~(s0 < job.rec.count) /\ ~(s0 * SectorBytes < job.pos)
  <2>1. job.rec.count = disk.dir[JobEntry].count
    BY <1>1, JobNow
  <2>2. ~(s0 < disk.dir[JobEntry].count)
    BY <1>1, JobNow DEF StoreInv, JobExtends, Filled
  <2>3. QED
    BY <1>1, <2>1, <2>2 DEF StoreInv, JobExtends
<1>6. ASSUME NEW i \in 0 .. SectorBytes - 1
      PROVE  disk'.sec[l][i] = IF s0 * SectorBytes + i < job.pos + Chunk THEN job.data ELSE 0
  <2>1. ZeroBlock[i] = 0
    BY DEF ZeroBlock
  <2>2. Patched(ZeroBlock)[i] =
             IF job.pos <= s0 * SectorBytes + i /\ s0 * SectorBytes + i < job.pos + Chunk
             THEN job.data ELSE ZeroBlock[i]
    BY <1>1, PatchedIs
  <2>3. Chunk \in Nat /\ s0 * SectorBytes \in Nat /\ job.pos \in Nat
    BY <1>1, ChunkIs, JobNow
  <2> HIDE DEF s0
  <2>4. QED
    BY <1>2, <1>5, <2>1, <2>2, <2>3
<1>7. rec.alloc[s0] # 0 /\ rec.alloc[s0] - 1 = l
  BY <1>2
<1>8. JobExtends'
  <2>1. \A i \in 0 .. SectorBytes - 1 :
           disk'.sec[rec.alloc[s0] - 1][i] =
               IF s0 * SectorBytes + i < job.pos + Chunk THEN job.data ELSE 0
    BY <1>6, <1>7
  <2>2. ~(s0 < job.rec.count)
    BY <1>5
  <2>3. job' = Advanced(rec) /\ handle' = handle /\ disk'.dir = disk.dir /\ rec.count = job.rec.count
    BY <1>2
  <2>4. QED
    BY <1>1, <1>4, <1>7, <2>1, <2>2, <2>3, SectorExtends
<1>9. PositionsIn' /\ Filled(disk'.dir) /\ Filled(durable'.dir)
  BY <1>2 DEF StoreInv, PositionsIn
<1>10. QED
  BY <1>8, <1>9 DEF StoreInv

\* What the end of fs_write makes of the entry.
LEMMA WrittenIs ==
    ASSUME StoreInv, WriteEnd
    PROVE  LET old == disk.dir[JobEntry]
           IN  /\ job.busy /\ WrittenEntry \in EntryType
               /\ WrittenEntry.active /\ WrittenEntry.name = old.name
               /\ WrittenEntry.alloc = job.rec.alloc
               /\ WrittenEntry.count = (IF job.pos > SizeOf(old)
                                        THEN Store!BlocksOf(job.pos) ELSE old.count)
               /\ old.count <= WrittenEntry.count /\ WrittenEntry.count <= SlotsPerFile
               /\ job.pos <= SizeOf(WrittenEntry)
               /\ \A s \in Slots : WrittenEntry.alloc[s] # 0 <=> s < WrittenEntry.count
               /\ \A s \in Slots : s < old.count => WrittenEntry.alloc[s] = old.alloc[s]
               /\ disk'.dir = [disk.dir EXCEPT ![JobEntry] = WrittenEntry]
               /\ disk'.sec = disk.sec /\ durable' = disk
<1> DEFINE old == disk.dir[JobEntry]
           c == WrittenEntry.count
           b == Store!BlocksOf(job.pos)
<1>1. job.busy
  BY DEF WriteEnd, WriteDone
<1>2. /\ TypeOK /\ JobEntry \in Entries /\ job.rec \in EntryType /\ job.pos \in Nat
      /\ old.active /\ job.rec.active /\ job.rec.name = old.name
      /\ job.rec.count = old.count /\ old.count \in Nat
  BY <1>1, JobNow
<1>3. /\ job.pos <= SlotsPerFile * SectorBytes
      /\ \A s \in Slots : s < old.count => job.rec.alloc[s] = old.alloc[s]
      /\ \A s \in Slots : ~(s < old.count) =>
            (job.rec.alloc[s] # 0 <=> s * SectorBytes < job.pos)
  BY <1>1 DEF StoreInv, JobExtends
<1>4. /\ old.count <= SlotsPerFile
      /\ \A s \in Slots : old.alloc[s] # 0 <=> s < old.count
  BY <1>2 DEF StoreInv, Filled
<1>5. /\ SizeOf(old) \in Nat /\ SizeOf(old) = old.count * SectorBytes
      /\ SizeOf(job.rec) = SizeOf(old) /\ SlotsPerFile \in Nat
  BY <1>2, SizeType, FileSystemAssumption DEF TypeOK, SizeOf
<1>6. b \in Nat /\ \A s \in Nat : s < b <=> s * SectorBytes < job.pos
  BY <1>2, BlocksReach
<1>7. b = (job.pos + (SectorBytes - 1)) \div SectorBytes
  BY <1>2, SectorSize DEF Store!BlocksOf
<1>8. /\ WrittenEntry \in EntryType /\ WrittenEntry.active /\ WrittenEntry.name = old.name
      /\ WrittenEntry.alloc = job.rec.alloc
      /\ c = IF job.pos > SizeOf(old) THEN b ELSE old.count
  <2>1. WrittenEntry = [job.rec EXCEPT !.count = IF job.pos > SizeOf(job.rec) THEN b ELSE @]
    BY <1>7 DEF WrittenEntry
  <2> HIDE DEF b, old
  <2>2. QED
    BY <1>2, <1>5, <1>6, <2>1 DEF EntryType
<1>9. /\ disk'.dir = [disk.dir EXCEPT ![JobEntry] = WrittenEntry]
      /\ disk'.sec = disk.sec /\ durable' = disk
  BY <1>2 DEF WriteEnd, SeekAndWrite, Seek, TypeOK, ImageType
<1>10. \A s \in Slots : s \in Nat
  BY DEF Slots
<1> HIDE DEF b, c, old
<1>11. CASE ~(job.pos > SizeOf(old))
  <2>1. c = old.count
    BY <1>8, <1>11
  <2>2. ASSUME NEW s \in Slots, ~(s < old.count) PROVE ~(s * SectorBytes < job.pos)
    <3>1. s * SectorBytes \in Nat /\ ~(s * SectorBytes < old.count * SectorBytes)
      BY <1>2, <1>10, <2>2, SlotStart, SlotBefore
    <3>2. QED
      BY <1>2, <1>5, <1>11, <3>1
  <2>3. \A s \in Slots : job.rec.alloc[s] # 0 <=> s < c
    BY <1>3, <1>4, <2>1, <2>2
  <2>4. SizeOf(WrittenEntry) = SizeOf(old)
    BY <2>1 DEF SizeOf, c, old
  <2>5. QED
    BY <1>1, <1>2, <1>3, <1>4, <1>5, <1>8, <1>9, <1>11, <2>1, <2>3, <2>4 DEF c, b, old
<1>12. CASE job.pos > SizeOf(old)
  <2>1. c = b
    BY <1>8, <1>12
  <2>2. old.count <= b
    <3>1. CASE old.count = 0
      BY <1>6, <3>1
    <3>2. CASE old.count > 0
      <4>1. old.count - 1 \in Nat /\ old.count - 1 < old.count
        BY <1>2, <3>2
      <4>2. (old.count - 1) * SectorBytes \in Nat
        BY <4>1, SlotStart
      <4>3. (old.count - 1) * SectorBytes <= old.count * SectorBytes
        BY <1>2, <4>1, MultiplesUpTo
      <4>4. (old.count - 1) * SectorBytes < job.pos
        BY <1>2, <1>5, <1>12, <4>2, <4>3
      <4>5. old.count - 1 < b
        BY <1>6, <4>1, <4>4
      <4>6. QED
        BY <1>2, <1>6, <4>5
    <3>3. QED
      BY <1>2, <3>1, <3>2
  <2>3. b <= SlotsPerFile
    <3>1. SlotsPerFile * SectorBytes \in Nat
      BY <1>5, SlotStart
    <3>2. ~(SlotsPerFile < b)
      BY <1>2, <1>3, <1>5, <1>6, <3>1
    <3>3. QED
      BY <1>5, <1>6, <3>2
  <2>4. \A s \in Slots : job.rec.alloc[s] # 0 <=> s < b
    <3>1. ASSUME NEW s \in Slots, s < old.count PROVE job.rec.alloc[s] # 0 /\ s < b
      BY <1>2, <1>3, <1>4, <1>6, <1>10, <2>2, <3>1
    <3>2. ASSUME NEW s \in Slots, ~(s < old.count) PROVE job.rec.alloc[s] # 0 <=> s < b
      BY <1>3, <1>6, <1>10, <3>2
    <3>3. QED
      BY <3>1, <3>2
  <2>5. job.pos <= SizeOf(WrittenEntry)
    <3>1. SizeOf(WrittenEntry) = b * SectorBytes
      BY <2>1 DEF SizeOf, c
    <3>2. job.pos <= b * SectorBytes
      BY <1>2, <1>7, RoundedUp
    <3>3. QED
      BY <3>1, <3>2
  <2>6. QED
    BY <1>1, <1>2, <1>3, <1>4, <1>5, <1>8, <1>9, <1>12, <2>1, <2>2, <2>3, <2>4, <2>5 DEF c, b, old
<1>13. QED
  BY <1>11, <1>12

LEMMA WriteEndStored ==
    ASSUME StoreInv, SafeInv', HandlesLive', WriteEnd
    PROVE  StoreInv'
<1> DEFINE old == disk.dir[JobEntry]
<1>1. /\ job.busy
      /\ old.count <= WrittenEntry.count /\ WrittenEntry.count <= SlotsPerFile
      /\ job.pos <= SizeOf(WrittenEntry) /\ WrittenEntry \in EntryType
      /\ \A s \in Slots : WrittenEntry.alloc[s] # 0 <=> s < WrittenEntry.count
      /\ disk'.dir = [disk.dir EXCEPT ![JobEntry] = WrittenEntry]
      /\ durable' = disk
  BY WrittenIs
<1>2. /\ TypeOK /\ JobEntry \in Entries /\ job.fh \in Handles /\ job.pos \in Nat
      /\ old.count \in Nat
  BY <1>1, JobNow
<1>3. disk.dir \in Directories /\ disk \in ImageType
  BY StoreImages DEF Sound
<1>4. Filled(disk'.dir)
  BY <1>1, <1>2, <1>3, EntryFilled DEF StoreInv
<1>5. /\ handle' = [handle EXCEPT ![job.fh].pos = job.pos] /\ ~job'.busy
  BY DEF WriteEnd, NoJob
<1>6. /\ disk'.dir[JobEntry] = WrittenEntry
      /\ \A e \in Entries : e # JobEntry => disk'.dir[e] = disk.dir[e]
  BY <1>1, <1>2, <1>3 DEF Directories
<1>7. ASSUME NEW h \in Handles, handle'[h].used
      PROVE  handle'[h].pos <= SizeOf(disk'.dir[handle'[h].entry])
  <2>1. CASE h = job.fh
    <3>1. handle'[h].pos = job.pos /\ handle'[h].entry = JobEntry
      BY <1>2, <1>5, <2>1 DEF TypeOK, HandleType, JobEntry
    <3>2. QED
      BY <1>1, <1>6, <3>1
  <2>2. CASE h # job.fh
    <3>1. handle'[h] = handle[h] /\ handle[h].entry \in Entries /\ handle[h].pos \in Nat
      BY <1>2, <1>5, <2>2 DEF TypeOK, HandleType
    <3>2. handle[h].pos <= SizeOf(disk.dir[handle[h].entry])
      BY <1>7, <3>1 DEF StoreInv, PositionsIn
    <3>3. CASE handle[h].entry # JobEntry
      BY <1>6, <3>1, <3>2, <3>3
    <3>4. CASE handle[h].entry = JobEntry
      <4>1. WrittenEntry.count \in Nat
        BY <1>1 DEF EntryType
      <4>2. SizeOf(old) <= SizeOf(WrittenEntry)
        BY <1>1, <1>2, <4>1, MultiplesUpTo DEF SizeOf
      <4>3. SizeOf(old) \in Nat /\ SizeOf(WrittenEntry) \in Nat
        BY <1>2, <4>1, SectorSize DEF SizeOf
      <4>4. QED
        BY <1>6, <3>1, <3>2, <3>4, <4>2, <4>3
    <3>5. QED
      BY <3>3, <3>4
  <2>3. QED
    BY <2>1, <2>2
<1>8. PositionsIn'
  BY <1>7 DEF PositionsIn
<1>9. QED
  BY <1>1, <1>4, <1>5, <1>8, NoJobLeft DEF StoreInv

\* A sector written by its address is in no entry.
LEMMA SectorStored ==
    ASSUME IOErrors = FALSE, StoreInv, SafeInv', HandlesLive', NEW track, NEW sector, NEW byte,
           WriteSector(track, sector, byte)
    PROVE  StoreInv'
<1>1. CASE Refused(-1) \/ Fails(-1)
  BY <1>1, PlainStored
<1>2. ASSUME NEW l, NEW block, SeekAndWrite([disk EXCEPT !.sec[l] = block]),
             UNCHANGED <<mounted, handle, job>>
      PROVE  StoreInv'
  <2>1. disk'.dir = disk.dir /\ durable' = disk /\ handle' = handle /\ ~job'.busy
    BY <1>2 DEF SeekAndWrite, Seek, WriteSector, Idle
  <2>2. PositionsIn'
    BY <2>1 DEF StoreInv, PositionsIn
  <2>3. QED
    BY <2>1, <2>2, NoJobLeft DEF StoreInv
<1>3. QED
  BY <1>1, <1>2 DEF WriteSector

\* Steps after which no handle is open, and no write is running.
LEMMA AfreshStored ==
    ASSUME StoreInv, SafeInv', HandlesLive', disk' = durable', durable' \in {disk, durable},
           handle' = [h \in Handles |-> ClosedHandle], ~job'.busy
    PROVE  StoreInv'
<1>1. PositionsIn'
  BY DEF PositionsIn, ClosedHandle
<1>2. QED
  BY <1>1, NoJobLeft DEF StoreInv

LEMMA StoreStep ==
    ASSUME IOErrors = FALSE, InReach, StoreInv, [Operation]_vars
    PROVE  StoreInv'
<1>0. SafeInv' /\ HandlesLive'
  BY SafeStep, LiveStep DEF StoreInv
<1>1. ASSUME NEW sp, Open(sp) \/ Create(sp) \/ Delete(sp) \/ Exists(sp)
      PROVE  StoreInv'
  <2>1. CASE Exists(sp)
    BY <1>0, <2>1, PlainStored DEF Exists, NameCallFails
  <2>2. QED
    BY <1>0, <1>1, <2>1, OpenStored, CreateStored, DeleteStored
<1>2. CASE List \/ FsInitRefused
  BY <1>0, <1>2, PlainStored DEF List, FsInitRefused
<1>3. ASSUME NEW fh, Close(fh) PROVE StoreInv'
  BY <1>0, <1>3, CloseStored
<1>4. ASSUME NEW fh, NEW len \in Nat, Read(fh, len) \/ WriteRefused(fh, len)
      PROVE  StoreInv'
  <2>1. CASE WriteRefused(fh, len)
    BY <1>0, <2>1, PlainStored DEF WriteRefused
  <2>2. QED
    BY <1>0, <1>4, <2>1, ReadStored
<1>5. ASSUME NEW fh, NEW len \in Nat, NEW byte, WriteBegin(fh, len, byte) PROVE StoreInv'
  BY <1>0, <1>5, BeginStored
<1>6. CASE WriteInPlace \/ WriteAllocating \/ WriteEnd
  BY <1>0, <1>6, InPlaceStored, AllocatingStored, WriteEndStored
<1>7. CASE WriteSectorFails \/ WriteEndFails
  BY <1>7 DEF WriteSectorFails, WriteEndFails, HostFails
<1>8. ASSUME NEW track, NEW sector, ReadSector(track, sector) PROVE StoreInv'
  BY <1>0, <1>8, PlainStored DEF ReadSector
<1>9. ASSUME NEW track, NEW sector, NEW byte, WriteSector(track, sector, byte) PROVE StoreInv'
  BY <1>0, <1>9, SectorStored
<1>10. CASE Flush
  <2>1. CASE Refused(0) \/ Fails(0)
    BY <1>0, <2>1, PlainStored
  <2>2. CASE Seek /\ UNCHANGED <<disk, mounted, handle, job>>
    BY <1>0, <2>2, NothingMoved DEF Seek
  <2>3. QED
    BY <1>10, <2>1, <2>2 DEF Flush
<1>11. CASE FsInit \/ Crash \/ Exit
  BY <1>0, <1>11, AfreshStored DEF FsInit, Crash, Exit, Restarted, NoJob, Idle
<1>12. CASE UNCHANGED vars
  BY <1>0, <1>12, NothingMoved DEF vars
<1>13. QED
  BY <1>1, <1>2, <1>3, <1>4, <1>5, <1>6, <1>7, <1>8, <1>9, <1>10, <1>11, <1>12 DEF Operation

LEMMA StoreStart == Init => StoreInv
<1> SUFFICES ASSUME Init PROVE StoreInv
  OBVIOUS
<1>1. SafeInv
  BY SafeInit
<1>2. HandlesLive /\ PositionsIn /\ JobExtends
  BY DEF Init, HandlesLive, PositionsIn, JobExtends, ClosedHandle, NoJob
<1>3. Filled(FormattedImage.dir)
  BY DEF Filled, FormattedImage, FreeEntry
<1>4. QED
  BY <1>1, <1>2, <1>3 DEF Init, StoreInv

-----------------------------------------------------------------------------
(* The calls that do not write are calls of the store.                     *)

LEMMA StoreImagesNext ==
    ASSUME StoreInv'
    PROVE  TypeOK' /\ Sound(disk') /\ Sound(durable')
BY DEF StoreInv, SafeInv, AllocSafe, NamesUnique, TypeOK, Sound

LEMMA QuietIs ==
    ASSUME Idle, mounted' = mounted, job' = job
    PROVE  Store!Quiet
BY DEF Idle, Store!Quiet, JobWriting

\* The handles of the store.
LEMMA OpenIs ==
    /\ DOMAIN OpenFiles = {h \in Handles : handle[h].used}
    /\ Handles \ DOMAIN OpenFiles = FreeHandles
    /\ DOMAIN OpenFiles = Handles <=> FreeHandles = {}
    /\ \A h \in Handles : handle[h].used =>
         OpenFiles[h] = [name |-> disk.dir[handle[h].entry].name, pos |-> handle[h].pos]
BY DEF OpenFiles, FreeHandles

LEMMA SameOpen ==
    ASSUME handle' = handle, disk'.dir = disk.dir
    PROVE  OpenFiles' = OpenFiles
BY DEF OpenFiles

LEMMA NoneOpen ==
    ASSUME handle' = [h \in Handles |-> ClosedHandle]
    PROVE  OpenFiles' = <<>>
<1>1. {x \in Handles : handle'[x].used} = {}
  BY DEF ClosedHandle
<1>2. QED
  BY <1>1 DEF OpenFiles

LEMMA FreeHandleIs ==
    ASSUME NEW h, IsLeast(h, FreeHandles)
    PROVE  Store!FreeHandle = h /\ DOMAIN OpenFiles # Handles /\ h \in Handles
<1>1. h \in FreeHandles /\ \A y \in FreeHandles : h <= y
  BY DEF IsLeast
<1>2. FreeHandles \subseteq Handles /\ \A y \in Handles : y \in Int
  BY DEF FreeHandles, Handles
<1>3. ASSUME NEW x \in FreeHandles, \A y \in FreeHandles : x <= y PROVE x = h
  BY <1>1, <1>2, <1>3
<1>4. (CHOOSE x \in FreeHandles : \A y \in FreeHandles : x <= y) = h
  BY <1>1, <1>3
<1>5. QED
  BY <1>1, <1>2, <1>4, OpenIs DEF Store!FreeHandle, Store!Least

LEMMA HandleAdded ==
    ASSUME TypeOK, NEW h \in Handles, NEW e \in Entries,
           handle' = [handle EXCEPT ![h] = OpenedHandle(e)],
           \A x \in Handles : handle[x].used =>
              disk'.dir[handle[x].entry].name = disk.dir[handle[x].entry].name
    PROVE  OpenFiles' = Store!With(OpenFiles, h, [name |-> disk'.dir[e].name, pos |-> 0])
<1>1. /\ handle'[h].used /\ handle'[h].entry = e /\ handle'[h].pos = 0
      /\ \A x \in Handles : x # h => handle'[x] = handle[x]
  BY DEF TypeOK, OpenedHandle
<1>2. {x \in Handles : handle'[x].used} = {x \in Handles : handle[x].used} \cup {h}
  BY <1>1
<1>3. QED
  BY <1>1, <1>2 DEF OpenFiles, Store!With

LEMMA HandleMoved ==
    ASSUME TypeOK, NEW fh \in Handles, handle[fh].used, NEW p,
           handle' = [handle EXCEPT ![fh].pos = p],
           \A x \in Handles : handle[x].used =>
              disk'.dir[handle[x].entry].name = disk.dir[handle[x].entry].name
    PROVE  OpenFiles' = [OpenFiles EXCEPT ![fh].pos = p]
<1>1. /\ handle'[fh] = [handle[fh] EXCEPT !.pos = p] /\ handle[fh] \in HandleType
      /\ \A h \in Handles : h # fh => handle'[h] = handle[h]
  BY DEF TypeOK
<1>2. handle'[fh].used /\ handle'[fh].entry = handle[fh].entry /\ handle'[fh].pos = p
  BY <1>1 DEF HandleType
<1>3. {h \in Handles : handle'[h].used} = {h \in Handles : handle[h].used}
  BY <1>1, <1>2
<1>4. ASSUME NEW h \in Handles, handle[h].used
      PROVE  OpenFiles'[h] = IF h = fh THEN [OpenFiles[h] EXCEPT !.pos = p] ELSE OpenFiles[h]
  <2>1. OpenFiles'[h] = [name |-> disk'.dir[handle'[h].entry].name, pos |-> handle'[h].pos]
    BY <1>3, <1>4 DEF OpenFiles
  <2>2. OpenFiles[h] = [name |-> disk.dir[handle[h].entry].name, pos |-> handle[h].pos]
    BY <1>4, OpenIs
  <2>3. QED
    BY <1>1, <1>2, <1>4, <2>1, <2>2
<1>5. OpenFiles' = [h \in DOMAIN OpenFiles |-> OpenFiles'[h]]
  BY <1>3 DEF OpenFiles
<1>6. OpenFiles = [h \in DOMAIN OpenFiles |-> OpenFiles[h]]
  BY DEF OpenFiles
<1>7. \A h \in DOMAIN OpenFiles : h \in Handles /\ handle[h].used
  BY OpenIs
<1>8. QED
  BY <1>4, <1>5, <1>6, <1>7, OpenIs

\* A call that changes neither files nor handles.
LEMMA Elsewhere ==
    ASSUME Idle, NEW rc \in {0, -1}, disk' = disk, durable' \in {durable, disk},
           handle' = handle, job' = job, mounted' = mounted, ret'.rc = rc
    PROVE  Store!Next
<1>1. Store!Quiet /\ OpenFiles' = OpenFiles
  BY QuietIs, SameOpen
<1>2. Store!Elsewhere(rc)
  BY <1>1 DEF Store!Elsewhere
<1>3. QED
  BY <1>2 DEF Store!Next

LEMMA PlainIs ==
    ASSUME IOErrors = FALSE, Idle, NEW rc \in {0, -1}, Refused(rc) \/ Fails(rc) \/ Answers(rc)
    PROVE  Store!Next
BY Elsewhere DEF Refused, Fails, Answers, HostFails, SeekAndRead, Seek, Returns, Result

\* The store counts as the file system does.
LEMMA SameCount ==
    ASSUME NEW S
    PROVE  Store!Cardinality(S) = Cardinality(S)
BY DEF Store!Cardinality, Cardinality

\* The name a spelling stands for.
LEMMA NameOf ==
    ASSUME NEW sp \in Spellings, Named(sp)
    PROVE  CpmName[sp] \in Names /\ mounted
BY FileSystemAssumption DEF Named

LEMMA OpenInStore ==
    ASSUME IOErrors = FALSE, StoreInv, NEW sp \in Spellings, Open(sp)
    PROVE  Store!Next
<1> DEFINE n == CpmName[sp]
<1>1. CASE NameCallFails(sp, -1) \/ Answers(-1)
  BY <1>1, PlainIs DEF NameCallFails, Open
<1>2. ASSUME Named(sp), NEW e \in Entries, NEW h \in Handles,
             Found(Refreshed, n, e), IsLeast(h, FreeHandles),
             handle' = [handle EXCEPT ![h] = OpenedHandle(e)], Returns(h),
             SeekAndRead, mounted' = mounted, job' = job
      PROVE  Store!Next
  <2>1. n \in Names /\ mounted
    BY <1>2, NameOf
  <2>2. disk.dir[e].active /\ disk.dir[e].name = n
    BY <1>2 DEF Found, IsLeast, Refreshed
  <2>3. n \in DOMAIN Stored(disk)
    BY <2>2, FileOf, StoreImages DEF Sound
  <2>4. Store!FreeHandle = h /\ DOMAIN OpenFiles # Handles
    BY <1>2, FreeHandleIs
  <2>5. disk' = disk /\ durable' = disk /\ ret'.rc = h /\ Store!Quiet
    BY <1>2, QuietIs DEF SeekAndRead, Seek, Returns, Result, Open
  <2>6. OpenFiles' = Store!With(OpenFiles, h, [name |-> n, pos |-> 0])
    BY <1>2, <2>2, <2>5, HandleAdded, StoreImages
  <2> HIDE DEF n
  <2>7. Store!Open(n)
    BY <2>1, <2>3, <2>4, <2>5, <2>6 DEF Store!Open, Store!Lasts
  <2>8. QED
    BY <2>1, <2>7 DEF Store!Next
<1>3. QED
  BY <1>1, <1>2 DEF Open

\* An entry that is not in use leaves room for one more file.
LEMMA RoomForFile ==
    ASSUME NEW image, Sound(image), NEW e \in Entries, ~image.dir[e].active
    PROVE  Cardinality(DOMAIN Stored(image)) < NumEntries
<1>1. IsFiniteSet(Entries) /\ Cardinality(Entries) = NumEntries /\ NumEntries \in Nat
  <2>1. 0 \in Int /\ NumEntries - 1 \in Int /\ NumEntries \in Nat /\ NumEntries > 0
    BY FileSystemAssumption
  <2>2. IsFiniteSet(0 .. NumEntries - 1) /\ Cardinality(0 .. NumEntries - 1) = NumEntries
    BY <2>1, FS_Interval
  <2>3. QED
    BY <2>1, <2>2 DEF Entries
<1>2. Active(image) \in SUBSET Entries /\ Active(image) # Entries
  BY DEF Active
<1>3. Cardinality(Active(image)) < Cardinality(Entries)
  <2>1. /\ Cardinality(Active(image)) <= Cardinality(Entries)
        /\ Cardinality(Entries) = Cardinality(Active(image)) => Entries = Active(image)
    BY <1>1, <1>2, FS_Subset
  <2>2. Cardinality(Active(image)) \in Nat
    BY HowMany
  <2>3. QED
    BY <1>1, <1>2, <2>1, <2>2
<1>4. QED
  BY <1>1, <1>3, HowMany

LEMMA CreateInStore ==
    ASSUME IOErrors = FALSE, StoreInv, StoreInv', NEW sp \in Spellings, Create(sp)
    PROVE  Store!Next
<1> DEFINE n == CpmName[sp]
<1>1. CASE NameCallFails(sp, -1) \/ Answers(-1)
  BY <1>1, PlainIs DEF NameCallFails, Create
<1>2. ASSUME Named(sp), NEW e \in Entries,
             ~NameFound(Refreshed, n), IsLeast(e, FreeEntries(Refreshed)),
             SeekAndWrite([disk EXCEPT !.dir[e] = NewEntry(n)]),
             \/ FreeHandles = {} /\ Returns(-1) /\ handle' = handle
             \/ \E h \in Handles :
                    /\ IsLeast(h, FreeHandles)
                    /\ handle' = [handle EXCEPT ![h] = OpenedHandle(e)]
                    /\ Returns(h),
             mounted' = mounted, job' = job
      PROVE  Store!Next
  <2>1. n \in Names /\ mounted
    BY <1>2, NameOf
  <2>2. ~disk.dir[e].active /\ ~NameFound(disk.dir, n)
    BY <1>2 DEF IsLeast, FreeEntries, Refreshed
  <2>3. n \notin DOMAIN Stored(disk)
    <3>1. DOMAIN Stored(disk) = {disk.dir[x].name : x \in {y \in Entries : disk.dir[y].active}}
      BY FileNames
    <3>2. QED
      BY <2>2, <3>1 DEF NameFound
  <2>4. Cardinality(DOMAIN Stored(disk)) < NumEntries
    BY <2>2, RoomForFile, StoreImages
  <2>5. /\ disk'.dir[e] = NewEntry(n) /\ \A x \in Entries : x # e => disk'.dir[x] = disk.dir[x]
        /\ disk'.sec = disk.sec /\ durable' = disk /\ Store!Quiet
    BY <1>2, QuietIs, StoreImages DEF SeekAndWrite, Seek, Create, TypeOK, ImageType
  <2>6. TypeOK /\ Sound(disk) /\ Sound(disk')
    BY StoreImages, StoreImagesNext
  <2>7. Stored(disk') = Store!With(Stored(disk), n, <<>>)
    <3>1. ASSUME NEW x \in Entries, disk.dir[x].active
          PROVE  Content(disk', x) = Content(disk, x)
      BY <2>2, <2>5, <2>6, <3>1, ContentSame
    <3> HIDE DEF n
    <3>2. QED
      BY <2>2, <2>5, <2>6, <3>1, FileAdded
  <2>8. /\ disk'.dir[e].name = n
        /\ \A x \in Handles : handle[x].used =>
              disk'.dir[handle[x].entry].name = disk.dir[handle[x].entry].name
    BY <2>2, <2>5, <2>6 DEF NewEntry, StoreInv, HandlesLive, TypeOK, HandleType
  <2>9. IF DOMAIN OpenFiles = Handles
        THEN ret'.rc = -1 /\ OpenFiles' = OpenFiles
        ELSE /\ ret'.rc = Store!FreeHandle
             /\ OpenFiles' = Store!With(OpenFiles, Store!FreeHandle, [name |-> n, pos |-> 0])
    <3>1. CASE FreeHandles = {} /\ Returns(-1) /\ handle' = handle
      <4>1. OpenFiles' = OpenFiles
        BY <2>8, <3>1 DEF OpenFiles
      <4>2. QED
        BY <3>1, <4>1, OpenIs DEF Returns, Result
    <3>2. ASSUME NEW h \in Handles, IsLeast(h, FreeHandles), Returns(h),
                 handle' = [handle EXCEPT ![h] = OpenedHandle(e)]
          PROVE  IF DOMAIN OpenFiles = Handles
                 THEN ret'.rc = -1 /\ OpenFiles' = OpenFiles
                 ELSE /\ ret'.rc = Store!FreeHandle
                      /\ OpenFiles' = Store!With(OpenFiles, Store!FreeHandle,
                                                 [name |-> n, pos |-> 0])
      <4>1. Store!FreeHandle = h /\ DOMAIN OpenFiles # Handles
        BY <3>2, FreeHandleIs
      <4>2. OpenFiles' = Store!With(OpenFiles, h, [name |-> n, pos |-> 0])
        BY <2>6, <2>8, <3>2, HandleAdded
      <4>3. ret'.rc = h
        BY <3>2 DEF Returns, Result
      <4>4. QED
        BY <4>1, <4>2, <4>3
    <3>3. QED
      BY <1>2, <3>1, <3>2
  <2> HIDE DEF n
  <2>10. Store!Create(n)
    BY <2>1, <2>3, <2>4, <2>5, <2>7, <2>9, SameCount DEF Store!Create, Store!Lasts
  <2>11. QED
    BY <2>1, <2>10 DEF Store!Next
<1>3. QED
  BY <1>1, <1>2 DEF Create

LEMMA DeleteInStore ==
    ASSUME IOErrors = FALSE, StoreInv, StoreInv', NEW sp \in Spellings, Delete(sp)
    PROVE  Store!Next
<1> DEFINE n == CpmName[sp]
<1>1. CASE NameCallFails(sp, -1) \/ Answers(-1)
  BY <1>1, PlainIs DEF NameCallFails, Delete
<1>2. ASSUME Named(sp), NEW e \in Entries, Found(Refreshed, n, e),
             SeekAndWrite([disk EXCEPT !.dir[e] = FreeEntry]),
             handle' = HandlesWithout(e), Returns(0), mounted' = mounted, job' = job
      PROVE  Store!Next
  <2>1. n \in Names /\ mounted
    BY <1>2, NameOf
  <2>2. disk.dir[e].active /\ disk.dir[e].name = n
    BY <1>2 DEF Found, IsLeast, Refreshed
  <2>3. TypeOK /\ Sound(disk) /\ Sound(disk')
    BY StoreImages, StoreImagesNext
  <2>4. n \in DOMAIN Stored(disk)
    BY <2>2, <2>3, FileOf DEF Sound
  <2>5. /\ disk'.dir[e] = FreeEntry /\ \A x \in Entries : x # e => disk'.dir[x] = disk.dir[x]
        /\ disk'.sec = disk.sec /\ durable' = disk /\ Store!Quiet /\ ret'.rc = 0
    BY <1>2, <2>3, QuietIs
       DEF SeekAndWrite, Seek, Delete, TypeOK, ImageType, Returns, Result
  <2>6. ~FreeEntry.active
    BY DEF FreeEntry
  <2>7. Stored(disk') = Store!Restrict(Stored(disk), DOMAIN Stored(disk) \ {n})
    <3>1. ASSUME NEW x \in Entries, disk.dir[x].active, x # e
          PROVE  Content(disk', x) = Content(disk, x)
      BY <2>2, <2>5, <2>3, <3>1, ContentSame
    <3> HIDE DEF n
    <3>2. QED
      BY <2>2, <2>5, <2>3, <2>6, <3>1, FileRemoved
  <2>8. OpenFiles' = Store!Restrict(OpenFiles, {h \in DOMAIN OpenFiles : OpenFiles[h].name # n})
    <3>1. ASSUME NEW h \in Handles, handle[h].used
          PROVE  /\ handle[h].entry \in Entries
                 /\ OpenFiles[h].name # n <=> handle[h].entry # e
      <4>1. handle[h].entry \in Entries /\ disk.dir[handle[h].entry].active
        BY <2>3, <3>1 DEF StoreInv, HandlesLive, TypeOK, HandleType
      <4>2. OpenFiles[h] = [name |-> disk.dir[handle[h].entry].name, pos |-> handle[h].pos]
        BY <3>1, OpenIs
      <4>3. OpenFiles[h].name = disk.dir[handle[h].entry].name
        BY <4>2
      <4>4. QED
        BY <2>2, <2>3, <4>1, <4>3 DEF Sound, OneEntryPerName
    <3>2. \A h \in Handles : handle'[h] = IF handle[h].used /\ handle[h].entry = e
                                          THEN ClosedHandle ELSE handle[h]
      BY <1>2 DEF HandlesWithout
    <3> DEFINE kept == {h \in DOMAIN OpenFiles : OpenFiles[h].name # n}
    <3>3. \A h \in Handles : h \in kept <=> handle[h].used /\ handle[h].entry # e
      BY <3>1, OpenIs
    <3>4. \A h \in kept : h \in Handles
      BY OpenIs
    <3>5. DOMAIN OpenFiles' = {h \in Handles : handle'[h].used}
      BY DEF OpenFiles
    <3> HIDE DEF kept
    <3>6. DOMAIN OpenFiles' = kept
      BY <3>2, <3>3, <3>4, <3>5 DEF ClosedHandle
    <3>7. ASSUME NEW h \in kept PROVE OpenFiles'[h] = OpenFiles[h]
      <4>1. h \in Handles /\ handle[h].used /\ handle[h].entry # e /\ handle'[h] = handle[h]
        BY <3>2, <3>3, <3>4
      <4>2. disk'.dir[handle[h].entry] = disk.dir[handle[h].entry]
        BY <2>5, <3>1, <4>1
      <4>3. OpenFiles[h] = [name |-> disk.dir[handle[h].entry].name, pos |-> handle[h].pos]
        BY <4>1, OpenIs
      <4>4. OpenFiles'[h] = [name |-> disk'.dir[handle'[h].entry].name, pos |-> handle'[h].pos]
        BY <4>1 DEF OpenFiles
      <4>5. QED
        BY <4>1, <4>2, <4>3, <4>4
    <3>8. OpenFiles' = [h \in DOMAIN OpenFiles' |-> OpenFiles'[h]]
      BY DEF OpenFiles
    <3>9. OpenFiles' = Store!Restrict(OpenFiles, kept)
      BY <3>6, <3>7, <3>8 DEF Store!Restrict
    <3>10. QED
      BY <3>9 DEF kept
  <2> HIDE DEF n
  <2>9. Store!Delete(n)
    BY <2>1, <2>4, <2>5, <2>7, <2>8 DEF Store!Delete, Store!Lasts
  <2>10. QED
    BY <2>1, <2>9 DEF Store!Next
<1>3. QED
  BY <1>1, <1>2 DEF Delete

LEMMA ExistsInStore ==
    ASSUME IOErrors = FALSE, StoreInv, NEW sp \in Spellings, Exists(sp)
    PROVE  Store!Next
<1>1. CASE NameCallFails(sp, 0) \/ Answers(0)
  BY <1>1, PlainIs DEF NameCallFails, Exists
<1>2. CASE Named(sp) /\ NameFound(Refreshed, CpmName[sp]) /\ Answers(1)
  <2>1. PICK e \in Entries : disk.dir[e].active
    BY <1>2 DEF NameFound, Refreshed
  <2>2. DOMAIN Stored(disk) # {}
    BY <2>1, FileOf, StoreImages DEF Sound
  <2>3. Stored(disk) # <<>>
    BY <2>2
  <2>4. mounted /\ Store!Quiet /\ disk' = disk /\ durable' = disk /\ ret'.rc = 1
        /\ OpenFiles' = OpenFiles
    BY <1>2, QuietIs, SameOpen
       DEF Exists, Named, Answers, SeekAndRead, Seek, Returns, Result
  <2>5. Store!Exists
    BY <2>3, <2>4 DEF Store!Exists, Store!Lasts
  <2>6. QED
    BY <2>5 DEF Store!Next
<1>3. QED
  BY <1>1, <1>2 DEF Exists

LEMMA ListInStore ==
    ASSUME IOErrors = FALSE, StoreInv, List
    PROVE  Store!Next
<1> DEFINE count == Cardinality({e \in Entries : Refreshed[e].active})
<1>1. CASE Refused(-1) \/ Fails(-1)
  BY <1>1, PlainIs DEF List
<1>2. CASE mounted /\ Answers(count)
  <2>1. count = Cardinality(DOMAIN Stored(disk))
    BY HowMany, StoreImages DEF Active, Refreshed
  <2>2. Store!Quiet /\ disk' = disk /\ durable' = disk /\ ret'.rc = count
        /\ OpenFiles' = OpenFiles
    BY <1>2, QuietIs, SameOpen DEF List, Answers, SeekAndRead, Seek, Returns, Result
  <2> HIDE DEF count
  <2>3. Store!List
    BY <1>2, <2>1, <2>2, SameCount DEF Store!List, Store!Lasts
  <2>4. QED
    BY <2>3 DEF Store!Next
<1>3. QED
  BY <1>1, <1>2 DEF List

LEMMA CloseInStore ==
    ASSUME StoreInv, NEW fh, Close(fh)
    PROVE  Store!Next
<1>1. /\ disk' = disk /\ durable' = durable /\ mounted' = mounted /\ job' = job
      /\ ret'.rc = 0 /\ Idle /\ Store!Quiet
      /\ handle' = [h \in Handles |-> IF h = fh THEN ClosedHandle ELSE handle[h]]
  BY QuietIs DEF Close, Returns, Result
<1>2. CASE fh \in Handles
  <2>1. \A h \in Handles : handle'[h].used <=> handle[h].used /\ h # fh
    BY <1>1 DEF ClosedHandle
  <2>2. {h \in Handles : handle'[h].used} = {h \in Handles : handle[h].used} \ {fh}
    BY <2>1
  <2>3. OpenFiles' = Store!Restrict(OpenFiles, DOMAIN OpenFiles \ {fh})
    BY <1>1, <2>2 DEF OpenFiles, Store!Restrict
  <2>4. Store!Close(fh)
    BY <1>1, <2>3 DEF Store!Close
  <2>5. QED
    BY <1>2, <2>4 DEF Store!Next
<1>3. CASE fh \notin Handles
  <2>1. handle' = handle
    BY <1>1, <1>3, StoreImages DEF TypeOK
  <2>2. QED
    BY <1>1, <2>1, Elsewhere
<1>4. QED
  BY <1>2, <1>3

LEMMA ReadInStore ==
    ASSUME IOErrors = FALSE, StoreInv, NEW fh, NEW len \in Lengths, Read(fh, len)
    PROVE  Store!Next
<1>0. len \in Nat
  BY FileSystemAssumption
<1>1. CASE Refused(-1) \/ Refused(0)
  BY <1>1, PlainIs DEF Read
<1>2. CASE ~BadHandle(fh) /\ len > 0
  <2> DEFINE e == handle[fh].entry
             left == SizeOf(disk.dir[e]) - handle[fh].pos
  <2>1. /\ fh \in Handles /\ handle[fh].used /\ left \in Nat
        /\ ret'.rc = (IF len <= left THEN len ELSE left)
        /\ handle' = [handle EXCEPT ![fh].pos = @ + ret'.rc]
        /\ disk' = disk /\ durable' = disk /\ mounted' = mounted /\ job' = job
    BY <1>0, <1>2, ReadGives
  <2>2. Store!Quiet
    BY <2>1, QuietIs DEF Read
  <2>3. TypeOK /\ Sound(disk) /\ e \in Entries /\ disk.dir[e].active
    BY <2>1, StoreImages DEF StoreInv, HandlesLive, TypeOK, HandleType
  <2>4. /\ fh \in DOMAIN OpenFiles
        /\ OpenFiles[fh] = [name |-> disk.dir[e].name, pos |-> handle[fh].pos]
    BY <2>1, OpenIs
  <2>5. Store!Size(fh) = SizeOf(disk.dir[e])
    <3>1. Stored(disk)[disk.dir[e].name] = Content(disk, e)
      BY <2>3, FileOf DEF Sound
    <3>2. Len(Content(disk, e)) = SizeOf(disk.dir[e])
      BY <2>3, LengthOf DEF Sound
    <3>3. QED
      BY <2>4, <3>1, <3>2 DEF Store!Size
  <2>6. ret'.rc = Store!LesserOf(len, Store!Size(fh) - OpenFiles[fh].pos)
    BY <2>1, <2>4, <2>5 DEF Store!LesserOf
  <2>7. OpenFiles' = [OpenFiles EXCEPT ![fh].pos = @ + ret'.rc]
    <3> DEFINE p == handle[fh].pos + ret'.rc
    <3>1. handle' = [handle EXCEPT ![fh].pos = p] /\ disk' = disk
      BY <2>1
    <3> HIDE DEF p, e, left
    <3>2. OpenFiles' = [OpenFiles EXCEPT ![fh].pos = p]
      BY <2>1, <2>3, <3>1, HandleMoved
    <3>3. QED
      BY <2>4, <3>2 DEF p
  <2>8. Store!Read(fh, len)
    BY <1>2, <2>1, <2>2, <2>4, <2>6, <2>7 DEF Store!Read, Store!Lasts
  <2>9. QED
    BY <2>4, <2>8 DEF Store!Next
<1>3. QED
  BY <1>1, <1>2 DEF Read

LEMMA BeginInStore ==
    ASSUME StoreInv, NEW fh, NEW len \in Lengths, NEW byte \in Payloads,
           WriteBegin(fh, len, byte)
    PROVE  Store!Next
<1>1. fh \in Handles /\ handle[fh].used /\ ~job.busy /\ len > 0 /\ byte \in Bytes
  BY FileSystemAssumption DEF WriteBegin, BadHandle, Idle
<1>2. /\ disk' = disk /\ durable' = disk /\ handle' = handle /\ mounted' = mounted /\ ret'.rc = 0
      /\ job' = [busy |-> TRUE, fh |-> fh, data |-> byte, len |-> len, total |-> 0,
                 pos |-> handle[fh].pos, rec |-> Refreshed[handle[fh].entry]]
  BY DEF WriteBegin, SeekAndRead, Seek, Returns, Result
<1>3. /\ fh \in DOMAIN OpenFiles /\ OpenFiles[fh].pos = handle[fh].pos
      /\ OpenFiles' = OpenFiles
  <2>1. OpenFiles[fh] = [name |-> disk.dir[handle[fh].entry].name, pos |-> handle[fh].pos]
    BY <1>1, OpenIs
  <2>2. QED
    BY <1>1, <1>2, <2>1, OpenIs, SameOpen
<1>4. /\ ~JobWriting.busy
      /\ JobWriting' = [busy |-> TRUE, fh |-> fh, byte |-> byte, len |-> len,
                        done |-> 0, pos |-> handle[fh].pos]
  BY <1>1, <1>2 DEF JobWriting
<1>5. Store!WriteBegin(fh, len, byte)
  BY <1>1, <1>2, <1>3, <1>4 DEF Store!WriteBegin, Store!Lasts
<1>6. QED
  BY <1>1, <1>3, <1>5 DEF Store!Next

-----------------------------------------------------------------------------
(* Sectors that change.                                                    *)

\* A file without the sector that changed.
LEMMA OtherSectors ==
    ASSUME NEW one, Sound(one), NEW two, Sound(two), two.dir = one.dir,
           NEW l, \A k \in DataSectors : k # l => two.sec[k] = one.sec[k],
           NEW e \in Entries, one.dir[e].active,
           \A s \in Slots : s < one.dir[e].count => one.dir[e].alloc[s] - 1 # l
    PROVE  Content(two, e) = Content(one, e)
<1>1. ASSUME NEW s \in Slots, s < one.dir[e].count
      PROVE  two.sec[one.dir[e].alloc[s] - 1] = one.sec[one.dir[e].alloc[s] - 1]
  <2>1. one.dir[e].alloc[s] # 0
    BY <1>1 DEF Sound, Filled
  <2>2. one.dir[e].alloc[s] - 1 \in DataSectors
    BY <2>1 DEF Sound, SectorsOwnedOnce
  <2>3. QED
    BY <1>1, <2>2
<1>2. QED
  BY <1>1, ContentSame

\* The file with it.
LEMMA SectorChanged ==
    ASSUME NEW one, Sound(one), NEW two, Sound(two), two.dir = one.dir,
           NEW x \in Entries, one.dir[x].active,
           NEW s \in Slots, s < one.dir[x].count,
           \A k \in DataSectors : k # one.dir[x].alloc[s] - 1 => two.sec[k] = one.sec[k]
    PROVE  /\ Stored(two) = [Stored(one) EXCEPT ![one.dir[x].name] = Content(two, x)]
           /\ Content(two, x) = [q \in 1 .. SizeOf(one.dir[x]) |-> Content(two, x)[q]]
           /\ \A q \in 1 .. SizeOf(one.dir[x]) : Content(two, x)[q] =
                IF SlotOf(q - 1) = s
                THEN two.sec[one.dir[x].alloc[s] - 1][(q - 1) % SectorBytes]
                ELSE Content(one, x)[q]
<1> DEFINE l == one.dir[x].alloc[s] - 1
<1>1. one.dir[x].alloc[s] # 0 /\ SectorsOwnedOnce(one.dir) /\ one \in ImageType
  BY DEF Sound, Filled
<1>2. \A e \in Entries, t \in Slots : one.dir[e].alloc[t] \in Nat
  BY <1>1, FileSystemAssumption DEF ImageType, EntryType, Allocs
<1>3. ASSUME NEW e \in Entries, one.dir[e].active, NEW t \in Slots, t < one.dir[e].count,
             one.dir[e].alloc[t] - 1 = l
      PROVE  e = x /\ t = s
  <2>1. one.dir[e].alloc[t] = one.dir[x].alloc[s]
    BY <1>2, <1>3
  <2>2. QED
    BY <1>1, <1>3, <2>1 DEF SectorsOwnedOnce
<1>4. ASSUME NEW e \in Entries, one.dir[e].active, e # x
      PROVE  Content(two, e) = Content(one, e)
  <2>1. \A t \in Slots : t < one.dir[e].count => one.dir[e].alloc[t] - 1 # l
    BY <1>3, <1>4
  <2>2. \A k \in DataSectors : k # l => two.sec[k] = one.sec[k]
    OBVIOUS
  <2> HIDE DEF l
  <2>3. QED
    BY <1>4, <2>1, <2>2, OtherSectors
<1>5. ASSUME NEW q \in 1 .. SizeOf(one.dir[x])
      PROVE  Content(two, x)[q] = IF SlotOf(q - 1) = s
                THEN two.sec[one.dir[x].alloc[s] - 1][(q - 1) % SectorBytes]
                ELSE Content(one, x)[q]
  <2> DEFINE t == SlotOf(q - 1)
             i == (q - 1) % SectorBytes
  <2>1. /\ t \in Slots /\ t < one.dir[x].count /\ one.dir[x].alloc[t] # 0
        /\ Content(one, x)[q] = one.sec[one.dir[x].alloc[t] - 1][i]
    BY <1>5, ByteOfFile
  <2>2. Content(two, x)[q] = two.sec[one.dir[x].alloc[t] - 1][i]
    <3>1. two.dir[x] = one.dir[x] /\ q \in 1 .. SizeOf(two.dir[x])
      BY <1>5
    <3>2. QED
      BY <3>1, ByteOfFile
  <2>3. one.dir[x].alloc[t] - 1 \in DataSectors
    BY <1>1, <2>1 DEF SectorsOwnedOnce
  <2>4. t # s => one.dir[x].alloc[t] - 1 # l
    BY <1>3, <2>1
  <2>5. Content(two, x)[q] = IF t = s THEN two.sec[one.dir[x].alloc[s] - 1][i]
                             ELSE Content(one, x)[q]
    <3> HIDE DEF t, i
    <3>1. QED
      BY <2>1, <2>2, <2>3, <2>4
  <2>6. QED
    BY <2>5
<1>6. \A e \in Entries : /\ two.dir[e].active <=> one.dir[e].active
                         /\ one.dir[e].active => two.dir[e].name = one.dir[e].name
  OBVIOUS
<1>7. Content(two, x) = [q \in 1 .. SizeOf(one.dir[x]) |-> Content(two, x)[q]]
  BY DEF Content
<1> HIDE DEF l
<1>8. Stored(two) = [Stored(one) EXCEPT ![one.dir[x].name] = Content(two, x)]
  BY <1>4, <1>6, FileChanged
<1>9. QED
  BY <1>5, <1>7, <1>8

\* A sector that no file has.
LEMMA SectorOfNone ==
    ASSUME NEW one, Sound(one), NEW two, Sound(two), two.dir = one.dir,
           NEW l, \A k \in DataSectors : k # l => two.sec[k] = one.sec[k],
           \A e \in Entries, s \in Slots : one.dir[e].active /\ s < one.dir[e].count =>
              one.dir[e].alloc[s] - 1 # l
    PROVE  Stored(two) = Stored(one)
<1>1. ASSUME NEW e \in Entries, one.dir[e].active PROVE Content(two, e) = Content(one, e)
  BY <1>1, OtherSectors
<1>2. QED
  BY <1>1, SameFiles

\* The bytes of a block.
LEMMA BlockOf ==
    ASSUME NEW q \in Nat \ {0}, NEW s \in Nat
    PROVE  SlotOf(q - 1) = s <=> s * SectorBytes < q /\ q <= (s + 1) * SectorBytes
<1>1. q - 1 \in Nat /\ s + 1 \in Nat /\ SlotOf(q - 1) \in Nat
  BY PlaceOf
<1>2. /\ q - 1 < s * SectorBytes <=> SlotOf(q - 1) < s
      /\ q - 1 < (s + 1) * SectorBytes <=> SlotOf(q - 1) < s + 1
  BY <1>1, SlotBefore
<1>3. s * SectorBytes \in Nat /\ (s + 1) * SectorBytes \in Nat
  BY <1>1, SlotStart
<1> HIDE DEF SlotOf
<1>4. QED
  BY <1>1, <1>2, <1>3

LEMMA SectorInStore ==
    ASSUME IOErrors = FALSE, StoreInv, StoreInv', NEW track, NEW sector, NEW byte \in Payloads,
           WriteSector(track, sector, byte)
    PROVE  Store!Next
<1>1. CASE Refused(-1) \/ Fails(-1)
  BY <1>1, PlainIs DEF WriteSector
<1>2. ASSUME mounted, NEW l \in DataSectors,
             SeekAndWrite([disk EXCEPT !.sec[l] = [i \in 0 .. SectorBytes - 1 |-> byte]]),
             Returns(0), UNCHANGED <<mounted, handle, job>>
      PROVE  Store!Next
  <2>1. TypeOK /\ Sound(disk) /\ Sound(disk') /\ byte \in Bytes
    BY StoreImages, StoreImagesNext, FileSystemAssumption
  <2>2. /\ disk'.dir = disk.dir /\ durable' = disk /\ Store!Quiet /\ ret'.rc = 0
        /\ OpenFiles' = OpenFiles
    BY <1>2, QuietIs, SameOpen
       DEF SeekAndWrite, Seek, WriteSector, Returns, Result
  <2>3. /\ disk'.sec[l] = [i \in 0 .. SectorBytes - 1 |-> byte]
        /\ \A k \in DataSectors : k # l => disk'.sec[k] = disk.sec[k]
    BY <1>2, <2>1 DEF SeekAndWrite, TypeOK, ImageType
  <2>4. ASSUME Stored(disk') = Stored(disk) PROVE Store!Scribble(byte)
    BY <1>2, <2>2, <2>4 DEF Store!Scribble, Store!Lasts
  <2>5. CASE \A e \in Entries, s \in Slots : disk.dir[e].active /\ s < disk.dir[e].count =>
                disk.dir[e].alloc[s] - 1 # l
    <3>1. Stored(disk') = Stored(disk)
      BY <2>1, <2>2, <2>3, <2>5, SectorOfNone
    <3>2. QED
      BY <2>1, <2>4, <3>1 DEF Store!Next
  <2>6. ASSUME NEW e \in Entries, NEW s \in Slots, disk.dir[e].active, s < disk.dir[e].count,
               disk.dir[e].alloc[s] - 1 = l
        PROVE  Store!Next
    <3> DEFINE n == disk.dir[e].name
               old == Content(disk, e)
               new == Content(disk', e)
               patch == [q \in DOMAIN old |->
                          IF s * SectorBytes < q /\ q <= (s + 1) * SectorBytes
                          THEN byte ELSE old[q]]
    <3>1. /\ Stored(disk') = [Stored(disk) EXCEPT ![n] = new]
          /\ new = [q \in 1 .. SizeOf(disk.dir[e]) |-> new[q]]
          /\ \A q \in 1 .. SizeOf(disk.dir[e]) : new[q] =
               IF SlotOf(q - 1) = s
               THEN disk'.sec[disk.dir[e].alloc[s] - 1][(q - 1) % SectorBytes]
               ELSE old[q]
      <4>1. \A k \in DataSectors : k # disk.dir[e].alloc[s] - 1 => disk'.sec[k] = disk.sec[k]
        BY <2>3, <2>6
      <4>2. disk'.dir = disk.dir
        BY <2>2
      <4>3. QED
        BY <2>1, <2>6, <4>1, <4>2, SectorChanged
    <3>2. n \in DOMAIN Stored(disk) /\ Stored(disk)[n] = old
      BY <2>1, <2>6, FileOf DEF Sound
    <3>3. /\ DOMAIN old = 1 .. SizeOf(disk.dir[e]) /\ SizeOf(disk.dir[e]) \in Nat
          /\ Len(old) = disk.dir[e].count * SectorBytes /\ disk.dir[e].count \in Nat
      BY <2>1, LengthOf, SizeType DEF Sound
    <3>4. s \in Nat /\ s \in 0 .. Store!BlocksOf(Len(old)) - 1
      <4>1. s \in Nat
        BY DEF Slots
      <4>2. disk.dir[e].count \in Nat
        BY <3>3
      <4>3. Store!BlocksOf(disk.dir[e].count * SectorBytes) = disk.dir[e].count
        BY <4>2, WholeBlocks
      <4> HIDE DEF old
      <4>4. QED
        BY <2>6, <3>3, <4>1, <4>3
    <3>5. new = patch
      <4> HIDE DEF new, old
      <4>1. ASSUME NEW q \in 1 .. SizeOf(disk.dir[e]) PROVE new[q] = patch[q]
        <5>1. q \in Nat \ {0} /\ q - 1 \in Nat
          BY <3>3
        <5>2. (q - 1) % SectorBytes \in 0 .. SectorBytes - 1
          BY <5>1, PlaceOf
        <5>3. SlotOf(q - 1) = s <=> s * SectorBytes < q /\ q <= (s + 1) * SectorBytes
          BY <3>4, <5>1, BlockOf
        <5>4. disk'.sec[disk.dir[e].alloc[s] - 1][(q - 1) % SectorBytes] = byte
          BY <2>3, <2>6, <5>2
        <5>5. patch[q] = IF s * SectorBytes < q /\ q <= (s + 1) * SectorBytes
                         THEN byte ELSE old[q]
          BY <3>3
        <5> HIDE DEF patch, SlotOf
        <5>6. QED
          BY <3>1, <5>3, <5>4, <5>5
      <4>2. patch = [q \in 1 .. SizeOf(disk.dir[e]) |-> patch[q]]
        BY <3>3
      <4> HIDE DEF patch
      <4>3. QED
        BY <3>1, <4>1, <4>2
    <3>6. Stored(disk') = [Stored(disk) EXCEPT ![n] = [q \in DOMAIN @ |->
                             IF s * SectorBytes < q /\ q <= (s + 1) * SectorBytes
                             THEN byte ELSE @[q]]]
      BY <3>1, <3>2, <3>5
    <3> HIDE DEF n, old, new, patch
    <3>7. Store!Scribble(byte)
      BY <1>2, <2>2, <3>2, <3>4, <3>6 DEF Store!Scribble, Store!Lasts
    <3>8. QED
      BY <2>1, <3>7 DEF Store!Next
  <2>7. QED
    BY <2>5, <2>6
<1>3. QED
  BY <1>1, <1>2, FileSystemAssumption DEF WriteSector

LEMMA RestInStore ==
    ASSUME IOErrors = FALSE, StoreInv,
           \/ Flush
           \/ FsInitRefused
           \/ FsInit
           \/ Crash
           \/ Exit
           \/ \E fh, len : WriteRefused(fh, len)
           \/ \E track, sector : ReadSector(track, sector)
    PROVE  Store!Next
<1>1. CASE \E fh, len : WriteRefused(fh, len)
  BY <1>1, PlainIs DEF WriteRefused
<1>2. CASE \E track, sector : ReadSector(track, sector)
  BY <1>2, PlainIs DEF ReadSector
<1>3. CASE Flush
  <2>1. CASE Refused(0) \/ Fails(0)
    BY <1>3, <2>1, PlainIs DEF Flush
  <2>2. CASE Seek /\ Returns(0) /\ UNCHANGED <<disk, mounted, handle, job>>
    BY <1>3, <2>2, Elsewhere DEF Flush, Seek, Returns, Result
  <2>3. QED
    BY <1>3, <2>1, <2>2 DEF Flush
<1>4. CASE FsInitRefused
  BY <1>4, PlainIs DEF FsInitRefused
<1>5. CASE FsInit
  <2>1. /\ ~job.busy /\ disk' = disk /\ durable' = disk /\ mounted' = TRUE /\ ret'.rc = 0
        /\ OpenFiles' = <<>> /\ job' = job
    BY <1>5, NoneOpen DEF FsInit, Idle, Returns, Result
  <2>2. Store!Mount
    BY <2>1 DEF Store!Mount, Store!Lasts, JobWriting
  <2>3. QED
    BY <2>2 DEF Store!Next
<1>6. CASE Crash \/ Exit
  <2>1. /\ mounted /\ mounted' = FALSE /\ disk' = durable'
        /\ durable' = durable \/ (~job.busy /\ durable' = disk)
        /\ OpenFiles' = <<>> /\ job' = NoJob /\ ret'.rc = 0
    <3>1. Restarted /\ mounted /\ (durable' = durable \/ (~job.busy /\ durable' = disk))
      BY <1>6 DEF Crash, Exit, Idle
    <3>2. OpenFiles' = <<>>
      BY <3>1, NoneOpen DEF Restarted
    <3>3. QED
      BY <3>1, <3>2 DEF Restarted, Returns, Result
  <2>2. JobWriting' = Store!NoWrite
    BY <2>1 DEF JobWriting, Store!NoWrite, NoJob
  <2>3. Store!Gone
    BY <2>1, <2>2 DEF Store!Gone, JobWriting
  <2>4. QED
    BY <2>3 DEF Store!Next
<1>7. QED
  BY <1>1, <1>2, <1>3, <1>4, <1>5, <1>6

-----------------------------------------------------------------------------
(* The steps of fs_write are steps of the store's write.                   *)

LEMMA JobInStore ==
    ASSUME StoreInv, job.busy
    PROVE  /\ job.fh \in DOMAIN OpenFiles
           /\ OpenFiles[job.fh].name = disk.dir[JobEntry].name
           /\ disk.dir[JobEntry].name \in DOMAIN Stored(disk)
           /\ Stored(disk)[disk.dir[JobEntry].name] = Content(disk, JobEntry)
           /\ Len(Content(disk, JobEntry)) = SizeOf(disk.dir[JobEntry])
           /\ Store!Size(job.fh) = SizeOf(disk.dir[JobEntry])
           /\ SizeOf(disk.dir[JobEntry]) \in Nat
           /\ SizeOf(disk.dir[JobEntry]) = disk.dir[JobEntry].count * SectorBytes
<1>1. /\ TypeOK /\ JobEntry \in Entries /\ disk.dir[JobEntry].active /\ Sound(disk)
      /\ disk \in ImageType /\ OneEntryPerName(disk.dir)
  BY JobNow, StoreImages DEF Sound
<1>2. job.fh \in Handles /\ handle[job.fh].used
  BY DEF StoreInv, JobExtends
<1>3. OpenFiles[job.fh] = [name |-> disk.dir[JobEntry].name, pos |-> handle[job.fh].pos]
  BY <1>2, OpenIs DEF JobEntry
<1>4. job.fh \in DOMAIN OpenFiles /\ OpenFiles[job.fh].name = disk.dir[JobEntry].name
  BY <1>2, <1>3, OpenIs
<1>5. /\ disk.dir[JobEntry].name \in DOMAIN Stored(disk)
      /\ Stored(disk)[disk.dir[JobEntry].name] = Content(disk, JobEntry)
  BY <1>1, FileOf
<1>6. Len(Content(disk, JobEntry)) = SizeOf(disk.dir[JobEntry])
  BY <1>1, LengthOf
<1>7. QED
  BY <1>1, <1>4, <1>5, <1>6, SizeType DEF Store!Size

\* With a sector in every slot up to there, there is room for the bytes.
LEMMA RoomTaken ==
    ASSUME StoreInv, job.busy, NEW rec, NEW dir \in Directories,
           dir = [disk.dir EXCEPT ![JobEntry] = rec],
           rec.active, rec.name = disk.dir[JobEntry].name, SectorsOwnedOnce(dir),
           NEW bytes \in Nat, bytes <= SlotsPerFile * SectorBytes,
           \A s \in Slots : s < disk.dir[JobEntry].count => rec.alloc[s] # 0,
           \A s \in Slots : ~(s < disk.dir[JobEntry].count) =>
              (rec.alloc[s] # 0 <=> s * SectorBytes < bytes)
    PROVE  Store!HasRoom(job.fh, bytes)
<1> DEFINE old == disk.dir[JobEntry]
<1>1. /\ Store!Size(job.fh) = SizeOf(old) /\ SizeOf(old) \in Nat
      /\ SizeOf(old) = old.count * SectorBytes /\ OpenFiles[job.fh].name = old.name
  BY JobInStore
<1>2. /\ JobEntry \in Entries /\ old.active /\ Sound(disk) /\ old.count \in Nat
      /\ disk.dir \in Directories /\ OneEntryPerName(disk.dir)
  BY JobNow, StoreImages, SizeType DEF Sound
<1>3. CASE bytes <= SizeOf(old)
  BY <1>1, <1>3 DEF Store!HasRoom
<1>4. CASE ~(bytes <= SizeOf(old))
  <2>1. \A s \in Slots : rec.alloc[s] # 0 <=> s * SectorBytes < bytes
    <3>1. ASSUME NEW s \in Slots, s < old.count PROVE s * SectorBytes < bytes
      <4>1. s \in Nat /\ s * SectorBytes \in Nat /\ SectorBytes \in Nat
        BY SlotStart, SectorSize DEF Slots
      <4>2. s * SectorBytes <= old.count * SectorBytes
        BY <1>2, <3>1, <4>1, MultiplesUpTo
      <4>3. QED
        BY <1>1, <1>4, <4>1, <4>2
    <3>2. QED
      BY <3>1
  <2>2. Store!BlocksOf(bytes) <= SlotsPerFile
    <3>1. SlotsPerFile \in Nat /\ SlotsPerFile * SectorBytes \in Nat
      BY SlotStart, FileSystemAssumption
    <3>2. ~(SlotsPerFile < Store!BlocksOf(bytes)) /\ Store!BlocksOf(bytes) \in Nat
      BY <3>1, BlocksReach
    <3>3. QED
      BY <3>1, <3>2
  <2>3. /\ dir[JobEntry] = rec
        /\ \A e \in Entries : e # JobEntry => dir[e] = disk.dir[e]
    BY <1>2 DEF Directories
  <2>4. Store!InUse(old.name, bytes) = Taken(dir)
    <3>1. /\ dir[JobEntry].active /\ dir[JobEntry].name = disk.dir[JobEntry].name
          /\ \A s \in Slots : dir[JobEntry].alloc[s] # 0 <=> s * SectorBytes < bytes
      BY <2>1, <2>3
    <3>2. /\ Sound(disk) /\ JobEntry \in Entries /\ disk.dir[JobEntry].active
      BY <1>2
    <3>3. QED
      BY <2>2, <2>3, <3>1, <3>2, InUseIs
  <2>5. OneEntryPerName(dir)
    <3>1. \A e \in Entries : /\ dir[e].name = disk.dir[e].name
                             /\ dir[e].active => disk.dir[e].active
      BY <1>2, <2>3
    <3>2. QED
      BY <1>2, <3>1 DEF OneEntryPerName
  <2>6. Cardinality(Taken(dir)) <= TotalSectors - FirstData
    BY <2>5, TakenFit
  <2>7. QED
    BY <1>1, <2>2, <2>4, <2>6, SameCount DEF Store!HasRoom
<1>5. QED
  BY <1>3, <1>4

LEMMA StepHasRoom ==
    ASSUME StoreInv, StoreInv', WriteMore, NEW rec, job' = Advanced(rec), handle' = handle,
           disk'.dir = disk.dir
    PROVE  Store!HasRoom(job.fh, job.pos + Chunk)
<1>1. /\ job'.busy /\ job'.fh = job.fh /\ job'.pos = job.pos + Chunk /\ job'.rec = rec
      /\ JobEntry' = JobEntry
  BY AdvancedIs
<1>2. /\ job.busy /\ JobEntry \in Entries /\ disk.dir[JobEntry].active
      /\ Filled(disk.dir) /\ disk.dir \in Directories
  BY ChunkIs, JobNow, StoreImages DEF StoreInv
<1>3. JobDir' = [disk.dir EXCEPT ![JobEntry] = rec]
  BY <1>1 DEF JobDir
<1>4. SectorsOwnedOnce(JobDir')
  BY <1>1 DEF StoreInv, SafeInv, AllocSafe
<1>5. rec \in EntryType /\ job.pos + Chunk \in Nat
  BY <1>1 DEF StoreInv, SafeInv, TypeOK, JobType
<1>6. rec.active /\ rec.name = disk.dir[JobEntry].name
  BY <1>1, <1>2 DEF StoreInv, SafeInv, JobKeepsName
<1>7. /\ job.pos + Chunk <= SlotsPerFile * SectorBytes
      /\ \A s \in Slots : s < disk.dir[JobEntry].count => rec.alloc[s] = disk.dir[JobEntry].alloc[s]
      /\ \A s \in Slots : ~(s < disk.dir[JobEntry].count) =>
            (rec.alloc[s] # 0 <=> s * SectorBytes < job.pos + Chunk)
  <2>1. JobExtends'
    BY DEF StoreInv
  <2>2. QED
    BY <1>1, <2>1 DEF JobExtends
<1>8. \A s \in Slots : s < disk.dir[JobEntry].count => rec.alloc[s] # 0
  BY <1>2, <1>7 DEF Filled
<1>9. JobDir' \in Directories
  BY <1>2, <1>3, <1>5 DEF Directories
<1>10. QED
  BY <1>2, <1>3, <1>4, <1>5, <1>6, <1>7, <1>8, <1>9, RoomTaken

LEMMA SomeInStore ==
    ASSUME StoreInv, StoreInv', WriteMore, NEW rec, job' = Advanced(rec), handle' = handle,
           disk'.dir = disk.dir, durable' = disk, mounted' = mounted, ret' = ret,
           LET n == disk.dir[JobEntry].name
           IN  \/ /\ job.pos + Chunk <= SizeOf(disk.dir[JobEntry])
                  /\ Stored(disk') = [Stored(disk) EXCEPT ![n] = [q \in DOMAIN @ |->
                        IF job.pos < q /\ q <= job.pos + Chunk THEN job.data ELSE @[q]]]
               \/ /\ job.pos >= SizeOf(disk.dir[JobEntry])
                  /\ Stored(disk') = Stored(disk)
    PROVE  Store!Next
<1>1. /\ OpenFiles[job.fh].name = disk.dir[JobEntry].name
      /\ Len(Stored(disk)[disk.dir[JobEntry].name]) = SizeOf(disk.dir[JobEntry])
  BY JobInStore, ChunkIs
<1>2. Store!HasRoom(job.fh, job.pos + Chunk)
  BY StepHasRoom
<1>3. /\ job.busy /\ Chunk \in 1 .. job.len - job.total /\ Chunk \in 1 .. SectorBytes
  <2>1. /\ job.busy /\ Chunk \in Nat /\ Chunk > 0 /\ job.total + Chunk <= job.len
        /\ job.pos % SectorBytes \in Nat /\ (job.pos % SectorBytes) + Chunk <= SectorBytes
    BY ChunkIs
  <2>2. job.total \in Nat /\ job.len \in Nat /\ SectorBytes \in Nat
    BY <2>1, JobNow, SectorSize
  <2>3. QED
    BY <2>1, <2>2
<1>4. /\ JobWriting.busy /\ JobWriting.len = job.len /\ JobWriting.done = job.total
      /\ JobWriting.pos = job.pos /\ JobWriting.fh = job.fh /\ JobWriting.byte = job.data
      /\ JobWriting' = [JobWriting EXCEPT !.done = @ + Chunk, !.pos = @ + Chunk]
  <2>1. /\ job'.busy = job.busy /\ job'.fh = job.fh /\ job'.data = job.data /\ job'.len = job.len
        /\ job'.total = job.total + Chunk /\ job'.pos = job.pos + Chunk
    BY <1>3, AdvancedIs, JobNow DEF Advanced, JobType
  <2>2. JobWriting' = [busy |-> job.busy, fh |-> job.fh, byte |-> job.data, len |-> job.len,
                       done |-> job.total + Chunk, pos |-> job.pos + Chunk]
    BY <2>1 DEF JobWriting
  <2>3. JobWriting = [busy |-> job.busy, fh |-> job.fh, byte |-> job.data, len |-> job.len,
                      done |-> job.total, pos |-> job.pos]
    BY DEF JobWriting
  <2>4. JobWriting.busy = job.busy /\ JobWriting.len = job.len /\ JobWriting.done = job.total
        /\ JobWriting.pos = job.pos /\ JobWriting.fh = job.fh /\ JobWriting.byte = job.data
    BY <2>3
  <2>5. JobWriting' = [JobWriting EXCEPT !.done = @ + Chunk, !.pos = @ + Chunk]
    <3> DEFINE half == [JobWriting EXCEPT !.done = @ + Chunk]
    <3>1. half = [busy |-> job.busy, fh |-> job.fh, byte |-> job.data, len |-> job.len,
                  done |-> job.total + Chunk, pos |-> job.pos]
      BY <2>3
    <3>2. [JobWriting EXCEPT !.done = @ + Chunk, !.pos = @ + Chunk]
             = [half EXCEPT !.pos = @ + Chunk]
      OBVIOUS
    <3> HIDE DEF half
    <3>3. QED
      BY <2>2, <3>1, <3>2
  <2>6. QED
    BY <1>3, <2>4, <2>5
<1>5. OpenFiles' = OpenFiles
  BY SameOpen
<1>6. Store!WriteSome(Chunk)
  BY <1>1, <1>2, <1>3, <1>4, <1>5 DEF Store!WriteSome, Store!Lasts
<1>7. QED
  BY <1>3, <1>6 DEF Store!Next

\* No file has a sector yet that is not in the entry, or is in it past its end.
LEMMA NotYetInFile ==
    ASSUME StoreInv, StoreInv', job.busy, durable' = disk, disk'.dir = disk.dir,
           NEW l, \A k \in DataSectors : k # l => disk'.sec[k] = disk.sec[k],
           \A e \in Entries, s \in Slots : disk.dir[e].active /\ s < disk.dir[e].count =>
              JobDir[e].alloc[s] - 1 # l
    PROVE  Stored(disk') = Stored(disk)
<1>1. Sound(disk) /\ Sound(disk')
  BY StoreImages, StoreImagesNext
<1>2. ASSUME NEW e \in Entries, NEW s \in Slots, disk.dir[e].active, s < disk.dir[e].count
      PROVE  disk.dir[e].alloc[s] - 1 # l
  <2>1. CASE e = JobEntry
    <3>1. JobDir[e] = job.rec
      BY <2>1, JobNow
    <3>2. job.rec.alloc[s] = disk.dir[e].alloc[s]
      BY <1>2, <2>1 DEF StoreInv, JobExtends
    <3>3. QED
      BY <1>2, <3>1, <3>2
  <2>2. CASE e # JobEntry
    BY <1>2, <2>2, JobNow
  <2>3. QED
    BY <2>1, <2>2
<1>3. QED
  BY <1>1, <1>2, SectorOfNone

LEMMA InPlaceInStore ==
    ASSUME StoreInv, StoreInv', WriteInPlace
    PROVE  Store!Next
<1> DEFINE s0 == SlotOf(job.pos)
           k == job.rec.alloc[s0]
           old == disk.dir[JobEntry]
<1>1. /\ WriteMore /\ job.busy /\ s0 \in Slots
  BY DEF WriteInPlace, WriteMore
<1>2. /\ k # 0 /\ k \in Nat /\ k - 1 \in DataSectors
      /\ \A s \in Slots : job.rec.alloc[s] = k => s = s0
      /\ disk'.sec[k - 1] = Patched(disk.sec[k - 1])
      /\ \A l : l # k - 1 => disk'.sec[l] = disk.sec[l]
      /\ disk'.dir = disk.dir /\ durable' = disk /\ handle' = handle
      /\ job' = Advanced(job.rec) /\ mounted' = mounted /\ ret' = ret
  BY InPlaceIs
<1>3. /\ SizeOf(old) \in Nat /\ SizeOf(old) = old.count * SectorBytes
      /\ old.name \in DOMAIN Stored(disk) /\ Stored(disk)[old.name] = Content(disk, JobEntry)
  BY <1>1, JobInStore
<1>4. /\ TypeOK /\ Sound(disk) /\ Sound(disk') /\ JobEntry \in Entries /\ old.active
      /\ job.pos \in Nat /\ old.count \in Nat
  BY <1>1, JobNow, StoreImages, StoreImagesNext
<1>5. /\ Chunk \in Nat /\ s0 \in Nat /\ s0 * SectorBytes \in Nat
      /\ job.pos % SectorBytes \in Nat
      /\ (job.pos % SectorBytes) + Chunk <= SectorBytes
      /\ job.pos = s0 * SectorBytes + (job.pos % SectorBytes)
  BY <1>1, ChunkIs
<1>6. CASE s0 < old.count
  <2>1. job.pos + Chunk <= SizeOf(old)
    <3>1. s0 * SectorBytes + SectorBytes <= old.count * SectorBytes
      BY <1>4, <1>5, <1>6, Multiples
    <3>2. QED
      BY <1>3, <1>4, <1>5, <3>1, SectorSize
  <2> DEFINE new == Content(disk', JobEntry)
             patch == [q \in DOMAIN Content(disk, JobEntry) |->
                         IF job.pos < q /\ q <= job.pos + Chunk
                         THEN job.data ELSE Content(disk, JobEntry)[q]]
  <2>2. k = old.alloc[s0]
    BY <1>1, <1>6 DEF StoreInv, JobExtends
  <2>3. /\ Stored(disk') = [Stored(disk) EXCEPT ![old.name] = new]
        /\ new = [q \in 1 .. SizeOf(old) |-> new[q]]
        /\ \A q \in 1 .. SizeOf(old) : new[q] =
             IF SlotOf(q - 1) = s0
             THEN disk'.sec[old.alloc[s0] - 1][(q - 1) % SectorBytes]
             ELSE Content(disk, JobEntry)[q]
    <3>1. \A x \in DataSectors : x # disk.dir[JobEntry].alloc[s0] - 1 => disk'.sec[x] = disk.sec[x]
      BY <1>2, <2>2
    <3>2. /\ disk'.dir = disk.dir /\ s0 \in Slots /\ s0 < disk.dir[JobEntry].count
          /\ Sound(disk) /\ Sound(disk') /\ JobEntry \in Entries /\ disk.dir[JobEntry].active
      BY <1>1, <1>2, <1>4, <1>6
    <3> HIDE DEF s0
    <3>3. QED
      BY <3>1, <3>2, SectorChanged
  <2>4. DOMAIN Content(disk, JobEntry) = 1 .. SizeOf(old)
    BY <1>4, LengthOf DEF Sound
  <2>5. ASSUME NEW q \in 1 .. SizeOf(old) PROVE new[q] = patch[q]
    <3> DEFINE t == SlotOf(q - 1)
               i == (q - 1) % SectorBytes
               byte == Content(disk, JobEntry)[q]
    <3>1. /\ q - 1 \in Nat /\ i \in 0 .. SectorBytes - 1
          /\ byte = disk.sec[old.alloc[t] - 1][i]
      BY <1>4, ByteOfFile
    <3>2. t \in Nat /\ q - 1 = t * SectorBytes + i
      BY <3>1, PlaceOf
    <3>3. new[q] = IF t = s0 THEN disk'.sec[old.alloc[s0] - 1][i] ELSE byte
      BY <2>3
    <3>4. patch[q] = IF job.pos < q /\ q <= job.pos + Chunk THEN job.data ELSE byte
      BY <2>4
    <3>5. Patched(disk.sec[k - 1])[i] =
             IF job.pos <= s0 * SectorBytes + i /\ s0 * SectorBytes + i < job.pos + Chunk
             THEN job.data ELSE disk.sec[k - 1][i]
      BY <1>1, <3>1, PatchedIs
    <3> HIDE DEF new, patch, i, t, byte, s0, k, old
    <3>6. CASE t = s0
      <4>1. s0 * SectorBytes + i = q - 1 /\ q \in Nat
        BY <3>1, <3>2, <3>6
      <4>2. /\ job.pos <= s0 * SectorBytes + i <=> job.pos < q
            /\ s0 * SectorBytes + i < job.pos + Chunk <=> q <= job.pos + Chunk
        BY <1>4, <1>5, <4>1
      <4>3. QED
        BY <1>2, <2>2, <3>1, <3>3, <3>4, <3>5, <3>6, <4>2
    <3>7. CASE t # s0
      <4>1. ~(job.pos < q /\ q <= job.pos + Chunk)
        <5>1. CASE t < s0
          <6>1. t * SectorBytes + SectorBytes <= s0 * SectorBytes
            BY <1>5, <3>2, <5>1, Multiples
          <6>2. t * SectorBytes \in Nat
            BY <3>2, SectorSize
          <6>3. QED
            BY <1>4, <1>5, <3>1, <3>2, <6>1, <6>2, SectorSize
        <5>2. CASE s0 < t
          <6>1. s0 * SectorBytes + SectorBytes <= t * SectorBytes
            BY <1>5, <3>2, <5>2, Multiples
          <6>2. t * SectorBytes \in Nat
            BY <3>2, SectorSize
          <6>3. QED
            BY <1>4, <1>5, <3>1, <3>2, <6>1, <6>2, SectorSize
        <5>3. QED
          BY <1>5, <3>2, <3>7, <5>1, <5>2
      <4>2. QED
        BY <3>3, <3>4, <3>7, <4>1
    <3>8. QED
      BY <3>6, <3>7
  <2>6. new = patch
    <3>1. patch = [q \in 1 .. SizeOf(old) |-> patch[q]]
      BY <2>4
    <3> HIDE DEF new, patch
    <3>2. QED
      BY <2>3, <2>5, <3>1
  <2>7. Stored(disk') = [Stored(disk) EXCEPT ![old.name] = [q \in DOMAIN @ |->
                           IF job.pos < q /\ q <= job.pos + Chunk THEN job.data ELSE @[q]]]
    BY <1>3, <2>3, <2>6
  <2> HIDE DEF new, patch
  <2>8. QED
    BY <1>1, <1>2, <2>1, <2>7, SomeInStore
<1>7. CASE ~(s0 < old.count)
  <2>1. job.pos >= SizeOf(old)
    <3>1. ~(job.pos < old.count * SectorBytes)
      BY <1>4, <1>7, SlotBefore
    <3>2. QED
      BY <1>3, <1>4, <3>1
  <2>2. ASSUME NEW e \in Entries, NEW s \in Slots, disk.dir[e].active, s < disk.dir[e].count
        PROVE  JobDir[e].alloc[s] - 1 # k - 1
    <3>1. /\ JobDir \in Directories /\ SectorsOwnedOnce(JobDir) /\ JobDir[JobEntry] = job.rec
          /\ job.rec.active /\ (e # JobEntry => JobDir[e] = disk.dir[e])
      BY <1>1, JobNow
    <3>2. SUFFICES ASSUME JobDir[e].alloc[s] = k PROVE FALSE
      <4>1. JobDir[e].alloc[s] \in Nat
        BY <3>1, FileSystemAssumption DEF Directories, EntryType, Allocs
      <4>2. QED
        BY <1>2, <4>1
    <3>3. JobDir[e].active
      BY <2>2, <3>1
    <3>4. e = JobEntry /\ s = s0
      BY <1>1, <1>2, <1>4, <3>1, <3>2, <3>3 DEF SectorsOwnedOnce
    <3>5. QED
      BY <1>7, <2>2, <3>4
  <2>3. \A x \in DataSectors : x # k - 1 => disk'.sec[x] = disk.sec[x]
    BY <1>2
  <2> HIDE DEF k
  <2>4. Stored(disk') = Stored(disk)
    BY <1>1, <1>2, <2>2, <2>3, NotYetInFile
  <2>5. QED
    BY <1>1, <1>2, <2>1, <2>4, SomeInStore
<1>8. QED
  BY <1>6, <1>7

LEMMA AllocatingInStore ==
    ASSUME InReach, StoreInv, StoreInv', WriteAllocating
    PROVE  Store!Next
<1> DEFINE s0 == SlotOf(job.pos)
           old == disk.dir[JobEntry]
<1>1. /\ WriteMore /\ job.busy /\ s0 \in Slots /\ job.rec.alloc[s0] = 0
  BY DEF WriteAllocating, WriteMore
<1>2. PICK l, rec :
               /\ l \in DataSectors /\ l \in Nat /\ ~SectorInUse(JobDir, l)
               /\ rec = [job.rec EXCEPT !.alloc[s0] = l + 1]
               /\ rec.alloc[s0] = l + 1 /\ rec.count = job.rec.count
               /\ \A s \in Slots : s # s0 => rec.alloc[s] = job.rec.alloc[s]
               /\ disk'.sec[l] = Patched(ZeroBlock)
               /\ \A x : x # l => disk'.sec[x] = disk.sec[x]
               /\ disk'.dir = disk.dir /\ durable' = disk /\ handle' = handle
               /\ job' = Advanced(rec) /\ mounted' = mounted /\ ret' = ret
  BY AllocatingIs
<1>3. job.pos >= SizeOf(old)
  <2>1. ~(s0 < old.count)
    BY <1>1, JobNow DEF StoreInv, JobExtends, Filled
  <2>2. job.pos \in Nat /\ old.count \in Nat
    BY <1>1, JobNow
  <2>3. ~(job.pos < old.count * SectorBytes)
    BY <2>1, <2>2, SlotBefore
  <2>4. SizeOf(old) \in Nat /\ SizeOf(old) = old.count * SectorBytes
    BY <1>1, JobInStore
  <2>5. QED
    BY <2>2, <2>3, <2>4
<1>4. ASSUME NEW e \in Entries, NEW s \in Slots, disk.dir[e].active, s < disk.dir[e].count
      PROVE  JobDir[e].alloc[s] - 1 # l
  <2>1. /\ JobDir \in Directories /\ JobDir[JobEntry] = job.rec /\ job.rec.active
        /\ (e # JobEntry => JobDir[e] = disk.dir[e]) /\ Filled(disk.dir)
    BY <1>1, JobNow DEF StoreInv
  <2>2. JobDir[e].active
    BY <1>4, <2>1
  <2>3. disk.dir[e].alloc[s] # 0
    BY <1>4, <2>1 DEF Filled
  <2>4. JobDir[e].alloc[s] = disk.dir[e].alloc[s]
    BY <1>1, <1>4, <2>1 DEF StoreInv, JobExtends
  <2>5. QED
    BY <1>2, <2>2, <2>3, <2>4 DEF SectorInUse
<1>5. Stored(disk') = Stored(disk)
  BY <1>1, <1>2, <1>4, NotYetInFile
<1>6. QED
  BY <1>1, <1>2, <1>3, <1>5, SomeInStore

\* The loop of fs_write stops short only when there is no room for one byte
\* more: every slot of the file is used, or every data sector is in a file or
\* in the file being written.
LEMMA EndHasNoRoom ==
    ASSUME StoreInv, WriteDone
    PROVE  job.total = job.len \/ ~Store!HasRoom(job.fh, job.pos + 1)
<1> DEFINE s0 == SlotOf(job.pos)
           old == disk.dir[JobEntry]
           n == old.name
<1>1. job.busy /\ (WriteMore => job.rec.alloc[s0] = 0 /\ FreeSectors(JobDir) = {})
  BY DEF WriteDone
<1>2. /\ TypeOK /\ job.pos \in Nat /\ job.total \in Nat /\ job.len \in Nat /\ old.count \in Nat
      /\ JobEntry \in Entries /\ old.active /\ job.rec.active /\ job.rec.name = n
      /\ job.rec \in EntryType /\ JobDir \in Directories /\ JobDir[JobEntry] = job.rec
      /\ \A e \in Entries : e # JobEntry => JobDir[e] = disk.dir[e]
      /\ SectorsOwnedOnce(JobDir) /\ OneEntryPerName(JobDir)
  BY <1>1, JobNow
<1>3. /\ Store!Size(job.fh) = SizeOf(old) /\ OpenFiles[job.fh].name = n
      /\ SizeOf(old) \in Nat /\ SizeOf(old) = old.count * SectorBytes
  BY <1>1, JobInStore
<1>4. /\ job.total <= job.len /\ job.pos <= SlotsPerFile * SectorBytes
      /\ \A s \in Slots : s < old.count => job.rec.alloc[s] = old.alloc[s]
      /\ \A s \in Slots : ~(s < old.count) =>
            (job.rec.alloc[s] # 0 <=> s * SectorBytes < job.pos)
  BY <1>1 DEF StoreInv, JobExtends
<1>5. /\ old.count <= SlotsPerFile /\ SlotsPerFile \in Nat /\ SectorBytes \in Nat \ {0}
      /\ \A s \in Slots : old.alloc[s] # 0 <=> s < old.count
  BY <1>2, SectorSize, FileSystemAssumption DEF StoreInv, Filled
<1>6. /\ s0 \in Nat /\ s0 * SectorBytes \in Nat /\ SlotsPerFile * SectorBytes \in Nat
      /\ job.pos % SectorBytes \in 0 .. SectorBytes - 1
      /\ job.pos = s0 * SectorBytes + (job.pos % SectorBytes)
      /\ job.pos + 1 \in Nat
  <2>1. /\ s0 \in Nat /\ job.pos % SectorBytes \in 0 .. SectorBytes - 1
        /\ job.pos = s0 * SectorBytes + (job.pos % SectorBytes)
    BY <1>2, PlaceOf
  <2> HIDE DEF s0
  <2>2. s0 * SectorBytes \in Nat /\ SlotsPerFile * SectorBytes \in Nat
    BY <1>5, <2>1, SlotStart
  <2>3. QED
    BY <1>2, <2>1, <2>2
<1>7. SUFFICES ASSUME job.total # job.len PROVE ~Store!HasRoom(job.fh, job.pos + 1)
  OBVIOUS
<1>8. job.total < job.len
  BY <1>2, <1>4, <1>7
<1>9. /\ Store!BlocksOf(job.pos + 1) \in Nat
      /\ \A s \in Nat : s < Store!BlocksOf(job.pos + 1) <=> s * SectorBytes < job.pos + 1
  BY <1>6, BlocksReach
<1>10. CASE s0 \notin Slots
  <2>1. ~(s0 < SlotsPerFile)
    BY <1>5, <1>6, <1>10 DEF Slots
  <2>2. ~(job.pos < SlotsPerFile * SectorBytes)
    BY <1>2, <1>5, <2>1, SlotBefore
  <2>3. SlotsPerFile < Store!BlocksOf(job.pos + 1)
    BY <1>2, <1>5, <1>6, <1>9, <2>2
  <2>4. ~(job.pos + 1 <= SizeOf(old))
    <3>1. old.count * SectorBytes <= SlotsPerFile * SectorBytes
      BY <1>2, <1>5, MultiplesUpTo
    <3>2. QED
      BY <1>2, <1>3, <1>6, <2>2, <3>1
  <2>5. ~(Store!BlocksOf(job.pos + 1) <= SlotsPerFile)
    BY <1>5, <1>9, <2>3
  <2> HIDE DEF s0, old, n
  <2>6. QED
    BY <1>3, <2>4, <2>5 DEF Store!HasRoom
<1>11. CASE s0 \in Slots
  <2>1. job.rec.alloc[s0] = 0 /\ FreeSectors(JobDir) = {}
    BY <1>1, <1>8, <1>11 DEF WriteMore
  <2>2. ~(s0 < old.count) /\ ~(job.pos < SizeOf(old))
    <3>1. ~(s0 < old.count)
      BY <1>4, <1>5, <1>11, <2>1
    <3>2. QED
      BY <1>2, <1>3, <3>1, SlotBefore
  <2> DEFINE rec == [job.rec EXCEPT !.alloc[s0] = 1]
             dir == [JobDir EXCEPT ![JobEntry] = rec]
  <2>3. /\ rec \in EntryType /\ rec.alloc[s0] = 1 /\ rec.active /\ rec.name = n
        /\ \A s \in Slots : s # s0 => rec.alloc[s] = job.rec.alloc[s]
    <3>1. 1 \in Allocs
      BY GeometryAssumption, FileSystemAssumption DEF Allocs
    <3>2. QED
      BY <1>2, <1>11, <3>1 DEF EntryType
  <2> HIDE DEF rec
  <2>4. /\ dir \in Directories /\ dir[JobEntry] = rec
        /\ \A e \in Entries : e # JobEntry => dir[e] = JobDir[e]
    BY <1>2, <2>3 DEF Directories
  <2> HIDE DEF dir
  <2>5. ASSUME NEW s \in Slots PROVE dir[JobEntry].alloc[s] # 0 <=> s * SectorBytes < job.pos + 1
    <3>1. s \in Nat /\ s * SectorBytes \in Nat
      BY SlotStart DEF Slots
    <3>2. CASE s = s0
      BY <1>2, <1>6, <2>3, <2>4, <3>2
    <3>3. CASE s < old.count
      <4>1. s # s0 /\ rec.alloc[s] # 0
        BY <1>4, <1>5, <2>2, <2>3, <3>3
      <4>2. s * SectorBytes <= old.count * SectorBytes
        BY <1>2, <3>1, <3>3, MultiplesUpTo
      <4>3. QED
        BY <1>2, <1>3, <2>2, <2>4, <3>1, <4>1, <4>2
    <3>4. CASE s # s0 /\ ~(s < old.count)
      <4>1. rec.alloc[s] # 0 <=> s * SectorBytes < job.pos
        BY <1>4, <2>3, <3>4
      <4>2. s * SectorBytes # job.pos
        BY <3>1, <3>4, SlotStart
      <4>3. QED
        BY <1>2, <2>4, <3>1, <4>1, <4>2
    <3>5. QED
      BY <3>2, <3>3, <3>4
  <2>6. Store!BlocksOf(job.pos + 1) <= SlotsPerFile
    <3>1. s0 + 1 <= SlotsPerFile /\ s0 + 1 \in Nat
      BY <1>5, <1>6, <1>11 DEF Slots
    <3>2. s0 * SectorBytes + SectorBytes <= SlotsPerFile * SectorBytes
      <4>1. s0 \in Nat /\ SlotsPerFile \in Nat /\ s0 < SlotsPerFile
        BY <1>5, <1>6, <3>1
      <4> HIDE DEF s0, old, n
      <4>2. QED
        BY <4>1, Multiples
    <3>3. ~(SlotsPerFile * SectorBytes < job.pos + 1)
      BY <1>2, <1>5, <1>6, <3>2
    <3>4. ~(SlotsPerFile < Store!BlocksOf(job.pos + 1))
      BY <1>5, <1>9, <3>3
    <3>5. QED
      BY <1>5, <1>9, <3>4
  <2>7. Store!InUse(n, job.pos + 1) = Taken(dir)
    <3>1. /\ dir[JobEntry].active /\ dir[JobEntry].name = disk.dir[JobEntry].name
          /\ \A e \in Entries : e # JobEntry => dir[e] = disk.dir[e]
          /\ JobEntry \in Entries /\ disk.dir[JobEntry].active
      BY <1>2, <2>3, <2>4
    <3>2. Sound(disk)
      BY StoreImages
    <3>3. Store!InUse(disk.dir[JobEntry].name, job.pos + 1) = Taken(dir)
      BY <1>6, <2>4, <2>5, <2>6, <3>1, <3>2, InUseIs
    <3>4. QED
      BY <3>3
  <2>8. Taken(dir) = Taken(JobDir) \cup {<<n, s0>>} /\ <<n, s0>> \notin Taken(JobDir)
    <3>1. ASSUME NEW m, NEW s
          PROVE  <<m, s>> \in Taken(dir) <=> <<m, s>> \in Taken(JobDir) \/ (m = n /\ s = s0)
      <4>1. <<m, s>> \in Taken(dir) <=> s \in Slots /\ \E e \in Entries :
                dir[e].active /\ dir[e].name = m /\ dir[e].alloc[s] # 0
        BY <2>4, TakenIs
      <4>2. <<m, s>> \in Taken(JobDir) <=> s \in Slots /\ \E e \in Entries :
                JobDir[e].active /\ JobDir[e].name = m /\ JobDir[e].alloc[s] # 0
        BY <1>2, TakenIs
      <4>3. ASSUME NEW e \in Entries, s \in Slots
            PROVE  /\ dir[e].active <=> JobDir[e].active
                   /\ dir[e].name = JobDir[e].name
                   /\ dir[e].alloc[s] # 0 <=> JobDir[e].alloc[s] # 0 \/ (e = JobEntry /\ s = s0)
        BY <1>2, <2>1, <2>3, <2>4, <4>3
      <4>4. JobDir[JobEntry].active /\ JobDir[JobEntry].name = n
        BY <1>2
      <4> HIDE DEF n, s0, old
      <4>5. QED
        BY <1>2, <1>11, <4>1, <4>2, <4>3, <4>4
    <3>2. <<n, s0>> \notin Taken(JobDir)
      <4>1. <<n, s0>> \in Taken(JobDir) <=> s0 \in Slots /\ \E e \in Entries :
                JobDir[e].active /\ JobDir[e].name = n /\ JobDir[e].alloc[s0] # 0
        BY <1>2, TakenIs
      <4>2. \A e \in Entries : JobDir[e].active /\ JobDir[e].name = n => e = JobEntry
        BY <1>2 DEF OneEntryPerName
      <4>3. QED
        BY <1>2, <2>1, <4>1, <4>2
    <3>3. \A p \in Taken(dir) : \E m, s : p = <<m, s>>
      BY DEF Taken
    <3>4. \A p \in Taken(JobDir) : \E m, s : p = <<m, s>>
      BY DEF Taken
    <3> HIDE DEF n, s0
    <3>5. QED
      BY <3>1, <3>2, <3>3, <3>4
  <2>9. /\ IsFiniteSet(Taken(JobDir)) /\ Cardinality(Taken(JobDir)) = TotalSectors - FirstData
    BY <1>2, <2>1, TakenFit
  <2>10. Cardinality(Taken(dir)) = TotalSectors - FirstData + 1
    BY <2>8, <2>9, FS_AddElement
  <2>11. TotalSectors - FirstData \in Int
    BY GeometryAssumption
  <2>12. ~(Store!Cardinality(Store!InUse(n, job.pos + 1)) <= TotalSectors - FirstData)
    BY <2>7, <2>10, <2>11, SameCount
  <2>13. ~(job.pos + 1 <= SizeOf(old))
    BY <1>2, <1>3, <2>2
  <2> HIDE DEF n, s0, old
  <2>14. QED
    BY <1>3, <2>12, <2>13 DEF Store!HasRoom
<1>12. QED
  BY <1>10, <1>11

\* The file after fs_write: as it was, or longer by what was written past its
\* end and zeros up to the end of the block.
LEMMA WrittenContent ==
    ASSUME StoreInv, StoreInv', WriteEnd
    PROVE  LET old == Content(disk, JobEntry)
           IN  Content(disk', JobEntry) =
                 IF job.pos <= Len(old) THEN old
                 ELSE [q \in 1 .. Store!BlocksOf(job.pos) * SectorBytes |->
                         CASE q <= Len(old) -> old[q]
                           [] Len(old) < q /\ q <= job.pos -> job.data
                           [] OTHER -> 0]
<1> DEFINE was == disk.dir[JobEntry]
           old == Content(disk, JobEntry)
           new == Content(disk', JobEntry)
           b == Store!BlocksOf(job.pos)
<1>1. /\ job.busy /\ WrittenEntry \in EntryType /\ WrittenEntry.active
      /\ WrittenEntry.alloc = job.rec.alloc
      /\ WrittenEntry.count = (IF job.pos > SizeOf(was) THEN b ELSE was.count)
      /\ \A s \in Slots : s < was.count => WrittenEntry.alloc[s] = was.alloc[s]
      /\ disk'.dir = [disk.dir EXCEPT ![JobEntry] = WrittenEntry]
      /\ disk'.sec = disk.sec
  BY WrittenIs
<1>2. /\ Sound(disk) /\ Sound(disk') /\ JobEntry \in Entries /\ was.active /\ job.pos \in Nat
      /\ was.count \in Nat /\ disk.dir \in Directories
  BY <1>1, JobNow, StoreImages, StoreImagesNext
<1>3. disk'.dir[JobEntry] = WrittenEntry
  BY <1>1, <1>2 DEF Directories
<1>4. /\ Len(old) = SizeOf(was) /\ SizeOf(was) \in Nat /\ SizeOf(was) = was.count * SectorBytes
  BY <1>1, JobInStore
<1>5. CASE job.pos <= SizeOf(was)
  <2>1. WrittenEntry.count = was.count
    BY <1>1, <1>2, <1>4, <1>5
  <2>2. disk'.dir[JobEntry].active /\ disk'.dir[JobEntry].count = disk.dir[JobEntry].count
    BY <1>1, <1>3, <2>1
  <2>3. \A s \in Slots : s < disk.dir[JobEntry].count =>
          /\ disk'.dir[JobEntry].alloc[s] = disk.dir[JobEntry].alloc[s]
          /\ disk'.sec[disk.dir[JobEntry].alloc[s] - 1] = disk.sec[disk.dir[JobEntry].alloc[s] - 1]
    BY <1>1, <1>3
  <2>4. Content(disk', JobEntry) = Content(disk, JobEntry)
    BY <1>2, <2>2, <2>3, ContentSame
  <2> HIDE DEF was
  <2>5. QED
    BY <1>4, <1>5, <2>4
<1>6. CASE ~(job.pos <= SizeOf(was))
  <2> DEFINE grown == [q \in 1 .. b * SectorBytes |->
                         CASE q <= Len(old) -> old[q]
                           [] Len(old) < q /\ q <= job.pos -> job.data
                           [] OTHER -> 0]
  <2>1. disk'.dir[JobEntry].count = b /\ disk'.dir[JobEntry].active
    BY <1>1, <1>2, <1>3, <1>4, <1>6
  <2>2. SizeOf(disk'.dir[JobEntry]) = b * SectorBytes
    BY <2>1 DEF SizeOf
  <2>3. new = [q \in 1 .. b * SectorBytes |-> new[q]]
    <3>1. new = [q \in 1 .. SizeOf(disk'.dir[JobEntry]) |-> new[q]]
      BY DEF Content
    <3> HIDE DEF new, b
    <3>2. QED
      BY <2>2, <3>1
  <2>4. \A s \in Slots : ~(s < was.count) /\ job.rec.alloc[s] # 0 =>
           \A i \in 0 .. SectorBytes - 1 :
              disk.sec[job.rec.alloc[s] - 1][i] =
                 IF s * SectorBytes + i < job.pos THEN job.data ELSE 0
    BY <1>1 DEF StoreInv, JobExtends
  <2>5. ASSUME NEW q \in 1 .. b * SectorBytes PROVE new[q] = grown[q]
    <3> DEFINE t == SlotOf(q - 1)
               i == (q - 1) % SectorBytes
    <3>1. /\ q - 1 \in Nat /\ t \in Slots /\ i \in 0 .. SectorBytes - 1
          /\ WrittenEntry.alloc[t] # 0
          /\ new[q] = disk.sec[WrittenEntry.alloc[t] - 1][i]
      <4>1. q \in 1 .. SizeOf(disk'.dir[JobEntry])
        BY <2>2
      <4>2. /\ q - 1 \in Nat /\ t \in Slots /\ i \in 0 .. SectorBytes - 1
            /\ disk'.dir[JobEntry].alloc[t] # 0
            /\ new[q] = disk'.sec[disk'.dir[JobEntry].alloc[t] - 1][i]
        BY <1>2, <2>1, <4>1, ByteOfFile
      <4> HIDE DEF t, i, new
      <4>3. QED
        BY <1>1, <1>3, <4>2
    <3>2. t \in Nat /\ q - 1 = t * SectorBytes + i /\ q \in Nat
      BY <3>1, PlaceOf
    <3>3. q <= SizeOf(was) <=> t < was.count
      <4>1. q - 1 < was.count * SectorBytes <=> t < was.count
        BY <1>2, <3>1, SlotBefore
      <4> HIDE DEF t
      <4>2. QED
        BY <1>4, <3>2, <4>1
    <3>4. grown[q] = CASE q <= Len(old) -> old[q]
                       [] Len(old) < q /\ q <= job.pos -> job.data
                       [] OTHER -> 0
      OBVIOUS
    <3>5. CASE t < was.count
      <4>1. q \in 1 .. SizeOf(was)
        BY <1>4, <3>2, <3>3, <3>5
      <4>2. old[q] = disk.sec[was.alloc[t] - 1][i]
        BY <1>2, <4>1, ByteOfFile
      <4>3. WrittenEntry.alloc[t] = was.alloc[t]
        BY <1>1, <3>1, <3>5
      <4> HIDE DEF t, i, new, old, was, grown
      <4>4. grown[q] = old[q]
        BY <1>4, <3>2, <3>3, <3>4, <3>5
      <4>5. QED
        BY <3>1, <4>2, <4>3, <4>4
    <3>6. CASE ~(t < was.count)
      <4>1. new[q] = IF t * SectorBytes + i < job.pos THEN job.data ELSE 0
        BY <1>1, <2>4, <3>1, <3>6
      <4>2. t * SectorBytes + i < job.pos <=> q <= job.pos
        <5> HIDE DEF t, i
        <5>1. QED
          BY <1>2, <3>1, <3>2
      <4> HIDE DEF t, i, new, old, was, grown
      <4>3. QED
        BY <1>2, <1>4, <3>2, <3>3, <3>4, <3>6, <4>1, <4>2
    <3>7. QED
      BY <3>5, <3>6
  <2>6. grown = [q \in 1 .. b * SectorBytes |-> grown[q]]
    OBVIOUS
  <2>7. new = grown
    <3> HIDE DEF new, grown, b
    <3>1. QED
      BY <2>3, <2>5, <2>6
  <2>8. ~(job.pos <= Len(old))
    BY <1>4, <1>6
  <2>9. QED
    BY <2>7, <2>8
<1>7. QED
  BY <1>5, <1>6

LEMMA EndInStore ==
    ASSUME StoreInv, StoreInv', WriteEnd
    PROVE  Store!Next
<1> DEFINE n == disk.dir[JobEntry].name
           old == Content(disk, JobEntry)
           new == Content(disk', JobEntry)
<1>1. /\ job.busy /\ WrittenEntry.active /\ WrittenEntry.name = n
      /\ disk'.dir = [disk.dir EXCEPT ![JobEntry] = WrittenEntry]
      /\ disk'.sec = disk.sec /\ durable' = disk
  BY WrittenIs
<1>2. /\ TypeOK /\ Sound(disk) /\ Sound(disk') /\ JobEntry \in Entries
      /\ disk.dir[JobEntry].active /\ job.fh \in Handles /\ disk.dir \in Directories
  BY <1>1, JobNow, StoreImages, StoreImagesNext
<1>3. /\ disk'.dir[JobEntry] = WrittenEntry
      /\ \A e \in Entries : e # JobEntry => disk'.dir[e] = disk.dir[e]
  BY <1>1, <1>2 DEF Directories
<1>4. /\ \A e \in Entries : disk'.dir[e].active <=> disk.dir[e].active
      /\ \A e \in Entries : disk'.dir[e].name = disk.dir[e].name
  BY <1>1, <1>2, <1>3
<1>5. Stored(disk') = [Stored(disk) EXCEPT ![n] = new]
  <2>1. ASSUME NEW e \in Entries, disk.dir[e].active, e # JobEntry
        PROVE  Content(disk', e) = Content(disk, e)
    <3>1. disk'.dir[e] = disk.dir[e]
      BY <1>3, <2>1
    <3>2. /\ disk'.dir[e].active /\ disk'.dir[e].count = disk.dir[e].count
          /\ \A s \in Slots : s < disk.dir[e].count =>
                /\ disk'.dir[e].alloc[s] = disk.dir[e].alloc[s]
                /\ disk'.sec[disk.dir[e].alloc[s] - 1] = disk.sec[disk.dir[e].alloc[s] - 1]
      BY <1>1, <2>1, <3>1
    <3>3. Sound(disk) /\ Sound(disk')
      BY <1>2
    <3>4. QED
      BY <2>1, <3>2, <3>3, ContentSame
  <2>2. QED
    BY <1>2, <1>4, <2>1, FileChanged
<1>6. /\ n \in DOMAIN Stored(disk) /\ Stored(disk)[n] = old
      /\ OpenFiles[job.fh].name = n
  BY <1>1, JobInStore
<1>7. Stored(disk') = [Stored(disk) EXCEPT ![n] =
                    IF job.pos <= Len(@) THEN @
                    ELSE [q \in 1 .. Store!BlocksOf(job.pos) * SectorBytes |->
                            CASE q <= Len(@) -> @[q]
                              [] Len(@) < q /\ q <= job.pos -> job.data
                              [] OTHER -> 0]]
  BY <1>5, <1>6, WrittenContent
<1>8. /\ handle' = [handle EXCEPT ![job.fh].pos = job.pos] /\ job' = NoJob
      /\ ret'.rc = job.total /\ mounted' = mounted /\ WriteDone
  BY DEF WriteEnd, WriteReturns
<1>9. OpenFiles' = [OpenFiles EXCEPT ![job.fh].pos = job.pos]
  <2>1. handle[job.fh].used
    BY <1>1 DEF StoreInv, JobExtends
  <2>2. \A x \in Handles : handle[x].entry \in Entries
    BY <1>2 DEF TypeOK, HandleType
  <2>3. QED
    BY <1>2, <1>4, <1>8, <2>1, <2>2, HandleMoved
<1>10. JobWriting' = Store!NoWrite
  BY <1>8 DEF JobWriting, Store!NoWrite, NoJob
<1>11. /\ JobWriting.busy /\ JobWriting.len = job.len /\ JobWriting.done = job.total
       /\ JobWriting.pos = job.pos /\ JobWriting.fh = job.fh /\ JobWriting.byte = job.data
  BY <1>1 DEF JobWriting
<1>12. job.total = job.len \/ ~Store!HasRoom(job.fh, job.pos + 1)
  BY <1>8, EndHasNoRoom
<1> HIDE DEF n, old, new
<1>13. Store!WriteEnd
  <2>1. /\ JobWriting.busy
        /\ JobWriting.done = JobWriting.len
             \/ ~Store!HasRoom(JobWriting.fh, JobWriting.pos + 1)
    BY <1>11, <1>12
  <2>2. Stored(disk') = [Stored(disk) EXCEPT ![OpenFiles[JobWriting.fh].name] =
                    IF JobWriting.pos <= Len(@) THEN @
                    ELSE [q \in 1 .. Store!BlocksOf(JobWriting.pos) * SectorBytes |->
                            CASE q <= Len(@) -> @[q]
                              [] Len(@) < q /\ q <= JobWriting.pos -> JobWriting.byte
                              [] OTHER -> 0]]
    <3> DEFINE Ended(x, at, b) ==
                 [Stored(disk) EXCEPT ![x] =
                    IF at <= Len(@) THEN @
                    ELSE [q \in 1 .. Store!BlocksOf(at) * SectorBytes |->
                            CASE q <= Len(@) -> @[q]
                              [] Len(@) < q /\ q <= at -> b
                              [] OTHER -> 0]]
    <3>1. Stored(disk') = Ended(n, job.pos, job.data)
      BY <1>7
    <3>2. /\ OpenFiles[JobWriting.fh].name = n
          /\ JobWriting.pos = job.pos /\ JobWriting.byte = job.data
      BY <1>6, <1>11
    <3> HIDE DEF Ended
    <3>3. Stored(disk') = Ended(OpenFiles[JobWriting.fh].name, JobWriting.pos, JobWriting.byte)
      BY <3>1, <3>2
    <3>4. QED
      BY <3>3 DEF Ended
  <2>3. OpenFiles' = [OpenFiles EXCEPT ![JobWriting.fh].pos = JobWriting.pos]
    BY <1>9, <1>11
  <2>4. /\ ret'.rc = JobWriting.done /\ JobWriting' = Store!NoWrite
        /\ mounted' = mounted /\ Stored(durable)' = Stored(disk)
    BY <1>1, <1>8, <1>10, <1>11
  <2>5. QED
    BY <2>1, <2>2, <2>3, <2>4 DEF Store!WriteEnd, Store!Lasts
<1>14. QED
  BY <1>13 DEF Store!Next

-----------------------------------------------------------------------------
(* The file system implements the store.                                   *)

LEMMA StoreInit == Init => Store!Init
<1> SUFFICES ASSUME Init PROVE Store!Init
  OBVIOUS
<1>1. Stored(FormattedImage) = <<>>
  <2>1. {e \in Entries : FormattedImage.dir[e].active} = {}
    BY DEF FormattedImage, FreeEntry
  <2>2. QED
    BY <2>1 DEF Stored
<1>2. OpenFiles = <<>>
  <2>1. {x \in Handles : handle[x].used} = {}
    BY DEF Init, ClosedHandle
  <2>2. QED
    BY <2>1 DEF OpenFiles
<1>3. JobWriting = Store!NoWrite
  BY DEF Init, JobWriting, Store!NoWrite, NoJob
<1>4. QED
  BY <1>1, <1>2, <1>3 DEF Init, Store!Init, Result

LEMMA StoreNext ==
    ASSUME IOErrors = FALSE, InReach, StoreInv, StoreInv', [Next]_vars
    PROVE  [Store!Next]_(Store!storeVars)
<1>1. ASSUME NEW sp \in Spellings, Open(sp) \/ Create(sp) \/ Delete(sp) \/ Exists(sp)
      PROVE  Store!Next
  BY <1>1, OpenInStore, CreateInStore, DeleteInStore, ExistsInStore
<1>2. CASE List
  BY <1>2, ListInStore
<1>3. ASSUME NEW fh, Close(fh) PROVE Store!Next
  BY <1>3, CloseInStore
<1>4. ASSUME NEW fh, NEW len \in Lengths, Read(fh, len) \/ WriteRefused(fh, len)
      PROVE  Store!Next
  BY <1>4, ReadInStore, RestInStore
<1>5. ASSUME NEW fh, NEW len \in Lengths, NEW byte \in Payloads, WriteBegin(fh, len, byte)
      PROVE  Store!Next
  BY <1>5, BeginInStore
<1>6. CASE WriteInPlace \/ WriteAllocating \/ WriteEnd
  BY <1>6, InPlaceInStore, AllocatingInStore, EndInStore
<1>7. CASE WriteSectorFails \/ WriteEndFails
  BY <1>7 DEF WriteSectorFails, WriteEndFails, HostFails
<1>8. ASSUME NEW track, NEW sector, ReadSector(track, sector) PROVE Store!Next
  BY <1>8, RestInStore
<1>9. ASSUME NEW track, NEW sector, NEW byte \in Payloads, WriteSector(track, sector, byte)
      PROVE  Store!Next
  BY <1>9, SectorInStore
<1>10. CASE Flush \/ FsInitRefused \/ FsInit \/ Crash \/ Exit
  BY <1>10, RestInStore
<1>11. CASE UNCHANGED vars
  BY <1>11 DEF vars, Store!storeVars, OpenFiles, JobWriting
<1>12. QED
  BY <1>1, <1>2, <1>3, <1>4, <1>5, <1>6, <1>7, <1>8, <1>9, <1>10, <1>11 DEF Next

\* On a host that does not fail, and as long as no write has to take a sector
\* whose allocation byte wraps, every behaviour of the file system is one of the
\* store of files by name, whatever the geometry, the directory and the handle table: each
\* call, and each sector of a write, does to the files, the handles and what a
\* kill leaves just what the store says.
THEOREM StoreImplemented ==
    ASSUME IOErrors = FALSE
    PROVE  Spec /\ []InReach => ImplementsStore
<1>1. StoreInv /\ InReach /\ [Next]_vars => StoreInv'
  BY StoreStep, NextOperates
<1>2. StoreInv /\ StoreInv' /\ InReach /\ [Next]_vars => [Store!Next]_(Store!storeVars)
  BY StoreNext
<1>3. QED
  BY <1>1, <1>2, StoreStart, StoreInit, PTL DEF Spec, ImplementsStore, Store!Spec
=============================================================================
