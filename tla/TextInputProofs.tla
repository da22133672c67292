-------------------------- MODULE TextInputProofs --------------------------
(***************************************************************************)
(* Proofs about the way of a text into a parser (TextInput).               *)
(*                                                                         *)
(* FileInput: every region of memory has one owner, and what an open       *)
(* reader shows is what it loaded, for any number of readers, files and    *)
(* regions, and any order of calls and of writes to the files.             *)
(*                                                                         *)
(* LineTracker: the place that is counted block by block is the one that   *)
(* all characters together determine, for blocks of any size and calls of  *)
(* any length.                                                             *)
(*                                                                         *)
(* TextInput: the characters that reach a parser are those that the source *)
(* encodes, validation refuses the first ill-formed place and no other,    *)
(* line ends are normalised without losing a line, and an error shows the  *)
(* text around the place it names.                                         *)
(***************************************************************************)
EXTENDS TextInput, RecursionProofs, FiniteSetTheorems, FunctionTheorems

-----------------------------------------------------------------------------
(* Readers and their memory                                                *)

Addresses == Regions \cup {None}

ReaderType ==
  [data : Addresses, size : Nat, is_mmap : BOOLEAN, is_open : BOOLEAN, buffer : Addresses]

\* The members of a reader agree with each other and with the memory m.
Sound(x, m) ==
  /\ x \in ReaderType /\ Owned(x) \subseteq DOMAIN m
  /\ x.is_mmap => x.data # None /\ x.buffer = None /\ m[x.data].kind = "map" /\ m[x.data].size = x.size
                /\ m[x.data].of \in Files
  /\ x.buffer # None => m[x.buffer].kind = "heap"
  /\ x.data # None => x.data \in Owned(x)
  /\ x.data # None /\ ~x.is_mmap => x.size = Len(m[x.data].bytes)
  /\ x.is_open /\ x.data = None => x.size = 0

Alone(rs) == \A r, s \in Readers : r # s => Owned(rs[r]) \cap Owned(rs[s]) = {}

Memory(rs, m) ==
  /\ \A r \in Readers : Sound(rs[r], m)
  /\ Alone(rs)
  /\ \A p \in DOMAIN m : \E r \in Readers : p \in Owned(rs[r])

\* What a reader with the members x shows.
Shown(x, m, d) ==
  CASE x.data = None -> <<>>
    [] x.data # None /\ m[x.data].kind = "map" -> SubSeq(d[m[x.data].of], 1, x.size)
    [] OTHER -> SubSeq(m[x.data].bytes, 1, x.size)

Expectation == [known : BOOLEAN, bytes : Seq(0 .. 255)]

AsExpected(x, m, d, v) == x.is_open /\ v.known => Shown(x, m, d) = v.bytes

Content(rs, m, d, e) == \A r \in Readers : AsExpected(rs[r], m, d, e[r])

\* A call c of open() on a reader with the members x, of which v is expected.
Opening(c, x, m, d, v) ==
  /\ c = [reader |-> c.reader, file |-> c.file, at |-> c.at]
  /\ c.file \in Files /\ c.at \in {"stat", "read", "map"}
  /\ x.data = None /\ ~x.is_mmap /\ ~x.is_open
  /\ x.buffer # None <=> c.at = "read"
  /\ c.at = "read" => m[x.buffer].bytes \in Seq(0 .. 255)
  /\ v.known => /\ v.bytes = d[c.file]
                /\ c.at # "stat" => x.size = Len(d[c.file])
                /\ c.at = "read" => LET got == m[x.buffer].bytes IN
                     Len(got) <= Len(d[c.file]) /\ got = SubSeq(d[c.file], 1, Len(got))

FilesInv ==
  /\ alive \subseteq Readers /\ readers \in [Readers -> ReaderType]
  /\ disk \in [Files -> Contents] /\ expect \in [Readers -> Expectation]
  /\ Memory(readers, mem)
  /\ \A r \in Readers \ alive : readers[r] = Closed
  /\ Content(readers, mem, disk, expect)
  /\ call = NoOpen \/ (/\ call.reader \in alive
                       /\ Opening(call, readers[call.reader], mem, disk, expect[call.reader]))

-----------------------------------------------------------------------------
(* The members, one assignment each                                        *)

LEMMA ClosedType == Closed \in ReaderType /\ Owned(Closed) = {}
<1>1. None \in Addresses
  BY DEF Addresses
<1> QED  BY <1>1 DEF Closed, ReaderType, Owned

LEMMA SizedIs ==
  ASSUME NEW x \in ReaderType, NEW n \in Nat
  PROVE  LET y == Sized(x, n) IN
         /\ y \in ReaderType /\ y.size = n /\ y.data = x.data /\ y.buffer = x.buffer
         /\ y.is_mmap = x.is_mmap /\ y.is_open = x.is_open
  BY DEF Sized, ReaderType

LEMMA ShowingIs ==
  ASSUME NEW x \in ReaderType, NEW p \in Addresses
  PROVE  LET y == Showing(x, p) IN
         /\ y \in ReaderType /\ y.data = p /\ y.size = x.size /\ y.buffer = x.buffer
         /\ y.is_mmap = x.is_mmap /\ y.is_open = x.is_open
  BY DEF Showing, ReaderType

LEMMA BufferedIs ==
  ASSUME NEW x \in ReaderType, NEW p \in Addresses
  PROVE  LET y == Buffered(x, p) IN
         /\ y \in ReaderType /\ y.buffer = p /\ y.size = x.size /\ y.data = x.data
         /\ y.is_mmap = x.is_mmap /\ y.is_open = x.is_open
  BY DEF Buffered, ReaderType

LEMMA MappedIs ==
  ASSUME NEW x \in ReaderType
  PROVE  LET y == Mapped(x) IN
         /\ y \in ReaderType /\ y.is_mmap = TRUE /\ y.size = x.size /\ y.data = x.data
         /\ y.buffer = x.buffer /\ y.is_open = x.is_open
  BY DEF Mapped, ReaderType

LEMMA OpenedIs ==
  ASSUME NEW x \in ReaderType
  PROVE  LET y == Opened(x) IN
         /\ y \in ReaderType /\ y.is_open = TRUE /\ y.size = x.size /\ y.data = x.data
         /\ y.buffer = x.buffer /\ y.is_mmap = x.is_mmap
  BY DEF Opened, ReaderType

-----------------------------------------------------------------------------
(* One reader changes                                                      *)

\* What another reader owns is untouched.
LEMMA SoundKept ==
  ASSUME NEW x, NEW m, NEW k, Sound(x, m),
         \A p \in Owned(x) : p \in DOMAIN k /\ k[p] = m[p]
  PROVE  Sound(x, k)
<1>1. x.is_mmap => x.data \in Owned(x)
  BY DEF Sound, Owned
<1>2. x.buffer # None => x.buffer \in Owned(x)
  BY DEF Owned
<1> QED  BY <1>1, <1>2 DEF Sound

\* Reader r becomes x, the memory m becomes k: what r owned goes, unless x owns
\* it, and what comes is x's.
LEMMA OneReplaced ==
  ASSUME NEW rs \in [Readers -> ReaderType], NEW m, Memory(rs, m),
         NEW r \in Readers, NEW x, NEW k, Sound(x, k),
         \A p \in DOMAIN m \ Owned(rs[r]) : p \in DOMAIN k /\ k[p] = m[p],
         \A p \in DOMAIN k : p \in DOMAIN m \ Owned(rs[r]) \/ p \in Owned(x),
         Owned(x) \cap (DOMAIN m \ Owned(rs[r])) = {}
  PROVE  /\ [rs EXCEPT ![r] = x] \in [Readers -> ReaderType]
         /\ Memory([rs EXCEPT ![r] = x], k)
<1> DEFINE qs == [rs EXCEPT ![r] = x]
<1>1. qs[r] = x /\ \A s \in Readers : s # r => qs[s] = rs[s]
  OBVIOUS
<1>2. qs \in [Readers -> ReaderType]
  BY DEF Sound
<1> HIDE DEF qs
<1>3. ASSUME NEW s \in Readers, s # r
      PROVE  Owned(rs[s]) \subseteq DOMAIN m \ Owned(rs[r])
  BY <1>3 DEF Memory, Alone, Sound
<1>4. ASSUME NEW s \in Readers PROVE Sound(qs[s], k)
  <2>1. CASE s = r
    BY <2>1, <1>1
  <2>2. CASE s # r
    <3>1. Sound(rs[s], m)
      BY DEF Memory
    <3> QED  BY <2>2, <3>1, <1>1, <1>3, SoundKept
  <2> QED  BY <2>1, <2>2
<1>5. Alone(qs)
  <2> SUFFICES ASSUME NEW s \in Readers, NEW t \in Readers, s # t
               PROVE  Owned(qs[s]) \cap Owned(qs[t]) = {}
    BY DEF Alone
  <2>1. CASE s = r
    BY <2>1, <1>1, <1>3
  <2>2. CASE t = r
    BY <2>2, <1>1, <1>3
  <2>3. CASE s # r /\ t # r
    BY <2>3, <1>1 DEF Memory, Alone
  <2> QED  BY <2>1, <2>2, <2>3
<1>6. ASSUME NEW p \in DOMAIN k PROVE \E s \in Readers : p \in Owned(qs[s])
  <2>1. CASE p \in Owned(x)
    BY <2>1, <1>1
  <2>2. CASE p \in DOMAIN m \ Owned(rs[r])
    <3>1. PICK s \in Readers : p \in Owned(rs[s])
      BY <2>2 DEF Memory
    <3> QED  BY <2>2, <3>1, <1>1
  <2> QED  BY <2>1, <2>2
<1>7. Memory(qs, k)
  BY <1>4, <1>5, <1>6 DEF Memory
<1> QED  BY <1>2, <1>7 DEF qs

\* The memory without some regions.
LEMMA WithoutIs ==
  ASSUME NEW gone
  PROVE  /\ DOMAIN Without(gone) = DOMAIN mem \ gone
         /\ \A p \in DOMAIN mem \ gone : Without(gone)[p] = mem[p]
  BY DEF Without

\* r is closed (close()).
LEMMA OneClosed ==
  ASSUME NEW rs \in [Readers -> ReaderType], Memory(rs, mem), NEW r \in Readers
  PROVE  /\ [rs EXCEPT ![r] = Closed] \in [Readers -> ReaderType]
         /\ Memory([rs EXCEPT ![r] = Closed], Without(Owned(rs[r])))
<1> DEFINE k == Without(Owned(rs[r]))
<1>1. DOMAIN k = DOMAIN mem \ Owned(rs[r]) /\ \A p \in DOMAIN mem \ Owned(rs[r]) : k[p] = mem[p]
  BY WithoutIs
<1>2. Sound(Closed, k)
  BY ClosedType DEF Sound, Closed
<1> HIDE DEF k
<1>3. /\ [rs EXCEPT ![r] = Closed] \in [Readers -> ReaderType]
      /\ Memory([rs EXCEPT ![r] = Closed], k)
  <2>1. \A p \in DOMAIN mem \ Owned(rs[r]) : p \in DOMAIN k /\ k[p] = mem[p]
    BY <1>1
  <2>2. \A p \in DOMAIN k : p \in DOMAIN mem \ Owned(rs[r]) \/ p \in Owned(Closed)
    BY <1>1
  <2>3. Owned(Closed) \cap (DOMAIN mem \ Owned(rs[r])) = {}
    BY ClosedType
  <2> QED  BY <2>1, <2>2, <2>3, <1>2, OneReplaced
<1> QED  BY <1>3 DEF k

\* What another reader shows is what it was.
LEMMA ShownKept ==
  ASSUME NEW x, NEW m, NEW k, NEW d, NEW v, Sound(x, m), AsExpected(x, m, d, v),
         \A p \in Owned(x) : p \in DOMAIN k /\ k[p] = m[p]
  PROVE  AsExpected(x, k, d, v)
<1>1. CASE x.data = None
  BY <1>1 DEF AsExpected, Shown
<1>2. CASE x.data # None
  <2>1. k[x.data] = m[x.data]
    BY <1>2 DEF Sound
  <2> QED  BY <1>2, <2>1 DEF AsExpected, Shown
<1> QED  BY <1>1, <1>2

LEMMA OneShown ==
  ASSUME NEW rs \in [Readers -> ReaderType], NEW m, Memory(rs, m), NEW d,
         NEW e \in [Readers -> Expectation], Content(rs, m, d, e),
         NEW r \in Readers, NEW x, NEW k, NEW v, AsExpected(x, k, d, v),
         \A p \in DOMAIN m \ Owned(rs[r]) : p \in DOMAIN k /\ k[p] = m[p]
  PROVE  Content([rs EXCEPT ![r] = x], k, d, [e EXCEPT ![r] = v])
<1> DEFINE qs == [rs EXCEPT ![r] = x]
           w == [e EXCEPT ![r] = v]
<1>1. /\ qs[r] = x /\ \A s \in Readers : s # r => qs[s] = rs[s]
      /\ w[r] = v /\ \A s \in Readers : s # r => w[s] = e[s]
  OBVIOUS
<1> HIDE DEF qs, w
<1>2. ASSUME NEW s \in Readers PROVE AsExpected(qs[s], k, d, w[s])
  <2>1. CASE s = r
    BY <2>1, <1>1
  <2>2. CASE s # r
    <3>1. Owned(rs[s]) \subseteq DOMAIN m \ Owned(rs[r])
      BY <2>2 DEF Memory, Alone, Sound
    <3>2. Sound(rs[s], m) /\ AsExpected(rs[s], m, d, e[s])
      BY DEF Memory, Content
    <3>3. AsExpected(rs[s], k, d, e[s])
      BY <3>1, <3>2, ShownKept
    <3> QED  BY <2>2, <3>3, <1>1
  <2> QED  BY <2>1, <2>2
<1>3. Content(qs, k, d, w)
  BY <1>2 DEF Content
<1> QED  BY <1>3 DEF qs, w

\* What one reader owns and shows passes to another that has nothing.
LEMMA OneMoved ==
  ASSUME NEW rs \in [Readers -> ReaderType], NEW m, Memory(rs, m), NEW d,
         NEW e \in [Readers -> Expectation], Content(rs, m, d, e),
         NEW to \in Readers, NEW from \in Readers, to # from, rs[to] = Closed
  PROVE  LET qs == [rs EXCEPT ![to] = rs[from], ![from] = Closed]
             w  == [e EXCEPT ![to] = e[from], ![from] = Unsure]
         IN  qs \in [Readers -> ReaderType] /\ Memory(qs, m) /\ Content(qs, m, d, w)
<1> DEFINE qs == [rs EXCEPT ![to] = rs[from], ![from] = Closed]
           w  == [e EXCEPT ![to] = e[from], ![from] = Unsure]
<1>1. /\ qs[to] = rs[from] /\ qs[from] = Closed /\ \A s \in Readers \ {to, from} : qs[s] = rs[s]
      /\ w[to] = e[from] /\ w[from] = Unsure /\ \A s \in Readers \ {to, from} : w[s] = e[s]
  OBVIOUS
<1>2. qs \in [Readers -> ReaderType]
  BY ClosedType
<1> HIDE DEF qs, w
<1>3. Sound(Closed, m)
  BY ClosedType DEF Sound, Closed
<1>4. ASSUME NEW s \in Readers PROVE Sound(qs[s], m)
  <2>1. CASE s = from
    BY <2>1, <1>1, <1>3
  <2>2. CASE s # from
    BY <2>2, <1>1 DEF Memory
  <2> QED  BY <2>1, <2>2
<1>5. Alone(qs)
  <2> SUFFICES ASSUME NEW s \in Readers, NEW t \in Readers, s # t
               PROVE  Owned(qs[s]) \cap Owned(qs[t]) = {}
    BY DEF Alone
  <2>1. CASE s = from \/ t = from
    BY <2>1, <1>1, ClosedType
  <2>2. CASE s # from /\ t # from
    BY <2>2, <1>1 DEF Memory, Alone
  <2> QED  BY <2>1, <2>2
<1>6. ASSUME NEW p \in DOMAIN m PROVE \E s \in Readers : p \in Owned(qs[s])
  <2>1. PICK s \in Readers : p \in Owned(rs[s])
    BY DEF Memory
  <2>2. s # to
    BY <2>1, ClosedType
  <2>3. CASE s = from
    BY <2>1, <2>3, <1>1
  <2>4. CASE s # from
    BY <2>1, <2>2, <2>4, <1>1
  <2> QED  BY <2>3, <2>4
<1>7. ASSUME NEW s \in Readers PROVE AsExpected(qs[s], m, d, w[s])
  <2>1. CASE s = from
    BY <2>1, <1>1 DEF AsExpected, Closed
  <2>2. CASE s # from
    BY <2>2, <1>1 DEF Content
  <2> QED  BY <2>1, <2>2
<1> QED  BY <1>2, <1>4, <1>5, <1>6, <1>7 DEF Memory, Content, qs, w

-----------------------------------------------------------------------------
(* The invariant                                                           *)

LEMMA FilesInvInit == FilesInit => FilesInv
<1> SUFFICES ASSUME FilesInit PROVE FilesInv
  OBVIOUS
<1>1. /\ disk \in [Files -> Contents] /\ alive = {} /\ readers = [r \in Readers |-> Closed]
      /\ mem = <<>> /\ call = NoOpen /\ expect = [r \in Readers |-> Unsure]
  BY DEF FilesInit
<1>2. readers \in [Readers -> ReaderType] /\ \A r \in Readers : readers[r] = Closed
  BY <1>1, ClosedType
<1>3. Unsure \in Expectation
  <2>1. <<>> \in Seq(0 .. 255)
    OBVIOUS
  <2> QED  BY <2>1 DEF Unsure, Expectation
<1>4. expect \in [Readers -> Expectation]
  BY <1>1, <1>3
<1>5. Memory(readers, mem)
  <2>1. DOMAIN mem = {}
    BY <1>1
  <2>2. Sound(Closed, mem)
    BY ClosedType DEF Sound, Closed
  <2> QED  BY <1>2, <2>1, <2>2, ClosedType DEF Memory, Alone
<1>6. Content(readers, mem, disk, expect)
  BY <1>2 DEF Content, AsExpected, Closed
<1> QED  BY <1>1, <1>2, <1>4, <1>5, <1>6 DEF FilesInv

LEMMA Expectations ==
  ASSUME NEW bytes \in Seq(0 .. 255)
  PROVE  Unsure \in Expectation /\ Sure(bytes) \in Expectation /\ ~Unsure.known
<1>1. <<>> \in Seq(0 .. 255)
  OBVIOUS
<1> QED  BY <1>1 DEF Unsure, Sure, Expectation

\* What the invariant says while no call of open() is under way.
LEMMA Idle ==
  ASSUME FilesInv
  PROVE  /\ alive \subseteq Readers /\ readers \in [Readers -> ReaderType]
         /\ disk \in [Files -> Contents] /\ expect \in [Readers -> Expectation]
         /\ Memory(readers, mem) /\ Content(readers, mem, disk, expect)
         /\ \A r \in Readers \ alive : readers[r] = Closed
         /\ \A f \in Files : disk[f] \in Seq(0 .. 255)
<1>1. /\ alive \subseteq Readers /\ readers \in [Readers -> ReaderType]
      /\ disk \in [Files -> Contents] /\ expect \in [Readers -> Expectation]
      /\ Memory(readers, mem) /\ Content(readers, mem, disk, expect)
      /\ \A r \in Readers \ alive : readers[r] = Closed
  BY DEF FilesInv
<1>2. \A f \in Files : disk[f] \in Seq(0 .. 255)
  BY <1>1, FilesAssumption
<1> QED  BY <1>1, <1>2

\* Closing a reader, of whose content nothing is expected then.
LEMMA ClosedKeeps ==
  ASSUME FilesInv, NEW r \in Readers, NEW v \in Expectation,
         readers' = [readers EXCEPT ![r] = Closed], mem' = Without(Owned(readers[r])),
         expect' = [expect EXCEPT ![r] = v], disk' = disk
  PROVE  /\ readers' \in [Readers -> ReaderType] /\ expect' \in [Readers -> Expectation]
         /\ Memory(readers', mem') /\ Content(readers', mem', disk', expect')
         /\ \A s \in Readers : readers[s] = Closed => readers'[s] = Closed
<1>1. readers' \in [Readers -> ReaderType] /\ Memory(readers', mem')
  BY Idle, OneClosed
<1>2. AsExpected(Closed, mem', disk, v)
  BY DEF AsExpected, Closed
<1>3. \A p \in DOMAIN mem \ Owned(readers[r]) : p \in DOMAIN mem' /\ mem'[p] = mem[p]
  BY WithoutIs
<1>4. Content(readers', mem', disk, expect')
  BY <1>2, <1>3, Idle, OneShown
<1> QED  BY <1>1, <1>4, Idle

LEMMA OpenKeeps ==
  ASSUME FilesInv, NEW r \in Readers, NEW f \in Files, Open(r, f)
  PROVE  FilesInv'
<1>1. /\ call = NoOpen /\ r \in alive /\ disk' = disk /\ alive' = alive
      /\ readers' = [readers EXCEPT ![r] = Closed] /\ mem' = Without(Owned(readers[r]))
      /\ call' = [reader |-> r, file |-> f, at |-> "stat"] \/ call' = call
  BY DEF Open, Free
<1> DEFINE v == IF call' = NoOpen THEN Unsure ELSE Sure(disk[f])
<1>2. expect' = [expect EXCEPT ![r] = v] /\ v \in Expectation
  <2>1. disk[f] \in Seq(0 .. 255)
    BY Idle
  <2> QED  BY <2>1, Expectations DEF Open
<1>3. /\ readers' \in [Readers -> ReaderType] /\ expect' \in [Readers -> Expectation]
      /\ Memory(readers', mem') /\ Content(readers', mem', disk', expect')
      /\ \A s \in Readers : readers[s] = Closed => readers'[s] = Closed
  <2> HIDE DEF v
  <2> QED  BY <1>1, <1>2, ClosedKeeps
<1>4. ASSUME call' # NoOpen
      PROVE  call'.reader \in alive' /\ Opening(call', readers'[call'.reader], mem', disk', expect'[call'.reader])
  <2>1. call' = [reader |-> r, file |-> f, at |-> "stat"]
    BY <1>1, <1>4
  <2>2. readers'[r] = Closed /\ expect'[r] = Sure(disk[f])
    BY <1>1, <1>2, <1>4, Idle
  <2>3. call'.reader = r /\ call'.file = f /\ call'.at = "stat"
    BY <2>1
  <2>4. Opening(call', Closed, mem', disk, Sure(disk[f]))
    <3>1. /\ Closed.data = None /\ Closed.is_mmap = FALSE /\ Closed.is_open = FALSE /\ Closed.buffer = None
          /\ Sure(disk[f]).bytes = disk[f]
      BY DEF Closed, Sure
    <3> QED  BY <2>1, <2>3, <3>1 DEF Opening
  <2> QED  BY <2>2, <2>3, <2>4, <1>1
<1> QED  BY <1>1, <1>3, <1>4, Idle DEF FilesInv

LEMMA CloseKeeps ==
  ASSUME FilesInv, NEW r \in Readers, Close(r) \/ Destroy(r)
  PROVE  FilesInv'
<1>1. /\ call = NoOpen /\ call' = call /\ disk' = disk /\ alive' \in {alive, alive \ {r}}
      /\ readers' = [readers EXCEPT ![r] = Closed] /\ mem' = Without(Owned(readers[r]))
      /\ expect' = [expect EXCEPT ![r] = Unsure]
  BY DEF Close, Destroy, Free
<1>2. Unsure \in Expectation
  <2>1. <<>> \in Seq(0 .. 255)
    OBVIOUS
  <2> QED  BY <2>1, Expectations
<1>3. /\ readers' \in [Readers -> ReaderType] /\ expect' \in [Readers -> Expectation]
      /\ Memory(readers', mem') /\ Content(readers', mem', disk', expect')
      /\ \A s \in Readers : readers[s] = Closed => readers'[s] = Closed
  BY <1>1, <1>2, ClosedKeeps
<1>4. readers'[r] = Closed
  BY <1>1, Idle
<1> QED  BY <1>1, <1>3, <1>4, Idle DEF FilesInv

LEMMA CreateKeeps ==
  ASSUME FilesInv, NEW r \in Readers, Create(r)
  PROVE  FilesInv'
<1>1. /\ call = NoOpen /\ call' = call /\ disk' = disk /\ mem' = mem /\ alive' = alive \cup {r}
      /\ r \notin alive /\ readers' = [readers EXCEPT ![r] = Closed]
      /\ expect' = [expect EXCEPT ![r] = Unsure]
  BY DEF Create
<1>2. readers[r] = Closed /\ readers' = readers
  BY <1>1, Idle
<1>3. Unsure \in Expectation /\ AsExpected(Closed, mem, disk, Unsure)
  <2>1. <<>> \in Seq(0 .. 255)
    OBVIOUS
  <2> QED  BY <2>1, Expectations DEF AsExpected, Closed
<1>4. Content(readers', mem, disk, expect')
  BY <1>1, <1>3, Idle, OneShown
<1> QED  BY <1>1, <1>2, <1>3, <1>4, Idle DEF FilesInv

LEMMA MovesKeep ==
  ASSUME FilesInv, NEW to \in Readers, NEW from \in Readers,
         MoveConstruct(to, from) \/ MoveAssign(to, from)
  PROVE  FilesInv'
<1>1. /\ call = NoOpen /\ call' = call /\ disk' = disk /\ from \in alive /\ to # from
      /\ readers' = [readers EXCEPT ![to] = readers[from], ![from] = Closed]
      /\ expect' = [expect EXCEPT ![to] = expect[from], ![from] = Unsure]
  BY DEF MoveConstruct, MoveAssign, Takes, Free, LeftBehind
<1>2. Unsure \in Expectation
  <2>1. <<>> \in Seq(0 .. 255)
    OBVIOUS
  <2> QED  BY <2>1, Expectations
<1>3. expect' \in [Readers -> Expectation]
  BY <1>1, <1>2, Idle
<1>4. CASE MoveConstruct(to, from)
  <2>1. mem' = mem /\ alive' = alive \cup {to} /\ readers[to] = Closed
    BY <1>4, Idle DEF MoveConstruct
  <2>2. readers' \in [Readers -> ReaderType] /\ Memory(readers', mem) /\ Content(readers', mem, disk, expect')
    BY <2>1, <1>1, Idle, OneMoved
  <2>3. \A s \in Readers \ alive' : readers'[s] = Closed
    BY <2>1, <1>1, Idle
  <2> QED  BY <2>1, <2>2, <2>3, <1>1, <1>3, Idle DEF FilesInv
<1>5. CASE MoveAssign(to, from)
  <2> DEFINE rs == [readers EXCEPT ![to] = Closed]
             e  == [expect EXCEPT ![to] = Unsure]
  <2>1. mem' = Without(Owned(readers[to])) /\ alive' = alive /\ to \in alive
    BY <1>5 DEF MoveAssign
  <2>2. rs \in [Readers -> ReaderType] /\ Memory(rs, mem')
    BY <2>1, Idle, OneClosed
  <2>3. AsExpected(Closed, mem', disk, Unsure)
    BY DEF AsExpected, Closed
  <2>4. \A p \in DOMAIN mem \ Owned(readers[to]) : p \in DOMAIN mem' /\ mem'[p] = mem[p]
    BY <2>1, WithoutIs
  <2>5. Content(rs, mem', disk, e) /\ e \in [Readers -> Expectation]
    BY <2>3, <2>4, <1>2, Idle, OneShown
  <2>6. rs[to] = Closed /\ rs[from] = readers[from] /\ e[from] = expect[from]
    BY <1>1, Idle
  <2>7. /\ readers' = [rs EXCEPT ![to] = rs[from], ![from] = Closed]
        /\ expect' = [e EXCEPT ![to] = e[from], ![from] = Unsure]
    BY <2>6, <1>1, Idle
  <2> HIDE DEF rs, e
  <2>8. readers' \in [Readers -> ReaderType] /\ Memory(readers', mem') /\ Content(readers', mem', disk, expect')
    <3>1. LET qs == [rs EXCEPT ![to] = rs[from], ![from] = Closed]
              w  == [e EXCEPT ![to] = e[from], ![from] = Unsure]
          IN  qs \in [Readers -> ReaderType] /\ Memory(qs, mem') /\ Content(qs, mem', disk, w)
      BY <2>2, <2>5, <2>6, <1>1, OneMoved
    <3> QED  BY <3>1, <2>7
  <2>9. \A s \in Readers \ alive' : readers'[s] = Closed
    BY <2>1, <1>1, Idle
  <2> QED  BY <2>1, <2>8, <2>9, <1>1, <1>3, Idle DEF FilesInv
<1> QED  BY <1>4, <1>5

LEMMA LoadKeeps ==
  ASSUME FilesInv, NEW r \in Readers, NEW bytes \in Seq(0 .. 255), LoadBuffer(r, bytes)
  PROVE  FilesInv'
<1> DEFINE kept == Without(Owned(readers[r]))
           rs   == [readers EXCEPT ![r] = Closed]
<1>1. /\ call = NoOpen /\ call' = call /\ disk' = disk /\ alive' = alive /\ r \in alive
      /\ expect' = [expect EXCEPT ![r] = Sure(bytes)]
      /\ Len(bytes) \in Nat
  BY DEF LoadBuffer, Free
<1>2. Sure(bytes) \in Expectation /\ expect' \in [Readers -> Expectation]
  BY <1>1, Expectations, Idle
<1>3. rs \in [Readers -> ReaderType] /\ Memory(rs, kept) /\ rs[r] = Closed
  BY Idle, OneClosed
<1>4. \A p \in DOMAIN mem \ Owned(readers[r]) : p \in DOMAIN kept /\ kept[p] = mem[p]
  BY WithoutIs
\* Whatever r loads into the memory that is kept, of which a region may be new:
<1>5. ASSUME NEW x, NEW k, readers' = [readers EXCEPT ![r] = x], mem' = k, Sound(x, k),
             AsExpected(x, k, disk, Sure(bytes)),
             \A p \in DOMAIN kept : p \in DOMAIN k /\ k[p] = kept[p],
             \A p \in DOMAIN k : p \in DOMAIN kept \/ p \in Owned(x),
             Owned(x) \cap DOMAIN kept = {}
      PROVE  FilesInv'
  <2>1. readers' = [rs EXCEPT ![r] = x]
    BY <1>5, Idle
  <2> HIDE DEF rs, kept
  <2>2. readers' \in [Readers -> ReaderType] /\ Memory(readers', k)
    <3>1. Owned(rs[r]) = {}
      BY <1>3, ClosedType
    <3>2. \A p \in DOMAIN kept \ Owned(rs[r]) : p \in DOMAIN k /\ k[p] = kept[p]
      BY <1>5
    <3>3. \A p \in DOMAIN k : p \in DOMAIN kept \ Owned(rs[r]) \/ p \in Owned(x)
      BY <3>1, <1>5
    <3>4. Owned(x) \cap (DOMAIN kept \ Owned(rs[r])) = {}
      BY <1>5
    <3>5. Sound(x, k)
      BY <1>5
    <3>6. [rs EXCEPT ![r] = x] \in [Readers -> ReaderType] /\ Memory([rs EXCEPT ![r] = x], k)
      BY <3>2, <3>3, <3>4, <3>5, <1>3, OneReplaced
    <3> QED  BY <3>6, <2>1
  <2>3. Content(readers', k, disk, expect')
    <3>1. \A p \in DOMAIN mem \ Owned(readers[r]) : p \in DOMAIN k /\ k[p] = mem[p]
      BY <1>4, <1>5
    <3> QED  BY <3>1, <1>1, <1>5, Idle, OneShown
  <2>4. \A s \in Readers \ alive : readers'[s] = Closed
    BY <1>1, <1>5, Idle
  <2> QED  BY <2>2, <2>3, <2>4, <1>1, <1>2, <1>5, Idle DEF FilesInv
<1>6. CASE bytes = <<>>
  <2> DEFINE x == Opened(Closed)
  <2>1. readers' = [readers EXCEPT ![r] = x] /\ mem' = kept
    BY <1>6 DEF LoadBuffer
  <2>2. /\ x \in ReaderType /\ x.data = None /\ x.size = 0 /\ ~x.is_mmap /\ x.buffer = None
    BY ClosedType, OpenedIs DEF Closed
  <2> HIDE DEF x
  <2>3. Owned(x) = {}
    BY <2>2 DEF Owned
  <2>4. Sound(x, kept)
    BY <2>2, <2>3 DEF Sound
  <2>5. AsExpected(x, kept, disk, Sure(bytes))
    BY <2>2, <1>6 DEF AsExpected, Shown, Sure
  <2> HIDE DEF kept
  <2> QED  BY <2>1, <2>3, <2>4, <2>5, <1>5
<1>7. CASE bytes # <<>>
  <2>1. PICK p \in Regions \ DOMAIN kept :
          /\ readers' = [readers EXCEPT ![r] = Opened(Sized(Showing(Buffered(Closed, p), p), Len(bytes)))]
          /\ mem' = With(kept, p, Heap(Len(bytes), bytes))
    BY <1>7 DEF LoadBuffer
  <2> DEFINE x1 == Buffered(Closed, p)
             x2 == Showing(x1, p)
             x3 == Sized(x2, Len(bytes))
             x  == Opened(x3)
             k  == With(kept, p, Heap(Len(bytes), bytes))
  <2>2. p \in Addresses /\ p # None
    BY FilesAssumption DEF Addresses
  <2>3. x1 \in ReaderType /\ x1.buffer = p /\ ~x1.is_mmap
    BY <2>2, ClosedType, BufferedIs DEF Closed
  <2> HIDE DEF x1
  <2>4. x2 \in ReaderType /\ x2.buffer = p /\ ~x2.is_mmap /\ x2.data = p
    BY <2>2, <2>3, ShowingIs
  <2> HIDE DEF x2
  <2>5. x3 \in ReaderType /\ x3.buffer = p /\ ~x3.is_mmap /\ x3.data = p /\ x3.size = Len(bytes)
    BY <2>4, <1>1, SizedIs
  <2> HIDE DEF x3
  <2>6. x \in ReaderType /\ x.buffer = p /\ ~x.is_mmap /\ x.data = p /\ x.size = Len(bytes)
    BY <2>5, OpenedIs
  <2>7. readers' = [readers EXCEPT ![r] = x] /\ mem' = k
    BY <2>1 DEF x1, x2, x3
  <2> HIDE DEF x
  <2> HIDE DEF kept
  <2>8. /\ DOMAIN k = DOMAIN kept \cup {p} /\ k[p] = Heap(Len(bytes), bytes)
        /\ \A q \in DOMAIN kept : k[q] = kept[q]
    <3> DEFINE region == Heap(Len(bytes), bytes)
    <3>1. \A q \in DOMAIN kept : q # p
      BY <2>1
    <3> HIDE DEF region
    <3>2. /\ DOMAIN k = DOMAIN kept \cup {p} /\ k[p] = region
          /\ \A q \in DOMAIN kept : k[q] = kept[q]
      BY <3>1 DEF With, region
    <3> QED  BY <3>2 DEF region
  <2> HIDE DEF k
  <2>9. Owned(x) = {p}
    BY <2>2, <2>6 DEF Owned
  <2>10. k[p].kind = "heap" /\ k[p].bytes = bytes
    BY <2>8 DEF Heap
  <2>11. Sound(x, k)
    BY <2>2, <2>6, <2>8, <2>9, <2>10 DEF Sound
  <2>12. AsExpected(x, k, disk, Sure(bytes))
    <3>1. SubSeq(bytes, 1, Len(bytes)) = bytes
      BY <1>1
    <3> QED  BY <2>2, <2>6, <2>10, <3>1 DEF AsExpected, Shown, Sure
  <2> QED  BY <2>7, <2>8, <2>9, <2>11, <2>12, <1>5
<1> QED  BY <1>6, <1>7

-----------------------------------------------------------------------------
(* The steps of open()                                                     *)

\* The reader of the call that is under way.
LEMMA Underway ==
  ASSUME FilesInv, call.at \in {"stat", "read", "map"}, NEW r, r = call.reader
  PROVE  /\ r \in alive /\ r \in Readers /\ readers[r] \in ReaderType
         /\ Opening(call, readers[r], mem, disk, expect[r])
         /\ Owned(readers[r]) = IF call.at = "read" THEN {readers[r].buffer} ELSE {}
         /\ Sound(readers[r], mem) /\ disk[call.file] \in Seq(0 .. 255)
<1>1. call # NoOpen
  BY DEF NoOpen
<1>2. r \in alive /\ Opening(call, readers[r], mem, disk, expect[r])
  BY <1>1 DEF FilesInv
<1>3. r \in Readers /\ readers[r] \in ReaderType /\ Sound(readers[r], mem)
  BY <1>2, Idle DEF Memory
<1>4. Owned(readers[r]) = IF call.at = "read" THEN {readers[r].buffer} ELSE {}
  BY <1>2 DEF Opening, Owned
<1>5. disk[call.file] \in Seq(0 .. 255)
  BY <1>2, Idle DEF Opening
<1> QED  BY <1>2, <1>3, <1>4, <1>5

\* r gets the members x, and the memory becomes k, which has one region more at most.
LEMMA StepKeeps ==
  ASSUME FilesInv, NEW r \in alive, r \in Readers, NEW x, NEW k,
         readers' = [readers EXCEPT ![r] = x], mem' = k,
         disk' = disk, alive' = alive, expect' = expect,
         Sound(x, k), AsExpected(x, k, disk, expect[r]),
         \A p \in DOMAIN mem \ Owned(readers[r]) : p \in DOMAIN k /\ k[p] = mem[p],
         \A p \in DOMAIN k : p \in DOMAIN mem \ Owned(readers[r]) \/ p \in Owned(x),
         Owned(x) \cap (DOMAIN mem \ Owned(readers[r])) = {},
         call' = NoOpen \/ (call'.reader = r /\ Opening(call', x, k, disk, expect[r]))
  PROVE  FilesInv'
<1>1. readers' \in [Readers -> ReaderType] /\ Memory(readers', k)
  BY Idle, OneReplaced
<1>2. expect' = [expect EXCEPT ![r] = expect[r]]
  BY Idle
<1>3. Content(readers', k, disk, expect')
  <2>1. Content([readers EXCEPT ![r] = x], k, disk, [expect EXCEPT ![r] = expect[r]])
    BY Idle, OneShown
  <2> QED  BY <2>1, <1>2
<1>4. readers'[r] = x /\ \A s \in Readers \ alive : readers'[s] = Closed
  BY Idle
<1> QED  BY <1>1, <1>3, <1>4, Idle DEF FilesInv

LEMMA ThrowsKeeps ==
  ASSUME FilesInv, call.at \in {"stat", "read", "map"}, Throws, UNCHANGED readers
  PROVE  FilesInv'
<1> DEFINE r == call.reader
<1>1. /\ call' = NoOpen /\ expect' = [expect EXCEPT ![r] = Unsure]
      /\ disk' = disk /\ alive' = alive /\ mem' = mem /\ readers' = readers
  BY DEF Throws
<1>2. r \in Readers
  BY Underway
<1>3. Unsure \in Expectation /\ AsExpected(readers[r], mem, disk, Unsure)
  <2>1. <<>> \in Seq(0 .. 255)
    OBVIOUS
  <2> QED  BY <2>1, Expectations DEF AsExpected
<1>4. readers = [readers EXCEPT ![r] = readers[r]]
  BY Idle
<1> HIDE DEF r
<1>5. Content([readers EXCEPT ![r] = readers[r]], mem, disk, expect')
  BY <1>1, <1>2, <1>3, Idle, OneShown
<1> QED  BY <1>1, <1>3, <1>4, <1>5, Idle DEF FilesInv

LEMMA StatKeeps ==
  ASSUME FilesInv, Stat
  PROVE  FilesInv'
<1> DEFINE r == call.reader
           x == readers[r]
           n == Len(disk[call.file])
<1>1. call.at = "stat"
  BY DEF Stat
<1>2. /\ r \in alive /\ r \in Readers /\ x \in ReaderType /\ Owned(x) = {} /\ n \in Nat
      /\ call = [reader |-> r, file |-> call.file, at |-> call.at] /\ call.file \in Files
      /\ x.data = None /\ x.buffer = None /\ ~x.is_mmap /\ ~x.is_open
      /\ expect[r].known => expect[r].bytes = disk[call.file]
      /\ disk[call.file] \in Seq(0 .. 255)
  BY <1>1, Underway DEF Opening
<1> DEFINE y == Sized(x, n)
<1>3. /\ y \in ReaderType /\ y.size = n /\ y.data = None /\ y.buffer = None /\ ~y.is_mmap /\ ~y.is_open
  BY <1>2, SizedIs
<1>4. /\ disk' = disk /\ alive' = alive /\ expect' = expect
  BY DEF Stat, Goes, Returns
<1>5. CASE /\ n = 0 /\ readers' = [readers EXCEPT ![r] = Opened(y)] /\ Returns /\ UNCHANGED mem
  <2> DEFINE z == Opened(y)
  <2> HIDE DEF y
  <2>1. z \in ReaderType /\ z.size = 0 /\ z.data = None /\ z.buffer = None /\ ~z.is_mmap
    BY <1>3, <1>5, OpenedIs
  <2> HIDE DEF z
  <2>2. Owned(z) = {}
    BY <2>1 DEF Owned
  <2>3. Sound(z, mem)
    BY <2>1, <2>2 DEF Sound
  <2>4. AsExpected(z, mem, disk, expect[r])
    BY <2>1, <1>2, <1>5 DEF AsExpected, Shown
  <2>5. readers' = [readers EXCEPT ![r] = z] /\ mem' = mem /\ call' = NoOpen
    BY <1>5 DEF z, Returns
  <2> HIDE DEF r, x, n
  <2>6. \A p \in DOMAIN mem : p \in DOMAIN mem \ Owned(readers[r])
    BY <1>2 DEF x
  <2> QED  BY <2>2, <2>3, <2>4, <2>5, <2>6, <1>2, <1>4, StepKeeps
<1>6. CASE \E p \in Regions \ DOMAIN mem :
             /\ readers' = [readers EXCEPT ![r] = Buffered(y, p)]
             /\ mem' = With(mem, p, Heap(n, <<>>))
             /\ Goes("read")
  <2>1. PICK p \in Regions \ DOMAIN mem :
             /\ readers' = [readers EXCEPT ![r] = Buffered(y, p)]
             /\ mem' = With(mem, p, Heap(n, <<>>))
             /\ Goes("read")
    BY <1>6
  <2> DEFINE z == Buffered(y, p)
             region == Heap(n, <<>>)
             k == With(mem, p, region)
  <2> HIDE DEF y
  <2>2. p \in Addresses /\ p # None
    BY FilesAssumption DEF Addresses
  <2>3. z \in ReaderType /\ z.size = n /\ z.data = None /\ z.buffer = p /\ ~z.is_mmap /\ ~z.is_open
    BY <2>2, <1>3, BufferedIs
  <2>4. readers' = [readers EXCEPT ![r] = z] /\ mem' = k
    BY <2>1
  <2>5. region.kind = "heap" /\ region.bytes = <<>>
    BY DEF Heap
  <2> HIDE DEF z, region
  <2>6. /\ DOMAIN k = DOMAIN mem \cup {p} /\ k[p] = region
        /\ \A q \in DOMAIN mem : k[q] = mem[q]
    <3>1. \A q \in DOMAIN mem : q # p
      OBVIOUS
    <3> QED  BY <3>1 DEF With
  <2> HIDE DEF k
  <2>7. Owned(z) = {p}
    BY <2>2, <2>3 DEF Owned
  <2>8. Sound(z, k)
    BY <2>2, <2>3, <2>5, <2>6, <2>7 DEF Sound
  <2>9. AsExpected(z, k, disk, expect[r])
    BY <2>3 DEF AsExpected
  <2>10. call' = [reader |-> r, file |-> call.file, at |-> "read"]
    BY <2>1, <1>2 DEF Goes
  <2>11. Opening(call', z, k, disk, expect[r])
    <3>1. <<>> \in Seq(0 .. 255) /\ Len(<<>>) = 0 /\ SubSeq(disk[call.file], 1, 0) = <<>>
      BY <1>2
    <3>2. k[z.buffer].bytes = <<>>
      BY <2>3, <2>5, <2>6
    <3>3. call'.reader = r /\ call'.file = call.file /\ call'.at = "read"
      BY <2>10
    <3> QED  BY <2>2, <2>3, <2>10, <3>1, <3>2, <3>3, <1>2 DEF Opening
  <2>12. call'.reader = r
    BY <2>10
  <2> HIDE DEF r, x, n
  <2>13. Owned(readers[r]) = {}
    BY <1>2 DEF x
  <2>14. /\ \A q \in DOMAIN mem \ Owned(readers[r]) : q \in DOMAIN k /\ k[q] = mem[q]
         /\ \A q \in DOMAIN k : q \in DOMAIN mem \ Owned(readers[r]) \/ q \in Owned(z)
         /\ Owned(z) \cap (DOMAIN mem \ Owned(readers[r])) = {}
    BY <2>1, <2>6, <2>7, <2>13
  <2> QED  BY <2>4, <2>8, <2>9, <2>11, <2>12, <2>14, <1>2, <1>4, StepKeeps
<1>7. CASE /\ readers' = [readers EXCEPT ![r] = y] /\ Goes("map") /\ UNCHANGED mem
  <2> HIDE DEF y
  <2>1. Owned(y) = {}
    BY <1>3 DEF Owned
  <2>2. Sound(y, mem)
    BY <1>3, <2>1 DEF Sound
  <2>3. AsExpected(y, mem, disk, expect[r])
    BY <1>3 DEF AsExpected
  <2>4. call' = [reader |-> r, file |-> call.file, at |-> "map"]
    BY <1>2, <1>7 DEF Goes
  <2>5. Opening(call', y, mem, disk, expect[r])
    <3>1. call'.reader = r /\ call'.file = call.file /\ call'.at = "map"
      BY <2>4
    <3> QED  BY <2>4, <3>1, <1>2, <1>3 DEF Opening
  <2>6. call'.reader = r /\ mem' = mem
    BY <2>4, <1>7
  <2> HIDE DEF r, x, n
  <2>7. Owned(readers[r]) = {}
    BY <1>2 DEF x
  <2> QED  BY <2>1, <2>2, <2>3, <2>5, <2>6, <2>7, <1>2, <1>4, <1>7, StepKeeps
<1> QED  BY <1>5, <1>6, <1>7 DEF Stat

LEMMA PieceIs ==
  ASSUME NEW S, NEW d \in Seq(S), NEW i \in Nat, NEW n \in Nat, i + n <= Len(d)
  PROVE  /\ SubSeq(d, i + 1, i + n) \in Seq(S) /\ Len(SubSeq(d, i + 1, i + n)) = n
         /\ \A q \in 1 .. n : SubSeq(d, i + 1, i + n)[q] = d[i + q]
<1> DEFINE m == i + 1
           e == i + n
<1>1. m \in Int /\ e \in Int /\ e - m + 1 = n
  OBVIOUS
<1>2. \A q \in m .. e : d[q] \in S
  OBVIOUS
<1>3. (IF m <= e THEN e - m + 1 ELSE 0) = n /\ \A q \in 1 .. n : m + q - 1 = i + q
  OBVIOUS
<1> HIDE DEF m, e
<1>4. /\ SubSeq(d, m, e) \in Seq(S) /\ Len(SubSeq(d, m, e)) = n
      /\ \A q \in 1 .. e - m + 1 : SubSeq(d, m, e)[q] = d[m + q - 1]
  BY <1>1, <1>2, <1>3, SubSeqProperties
<1> QED  BY <1>1, <1>3, <1>4 DEF m, e

LEMMA SubSeqGrows ==
  ASSUME NEW S, NEW d \in Seq(S), NEW i \in Nat, NEW n \in Nat, i + n <= Len(d)
  PROVE  /\ SubSeq(d, i + 1, i + n) \in Seq(S) /\ Len(SubSeq(d, i + 1, i + n)) = n
         /\ SubSeq(d, 1, i) \o SubSeq(d, i + 1, i + n) = SubSeq(d, 1, i + n)
<1> DEFINE u == SubSeq(d, 1, i)
           v == SubSeq(d, i + 1, i + n)
           w == SubSeq(d, 1, i + n)
<1>1. u \in Seq(S) /\ Len(u) = i /\ \A q \in 1 .. i : u[q] = d[q]
  <2>1. 0 \in Nat /\ 0 + i <= Len(d) /\ 0 + 1 = 1 /\ 0 + i = i /\ \A q \in 1 .. i : 0 + q = q
    OBVIOUS
  <2>2. /\ SubSeq(d, 0 + 1, 0 + i) \in Seq(S) /\ Len(SubSeq(d, 0 + 1, 0 + i)) = i
        /\ \A q \in 1 .. i : SubSeq(d, 0 + 1, 0 + i)[q] = d[0 + q]
    BY <2>1, PieceIs
  <2> QED  BY <2>1, <2>2
<1>2. v \in Seq(S) /\ Len(v) = n /\ \A q \in 1 .. n : v[q] = d[i + q]
  BY PieceIs
<1>3. w \in Seq(S) /\ Len(w) = i + n /\ \A q \in 1 .. i + n : w[q] = d[q]
  <2> DEFINE j == i + n
  <2>1. /\ 0 \in Nat /\ j \in Nat /\ 0 + j <= Len(d) /\ 0 + 1 = 1 /\ 0 + j = j
        /\ \A q \in 1 .. j : 0 + q = q
    OBVIOUS
  <2> HIDE DEF j
  <2>2. /\ SubSeq(d, 0 + 1, 0 + j) \in Seq(S) /\ Len(SubSeq(d, 0 + 1, 0 + j)) = j
        /\ \A q \in 1 .. j : SubSeq(d, 0 + 1, 0 + j)[q] = d[0 + q]
    BY <2>1, PieceIs
  <2> QED  BY <2>1, <2>2 DEF j
<1> HIDE DEF u, v, w
<1>4. u \o v \in Seq(S) /\ Len(u \o v) = Len(w)
  BY <1>1, <1>2, <1>3
<1>5. ASSUME NEW q \in 1 .. i + n PROVE (u \o v)[q] = w[q]
  <2>1. CASE q <= i
    BY <2>1, <1>1, <1>2, <1>3
  <2>2. CASE q > i
    <3>1. q - i \in 1 .. n /\ i + (q - i) = q
      BY <2>2
    <3>2. (u \o v)[q] = v[q - i]
      BY <2>2, <3>1, <1>1, <1>2
    <3> QED  BY <3>1, <3>2, <1>2, <1>3
  <2>3. q <= i \/ q > i
    OBVIOUS
  <2> QED  BY <2>1, <2>2, <2>3
<1>6. u \o v = w
  BY <1>3, <1>4, <1>5, SeqEqual
<1> QED  BY <1>2, <1>6 DEF u, v, w

\* What is read grows along the file.
LEMMA GotMore ==
  ASSUME NEW S, NEW d \in Seq(S), NEW got \in Seq(S), NEW n \in Nat, Len(got) + n <= Len(d)
  PROVE  LET more == got \o SubSeq(d, Len(got) + 1, Len(got) + n) IN
         /\ more \in Seq(S) /\ Len(more) = Len(got) + n
         /\ got = SubSeq(d, 1, Len(got)) => more = SubSeq(d, 1, Len(more))
<1> DEFINE i == Len(got)
           v == SubSeq(d, i + 1, i + n)
<1>1. i \in Nat /\ i + n <= Len(d)
  OBVIOUS
<1> HIDE DEF i
<1>2. v \in Seq(S) /\ Len(v) = n /\ SubSeq(d, 1, i) \o v = SubSeq(d, 1, i + n)
  BY <1>1, SubSeqGrows
<1> HIDE DEF v
<1>3. got \o v \in Seq(S) /\ Len(got \o v) = i + n
  BY <1>2, ConcatProperties DEF i
<1>4. got = SubSeq(d, 1, i) => got \o v = SubSeq(d, 1, Len(got \o v))
  BY <1>2, <1>3
<1> QED  BY <1>3, <1>4 DEF i, v

\* read() delivers some bytes.
LEMMA ReadKeeps ==
  ASSUME FilesInv, Read
  PROVE  FilesInv'
<1> DEFINE r == call.reader
           x == readers[r]
           b == x.buffer
           got == mem[b].bytes
           d == disk[call.file]
<1>1. call.at = "read"
  BY DEF Read
<1>2. /\ r \in alive /\ r \in Readers /\ x \in ReaderType /\ Owned(x) = {b} /\ d \in Seq(0 .. 255)
      /\ Opening(call, x, mem, disk, expect[r]) /\ Sound(x, mem)
  BY <1>1, Underway
<1>3. /\ b # None /\ b \in DOMAIN mem /\ got \in Seq(0 .. 255) /\ mem[b].kind = "heap"
      /\ x.data = None /\ ~x.is_mmap /\ ~x.is_open
  BY <1>1, <1>2 DEF Opening, Sound
<1>4. PICK n \in 1 .. Wanted - Got :
        /\ Got + n <= Len(disk[call.file])
        /\ mem' = With(mem, Buffer, Heap(mem[Buffer].size,
                         Filled(mem[Buffer].bytes, SubSeq(disk[call.file], Got + 1, Got + n))))
  BY DEF Read
<1> DEFINE more == got \o SubSeq(d, Len(got) + 1, Len(got) + n)
           region == Heap(mem[b].size, more)
           k == With(mem, b, region)
<1>5. /\ readers' = readers /\ disk' = disk /\ alive' = alive /\ expect' = expect /\ call' = call
      /\ mem' = k /\ Len(got) + n <= Len(d)
  BY <1>4 DEF Read, Buffer, Got, Filled
<1>6. n \in Nat /\ Len(got) \in Nat
  <2>1. Got = Len(got) /\ Wanted = x.size /\ x.size \in Nat
    BY <1>2 DEF Got, Buffer, Wanted, ReaderType
  <2> QED  BY <2>1, <1>3
<1>7. /\ more \in Seq(0 .. 255) /\ Len(more) = Len(got) + n
      /\ got = SubSeq(d, 1, Len(got)) => more = SubSeq(d, 1, Len(more))
  <2> DEFINE S == 0 .. 255
  <2>1. d \in Seq(S) /\ got \in Seq(S) /\ Len(got) + n <= Len(d)
    BY <1>2, <1>3, <1>5
  <2> HIDE DEF d, got, S
  <2>2. /\ more \in Seq(S) /\ Len(more) = Len(got) + n
        /\ got = SubSeq(d, 1, Len(got)) => more = SubSeq(d, 1, Len(more))
    BY <2>1, <1>6, GotMore
  <2> QED  BY <2>2 DEF S
<1>8. region.kind = "heap" /\ region.bytes = more
  BY DEF Heap
<1> HIDE DEF more, region
<1>9. /\ DOMAIN k = DOMAIN mem /\ k[b] = region
       /\ \A q \in DOMAIN mem : q # b => k[q] = mem[q]
  BY <1>3 DEF With
<1> HIDE DEF k
<1>10. Sound(x, k)
  BY <1>2, <1>3, <1>8, <1>9 DEF Sound
<1>11. AsExpected(x, k, disk, expect[r])
  BY <1>3 DEF AsExpected
<1>12. Opening(call, x, k, disk, expect[r])
  <2>1. k[x.buffer].bytes = more
    BY <1>8, <1>9
  <2>2. expect[r].known => /\ expect[r].bytes = d /\ x.size = Len(d)
                           /\ Len(more) <= Len(d) /\ more = SubSeq(d, 1, Len(more))
    BY <1>1, <1>2, <1>5, <1>7 DEF Opening
  <2>3. /\ call = [reader |-> call.reader, file |-> call.file, at |-> call.at] /\ call.file \in Files
    BY <1>2 DEF Opening
  <2> QED  BY <2>1, <2>2, <2>3, <1>1, <1>3, <1>7 DEF Opening
<1>13. /\ \A q \in DOMAIN mem \ Owned(readers[r]) : q \in DOMAIN k /\ k[q] = mem[q]
       /\ \A q \in DOMAIN k : q \in DOMAIN mem \ Owned(readers[r]) \/ q \in Owned(x)
       /\ Owned(x) \cap (DOMAIN mem \ Owned(readers[r])) = {}
  BY <1>2, <1>9
<1>14. readers' = [readers EXCEPT ![r] = x]
  BY <1>5, Idle
<1>15. call'.reader = r /\ Opening(call', x, k, disk, expect[r])
  BY <1>5, <1>12
<1> HIDE DEF r, x
<1> QED  BY <1>2, <1>5, <1>10, <1>11, <1>13, <1>14, <1>15, StepKeeps

\* All is read, or the file has ended.
LEMMA ReadAllKeeps ==
  ASSUME FilesInv, ReadAll
  PROVE  FilesInv'
<1> DEFINE r == call.reader
           x == readers[r]
           b == x.buffer
           got == mem[b].bytes
           d == disk[call.file]
<1>1. call.at = "read"
  BY DEF ReadAll
<1>2. /\ r \in alive /\ r \in Readers /\ x \in ReaderType /\ Owned(x) = {b} /\ d \in Seq(0 .. 255)
      /\ Opening(call, x, mem, disk, expect[r]) /\ Sound(x, mem)
  BY <1>1, Underway
<1>3. /\ b # None /\ b \in DOMAIN mem /\ got \in Seq(0 .. 255) /\ mem[b].kind = "heap"
      /\ x.data = None /\ ~x.is_mmap /\ ~x.is_open /\ b \in Addresses /\ x.size \in Nat
  BY <1>1, <1>2 DEF Opening, Sound, ReaderType
<1>4. /\ Len(got) < x.size => Len(got) >= Len(d)
      /\ readers' = [readers EXCEPT ![r] = Opened(Showing(Sized(x, Len(got)), b))]
      /\ call' = NoOpen /\ disk' = disk /\ alive' = alive /\ expect' = expect /\ mem' = mem
  <2>1. Got = Len(got) /\ Wanted = x.size /\ Buffer = b /\ SizeRead = Len(got)
    BY DEF Got, Buffer, Wanted, SizeRead
  <2> QED  BY <2>1 DEF ReadAll, Returns
<1> DEFINE x1 == Sized(x, Len(got))
           x2 == Showing(x1, b)
           y  == Opened(x2)
<1>5. Len(got) \in Nat
  BY <1>3
<1>6. x1 \in ReaderType /\ x1.size = Len(got) /\ ~x1.is_mmap /\ x1.buffer = b
  BY <1>2, <1>3, <1>5, SizedIs
<1> HIDE DEF x1
<1>7. x2 \in ReaderType /\ x2.size = Len(got) /\ ~x2.is_mmap /\ x2.buffer = b /\ x2.data = b
  BY <1>3, <1>6, ShowingIs
<1> HIDE DEF x2
<1>8. y \in ReaderType /\ y.size = Len(got) /\ ~y.is_mmap /\ y.buffer = b /\ y.data = b
  BY <1>7, OpenedIs
<1>9. readers' = [readers EXCEPT ![r] = y] /\ mem' = mem
  BY <1>4 DEF x1, x2
<1> HIDE DEF y
<1>10. Owned(y) = {b}
  BY <1>3, <1>8 DEF Owned
<1>11. Sound(y, mem)
  BY <1>3, <1>8, <1>10 DEF Sound
<1>12. AsExpected(y, mem, disk, expect[r])
  <2> SUFFICES ASSUME expect[r].known PROVE Shown(y, mem, disk) = expect[r].bytes
    BY DEF AsExpected
  <2>1. /\ expect[r].bytes = d /\ x.size = Len(d) /\ Len(got) <= Len(d)
        /\ got = SubSeq(d, 1, Len(got))
    BY <1>1, <1>2 DEF Opening
  <2>2. Len(got) = Len(d)
    BY <2>1, <1>2, <1>4, <1>5
  <2>3. got = d /\ SubSeq(got, 1, Len(got)) = got
    BY <2>1, <2>2, <1>2, <1>3
  <2> QED  BY <2>1, <2>3, <1>3, <1>8 DEF Shown
<1>13. /\ \A q \in DOMAIN mem \ Owned(readers[r]) : q \in DOMAIN mem
       /\ \A q \in DOMAIN mem : q \in DOMAIN mem \ Owned(readers[r]) \/ q \in Owned(y)
       /\ Owned(y) \cap (DOMAIN mem \ Owned(readers[r])) = {}
  BY <1>2, <1>10
<1> HIDE DEF r, x
<1> QED  BY <1>2, <1>4, <1>9, <1>11, <1>12, <1>13, StepKeeps

LEMMA MapKeeps ==
  ASSUME FilesInv, Map
  PROVE  FilesInv'
<1> DEFINE r == call.reader
           x == readers[r]
           d == disk[call.file]
<1>1. call.at = "map"
  BY DEF Map
<1>2. /\ r \in alive /\ r \in Readers /\ x \in ReaderType /\ Owned(x) = {} /\ d \in Seq(0 .. 255)
      /\ Opening(call, x, mem, disk, expect[r])
  BY <1>1, Underway
<1>3. x.data = None /\ x.buffer = None /\ ~x.is_mmap /\ x.size \in Nat /\ call.file \in Files
  BY <1>1, <1>2 DEF Opening, ReaderType
<1>4. PICK p \in Regions \ DOMAIN mem :
        /\ mem' = With(mem, p, MapOf(call.file, x.size))
        /\ readers' = [readers EXCEPT ![r] = Opened(Mapped(Showing(x, p)))]
  BY DEF Map, Wanted
<1>5. call' = NoOpen /\ disk' = disk /\ alive' = alive /\ expect' = expect
  BY DEF Map, Returns
<1> DEFINE x1 == Showing(x, p)
           x2 == Mapped(x1)
           y  == Opened(x2)
           region == MapOf(call.file, x.size)
           k == With(mem, p, region)
<1>6. p \in Addresses /\ p # None
  BY FilesAssumption DEF Addresses
<1>7. x1 \in ReaderType /\ x1.data = p /\ x1.buffer = None /\ x1.size = x.size
  BY <1>2, <1>3, <1>6, ShowingIs
<1> HIDE DEF x1
<1>8. x2 \in ReaderType /\ x2.data = p /\ x2.buffer = None /\ x2.size = x.size /\ x2.is_mmap
  BY <1>7, MappedIs
<1> HIDE DEF x2
<1>9. y \in ReaderType /\ y.data = p /\ y.buffer = None /\ y.size = x.size /\ y.is_mmap
  BY <1>8, OpenedIs
<1>10. readers' = [readers EXCEPT ![r] = y] /\ mem' = k
  BY <1>4 DEF x1, x2
<1> HIDE DEF y
<1>11. region.kind = "map" /\ region.size = x.size /\ region.of = call.file
  BY DEF MapOf
<1> HIDE DEF region
<1>12. /\ DOMAIN k = DOMAIN mem \cup {p} /\ k[p] = region
       /\ \A q \in DOMAIN mem : k[q] = mem[q]
  <2>1. \A q \in DOMAIN mem : q # p
    BY <1>4
  <2> QED  BY <2>1 DEF With
<1> HIDE DEF k
<1>13. Owned(y) = {p}
  BY <1>6, <1>9 DEF Owned
<1>14. Sound(y, k)
  BY <1>3, <1>6, <1>9, <1>11, <1>12, <1>13 DEF Sound
<1>15. AsExpected(y, k, disk, expect[r])
  <2> SUFFICES ASSUME expect[r].known PROVE Shown(y, k, disk) = expect[r].bytes
    BY DEF AsExpected
  <2>1. expect[r].bytes = d /\ x.size = Len(d)
    BY <1>1, <1>2 DEF Opening
  <2>2. SubSeq(d, 1, Len(d)) = d
    BY <1>2
  <2> QED  BY <2>1, <2>2, <1>6, <1>9, <1>11, <1>12 DEF Shown
<1>16. /\ \A q \in DOMAIN mem \ Owned(readers[r]) : q \in DOMAIN k /\ k[q] = mem[q]
       /\ \A q \in DOMAIN k : q \in DOMAIN mem \ Owned(readers[r]) \/ q \in Owned(y)
       /\ Owned(y) \cap (DOMAIN mem \ Owned(readers[r])) = {}
  BY <1>2, <1>4, <1>12, <1>13
<1> HIDE DEF r, x
<1> QED  BY <1>2, <1>5, <1>10, <1>14, <1>15, <1>16, StepKeeps

\* Another program writes to a file.
LEMMA ChangeKeeps ==
  ASSUME FilesInv, NEW f \in Files, Change(f)
  PROVE  FilesInv'
<1>1. PICK bytes \in Contents : disk' = [disk EXCEPT ![f] = bytes]
  BY DEF Change
<1>2. /\ expect' = [r \in Readers |-> IF Touched(r, f) THEN Unsure ELSE expect[r]]
      /\ alive' = alive /\ readers' = readers /\ mem' = mem /\ call' = call
  BY DEF Change
<1>3. Unsure \in Expectation /\ ~Unsure.known
  <2>1. <<>> \in Seq(0 .. 255)
    OBVIOUS
  <2> QED  BY <2>1, Expectations
<1>4. disk' \in [Files -> Contents] /\ expect' \in [Readers -> Expectation]
  BY <1>1, <1>2, <1>3, Idle
<1>5. \A g \in Files : g # f => disk'[g] = disk[g]
  BY <1>1, Idle
<1>6. ASSUME NEW r \in Readers PROVE AsExpected(readers[r], mem, disk', expect'[r])
  <2> DEFINE x == readers[r]
  <2> SUFFICES ASSUME x.is_open, expect'[r].known PROVE Shown(x, mem, disk') = expect'[r].bytes
    BY DEF AsExpected
  <2>1. ~Touched(r, f) /\ expect'[r] = expect[r]
    BY <1>2, <1>3
  <2>2. Sound(x, mem) /\ Shown(x, mem, disk) = expect[r].bytes
    BY <2>1, Idle DEF Memory, Content, AsExpected
  <2>3. CASE x.data # None /\ mem[x.data].kind = "map"
    <3>1. x.data \in Owned(x)
      BY <2>2, <2>3 DEF Sound
    <3>2. x.is_mmap
      <4>1. CASE x.data = x.buffer
        BY <4>1, <2>2, <2>3 DEF Sound
      <4>2. CASE x.data # x.buffer
        BY <4>2, <3>1 DEF Owned
      <4> QED  BY <4>1, <4>2
    <3>3. mem[x.data].of \in Files /\ mem[x.data].of # f
      BY <2>1, <2>2, <3>2 DEF Sound, Touched
    <3> QED  BY <2>1, <2>2, <2>3, <3>3, <1>5 DEF Shown
  <2>4. CASE ~(x.data # None /\ mem[x.data].kind = "map")
    BY <2>1, <2>2, <2>4 DEF Shown
  <2> QED  BY <2>3, <2>4
<1>7. ASSUME call # NoOpen
      PROVE  call.reader \in alive /\ Opening(call, readers[call.reader], mem, disk', expect'[call.reader])
  <2> DEFINE r == call.reader
             x == readers[r]
  <2>1. r \in alive /\ r \in Readers /\ Opening(call, x, mem, disk, expect[r])
    BY <1>7, Idle DEF FilesInv
  <2>2. CASE call.file = f
    <3>1. ~expect'[r].known
      BY <2>1, <2>2, <1>2, <1>3 DEF Touched
    <3> QED  BY <2>1, <3>1 DEF Opening
  <2>3. CASE call.file # f
    <3>1. disk'[call.file] = disk[call.file]
      BY <2>1, <2>3, <1>5 DEF Opening
    <3>2. expect'[r].known => expect'[r] = expect[r]
      BY <2>1, <1>2, <1>3
    <3>3. CASE ~expect'[r].known
      BY <2>1, <3>3 DEF Opening
    <3>4. CASE expect'[r] = expect[r]
      BY <2>1, <3>1, <3>4 DEF Opening
    <3> QED  BY <3>2, <3>3, <3>4
  <2> QED  BY <2>2, <2>3
<1> QED  BY <1>2, <1>4, <1>6, <1>7, Idle DEF FilesInv, Content

LEMMA FilesInvNext == FilesInv /\ [FilesNext]_fileVars => FilesInv'
<1> SUFFICES ASSUME FilesInv, [FilesNext]_fileVars PROVE FilesInv'
  OBVIOUS
<1>1. ASSUME OpenStep PROVE FilesInv'
  <2>1. CASE StatFails
    BY <2>1, ThrowsKeeps DEF StatFails
  <2>2. CASE ReadFails
    BY <2>2, ThrowsKeeps DEF ReadFails
  <2>3. CASE MapFails
    BY <2>3, ThrowsKeeps DEF MapFails
  <2> QED  BY <2>1, <2>2, <2>3, <1>1, StatKeeps, ReadKeeps, ReadAllKeeps, MapKeeps DEF OpenStep
<1>2. ASSUME NEW r \in Readers, Create(r) \/ Close(r) \/ Destroy(r) PROVE FilesInv'
  BY <1>2, CreateKeeps, CloseKeeps
<1>3. ASSUME NEW r \in Readers, NEW f \in Files, Open(r, f) PROVE FilesInv'
  BY <1>3, OpenKeeps
<1>4. ASSUME NEW r \in Readers, NEW bytes \in Buffers, LoadBuffer(r, bytes) PROVE FilesInv'
  BY <1>4, LoadKeeps, FilesAssumption
<1>5. ASSUME NEW r \in Readers, NEW from \in Readers, MoveConstruct(r, from) \/ MoveAssign(r, from)
      PROVE  FilesInv'
  BY <1>5, MovesKeep
<1>6. ASSUME NEW f \in Files, Change(f) PROVE FilesInv'
  BY <1>6, ChangeKeeps
<1>7. CASE UNCHANGED fileVars
  <2>1. /\ disk' = disk /\ alive' = alive /\ readers' = readers /\ mem' = mem
        /\ call' = call /\ expect' = expect
    BY <1>7 DEF fileVars
  <2> QED  BY <2>1 DEF FilesInv
<1> QED  BY <1>1, <1>2, <1>3, <1>4, <1>5, <1>6, <1>7 DEF FilesNext

-----------------------------------------------------------------------------

LEMMA InvOwns == FilesInv => MemoryOwnedOnce
<1> SUFFICES ASSUME FilesInv PROVE MemoryOwnedOnce
  OBVIOUS
<1>1. Memory(readers, mem) /\ alive \subseteq Readers /\ \A r \in Readers \ alive : readers[r] = Closed
  BY Idle
<1>2. \A r \in Readers : Sound(readers[r], mem)
  BY <1>1 DEF Memory
<1>3. DOMAIN mem = UNION {Owned(readers[r]) : r \in alive}
  <2>1. ASSUME NEW p \in DOMAIN mem PROVE \E r \in alive : p \in Owned(readers[r])
    <3>1. PICK r \in Readers : p \in Owned(readers[r])
      BY <1>1 DEF Memory
    <3>2. r \in alive
      BY <3>1, <1>1, ClosedType
    <3> QED  BY <3>1, <3>2
  <2>2. ASSUME NEW r \in alive PROVE Owned(readers[r]) \subseteq DOMAIN mem
    BY <1>1, <1>2 DEF Sound
  <2> QED  BY <2>1, <2>2
<1>4. \A r, s \in Readers : r # s => Owned(readers[r]) \cap Owned(readers[s]) = {}
  BY <1>1 DEF Memory, Alone
<1> QED  BY <1>2, <1>3, <1>4 DEF MemoryOwnedOnce, Sound

LEMMA InvShows == FilesInv => SpanIsLoaded
<1> SUFFICES ASSUME FilesInv, NEW r \in Readers, readers[r].is_open
             PROVE  /\ readers[r].data # None => readers[r].data \in Owned(readers[r])
                    /\ readers[r].data = None => readers[r].size = 0
                    /\ readers[r].data # None /\ ~readers[r].is_mmap =>
                         readers[r].size = Len(mem[readers[r].data].bytes)
                    /\ expect[r].known => Span(r) = expect[r].bytes
  BY DEF SpanIsLoaded
<1>1. Sound(readers[r], mem) /\ AsExpected(readers[r], mem, disk, expect[r])
  BY Idle DEF Memory, Content
<1>2. Span(r) = Shown(readers[r], mem, disk)
  BY DEF Span, Shown
<1> QED  BY <1>1, <1>2 DEF Sound, AsExpected

\* Every mapping and every buffer belongs to exactly one living reader, with the
\* size it was mapped with, after any calls of open (failed ones too), load_buffer,
\* close, moves and destructors (MmapReader's members).
THEOREM OwnedOnce == FilesSpec => []MemoryOwnedOnce
<1>1. FilesInit => FilesInv
  BY FilesInvInit
<1>2. FilesInv /\ [FilesNext]_fileVars => FilesInv'
  BY FilesInvNext
<1>3. FilesInv => MemoryOwnedOnce
  BY InvOwns
<1> QED  BY <1>1, <1>2, <1>3, PTL DEF FilesSpec

\* What an open reader shows is the whole buffer, or the whole file unless another
\* program wrote to it, in however many pieces read() delivered it; and never more
\* than was read (open, load_buffer).
THEOREM Loaded == FilesSpec => []SpanIsLoaded
<1>1. FilesInit => FilesInv
  BY FilesInvInit
<1>2. FilesInv /\ [FilesNext]_fileVars => FilesInv'
  BY FilesInvNext
<1>3. FilesInv => SpanIsLoaded
  BY InvShows
<1> QED  BY <1>1, <1>2, <1>3, PTL DEF FilesSpec

-----------------------------------------------------------------------------

-----------------------------------------------------------------------------
(* Sets of positions                                                       *)

\* A set of positions of a sequence is finite and has a last member.
LEMMA PositionsFinite ==
  ASSUME NEW s \in Seq(Chars), NEW S \in SUBSET DOMAIN s
  PROVE  IsFiniteSet(S) /\ Cardinality(S) \in Nat
<1>1. DOMAIN s = 1 .. Len(s) /\ Len(s) \in Nat
  OBVIOUS
<1>2. IsFiniteSet(DOMAIN s)
  BY <1>1, FS_Interval
<1>3. IsFiniteSet(S)
  BY <1>2, FS_Subset
<1> QED  BY <1>3, FS_CardinalityType

LEMMA LastOfIs ==
  ASSUME NEW S \in SUBSET Int, NEW i \in S, \A j \in S : j <= i
  PROVE  LastOf(S) = i
<1> DEFINE Greatest(k) == \A j \in S : j <= k
<1>1. Greatest(i)
  OBVIOUS
<1>2. ASSUME NEW k \in S, Greatest(k) PROVE k = i
  <2>1. k <= i /\ i <= k
    BY <1>1, <1>2
  <2> QED  BY <2>1
<1> HIDE DEF Greatest
<1>3. (CHOOSE k \in S : Greatest(k)) = i
  BY <1>1, <1>2
<1> QED  BY <1>3 DEF LastOf, Greatest

LEMMA LastExists ==
  ASSUME NEW n \in Nat, NEW S \in SUBSET (1 .. n), S # {}
  PROVE  LastOf(S) \in S /\ \A j \in S : j <= LastOf(S)
\* The smallest interval up to n that begins in S begins at the last of S.
<1> DEFINE T == {i .. n : i \in S}
           R == StrictSubsetOrdering(1 .. n)
<1>1. IsFiniteSet(1 .. n)
  BY FS_Interval
<1>2. IsWellFoundedOn(R, FiniteSubsetsOf(1 .. n))
  BY FS_StrictSubsetOrderingWellFounded
<1>3. T \subseteq FiniteSubsetsOf(1 .. n)
  <2>1. FiniteSubsetsOf(1 .. n) = SUBSET (1 .. n)
    BY <1>1, FS_FiniteSubsetsOfFinite
  <2>2. \A i \in S : i .. n \subseteq 1 .. n
    OBVIOUS
  <2> QED  BY <2>1, <2>2
<1>4. T # {}
  OBVIOUS
<1>5. PICK x \in T : \A y \in T : ~ (<<y, x>> \in R)
  <2> HIDE DEF T, R
  <2> QED  BY <1>2, <1>3, <1>4, WFMin
<1>6. PICK i \in S : x = i .. n
  BY <1>5
<1>7. ASSUME NEW j \in S PROVE j <= i
  <2> SUFFICES ASSUME j > i PROVE FALSE
    OBVIOUS
  <2>1. j .. n \subseteq i .. n /\ i \in i .. n /\ i \notin j .. n
    OBVIOUS
  <2>2. i .. n \subseteq 1 .. n /\ j .. n \subseteq 1 .. n
    OBVIOUS
  <2>3. <<j .. n, i .. n>> \in R
    <3> DEFINE y == j .. n
               z == i .. n
    <3>1. y \in SUBSET (1 .. n) /\ z \in SUBSET (1 .. n) /\ y \subseteq z /\ y # z
      BY <2>1, <2>2
    <3> HIDE DEF y, z
    <3>2. <<y, z>> \in R
      BY <3>1 DEF StrictSubsetOrdering
    <3> QED  BY <3>2 DEF y, z
  <2> QED  BY <2>3, <1>5, <1>6
<1>8. LastOf(S) = i
  <2>1. S \in SUBSET Int
    OBVIOUS
  <2> QED  BY <2>1, <1>7, LastOfIs
<1> QED  BY <1>7, <1>8

\* The members of S, n further on.
Shifted(S, n) == {n + i : i \in S}

LEMMA ShiftedSize ==
  ASSUME NEW n \in Nat, NEW S \in SUBSET Nat, IsFiniteSet(S)
  PROVE  IsFiniteSet(Shifted(S, n)) /\ Cardinality(Shifted(S, n)) = Cardinality(S)
<1> DEFINE f == [i \in S |-> n + i]
<1>1. f \in [S -> Shifted(S, n)]
  BY DEF Shifted
<1>2. \A i, j \in S : f[i] = f[j] => i = j
  OBVIOUS
<1>3. \A t \in Shifted(S, n) : \E i \in S : f[i] = t
  BY DEF Shifted
<1> HIDE DEF f
<1>4. ExistsBijection(S, Shifted(S, n))
  <2>1. f \in Bijection(S, Shifted(S, n))
    BY <1>1, <1>2, <1>3, Fun_IsInj, Fun_IsSurj DEF Bijection
  <2> QED  BY <2>1 DEF ExistsBijection
<1> QED  BY <1>4, FS_Bijection

-----------------------------------------------------------------------------
(* One more character                                                      *)

Placed == [line : Nat, col : Nat, offset : Nat, last_was_cr : BOOLEAN]

LEMMA PlaceInType ==
  ASSUME NEW s \in Seq(Chars)
  PROVE  /\ PlaceIn(s) \in [line : Nat, col : Nat, offset : Nat, last_was_cr : BOOLEAN]
         /\ IsFiniteSet(Terminators(s)) /\ Terminators(s) \subseteq 1 .. Len(s)
         /\ Breaks(s) \subseteq 1 .. Len(s)
<1>1. Terminators(s) \in SUBSET DOMAIN s /\ Breaks(s) \in SUBSET DOMAIN s
  BY DEF Terminators, Breaks
<1>2. IsFiniteSet(Terminators(s)) /\ Cardinality(Terminators(s)) \in Nat
  BY <1>1, PositionsFinite
<1>3. DOMAIN s = 1 .. Len(s) /\ Len(s) \in Nat
  OBVIOUS
<1>4. 1 + Len(s) - (IF Breaks(s) = {} THEN 0 ELSE LastOf(Breaks(s))) \in Nat
  <2>1. CASE Breaks(s) = {}
    BY <2>1, <1>3
  <2>2. CASE Breaks(s) # {}
    <3>1. LastOf(Breaks(s)) \in 1 .. Len(s)
      BY <2>2, <1>1, <1>3, LastExists
    <3> QED  BY <2>2, <3>1, <1>3
  <2> QED  BY <2>1, <2>2
<1>5. (s # <<>> /\ s[Len(s)] = CR) \in BOOLEAN
  OBVIOUS
<1> QED  BY <1>1, <1>2, <1>3, <1>4, <1>5 DEF PlaceIn

LEMMA OneMore ==
  ASSUME NEW s \in Seq(Chars), NEW c \in Chars
  PROVE  PlaceIn(Append(s, c)) = After(PlaceIn(s), c)
<1> DEFINE n == Len(s)
           t == Append(s, c)
           p == PlaceIn(s)
           q == PlaceIn(t)
<1>1. /\ n \in Nat /\ t \in Seq(Chars) /\ Len(t) = n + 1 /\ t[n + 1] = c
      /\ DOMAIN s = 1 .. n /\ DOMAIN t = 1 .. n + 1 /\ t # <<>>
      /\ \A i \in 1 .. n : t[i] = s[i]
  OBVIOUS
<1> HIDE DEF t
<1>2. p.last_was_cr <=> n > 0 /\ s[n] = CR
  <2>1. s # <<>> <=> n > 0
    BY <1>1
  <2>2. p.last_was_cr = (s # <<>> /\ s[n] = CR)
    BY DEF PlaceIn
  <2> QED  BY <2>1, <2>2
<1>3. Terminators(t) = IF EndsLine(p, c) THEN Terminators(s) \cup {n + 1} ELSE Terminators(s)
  <2>1. ASSUME NEW i \in 1 .. n
        PROVE  i \in Terminators(t) <=> i \in Terminators(s)
    <3>1. t[i] = s[i] /\ (i > 1 => i - 1 \in 1 .. n)
      BY <1>1
    <3> QED  BY <3>1, <1>1 DEF Terminators
  <2>2. n + 1 \in Terminators(t) <=> EndsLine(p, c)
    <3>1. n + 1 \in DOMAIN t /\ n + 1 - 1 = n /\ (n + 1 > 1 <=> n > 0)
      BY <1>1
    <3>2. n > 0 => t[n] = s[n]
      BY <1>1
    <3>3. n + 1 \in Terminators(t) <=> c = CR \/ (c = LF /\ (n > 0 => t[n] # CR))
      <4>1. n + 1 \in Terminators(t) <=>
              t[n + 1] = CR \/ (t[n + 1] = LF /\ (n + 1 > 1 => t[n + 1 - 1] # CR))
        BY <3>1 DEF Terminators
      <4> QED  BY <4>1, <3>1, <1>1
    <3> QED  BY <3>2, <3>3, <1>2 DEF EndsLine
  <2>3. Terminators(t) \subseteq 1 .. n + 1 /\ Terminators(s) \subseteq 1 .. n
    BY <1>1 DEF Terminators
  <2> DEFINE T == Terminators(t)
             S == Terminators(s)
  <2>4. \A i \in 1 .. n + 1 : i \in 1 .. n \/ i = n + 1
    BY <1>1
  <2>5. T \subseteq 1 .. n + 1 /\ S \subseteq 1 .. n /\ 1 .. n \subseteq 1 .. n + 1 /\ n + 1 \notin S
    BY <2>3, <1>1
  <2> HIDE DEF T, S
  <2>6. CASE EndsLine(p, c)
    <3>1. T = S \cup {n + 1}
      BY <2>1, <2>2, <2>4, <2>5, <2>6 DEF T, S
    <3> QED  BY <2>6, <3>1 DEF T, S
  <2>7. CASE ~EndsLine(p, c)
    <3>1. T = S
      BY <2>1, <2>2, <2>4, <2>5, <2>7 DEF T, S
    <3> QED  BY <2>7, <3>1 DEF T, S
  <2> QED  BY <2>6, <2>7
<1>4. q.line = IF EndsLine(p, c) THEN p.line + 1 ELSE p.line
  <2>1. IsFiniteSet(Terminators(s)) /\ n + 1 \notin Terminators(s) /\ Cardinality(Terminators(s)) \in Nat
    BY <1>1, PlaceInType, FS_CardinalityType
  <2>2. Cardinality(Terminators(s) \cup {n + 1}) = Cardinality(Terminators(s)) + 1
    BY <2>1, FS_AddElement
  <2>3. q.line = 1 + Cardinality(Terminators(t)) /\ p.line = 1 + Cardinality(Terminators(s))
    BY DEF PlaceIn
  <2> QED  BY <2>1, <2>2, <2>3, <1>3
<1>5. Breaks(t) = IF c \in {LF, CR} THEN Breaks(s) \cup {n + 1} ELSE Breaks(s)
  BY <1>1 DEF Breaks
<1>6. q.col = IF c \in {LF, CR} THEN 1 ELSE p.col + 1
  <2>1. CASE c \in {LF, CR}
    <3>1. n + 1 \in Breaks(t) /\ Breaks(t) \in SUBSET Int /\ \A i \in Breaks(t) : i <= n + 1
      BY <2>1, <1>1, <1>5 DEF Breaks
    <3>2. LastOf(Breaks(t)) = n + 1
      BY <3>1, LastOfIs
    <3>3. q.col = 1 + Len(t) - LastOf(Breaks(t))
      BY <3>1 DEF PlaceIn
    <3> QED  BY <2>1, <3>2, <3>3, <1>1
  <2>2. CASE c \notin {LF, CR}
    <3>1. Breaks(t) = Breaks(s)
      BY <2>2, <1>5
    <3> DEFINE last == IF Breaks(s) = {} THEN 0 ELSE LastOf(Breaks(s))
    <3>2. q.col = 1 + Len(t) - last /\ p.col = 1 + n - last
      BY <3>1 DEF PlaceIn
    <3>3. last \in Int
      <4>1. Breaks(s) \in SUBSET (1 .. n)
        BY <1>1 DEF Breaks
      <4>2. Breaks(s) # {} => LastOf(Breaks(s)) \in 1 .. n
        BY <4>1, <1>1, LastExists
      <4> QED  BY <4>2
    <3> QED  BY <2>2, <3>2, <3>3, <1>1
  <2> QED  BY <2>1, <2>2
<1>7. q.offset = p.offset + 1
  BY <1>1 DEF PlaceIn
<1>8. q.last_was_cr = (c = CR)
  BY <1>1 DEF PlaceIn
<1>9. q = [line |-> q.line, col |-> q.col, offset |-> q.offset, last_was_cr |-> q.last_was_cr]
  BY DEF PlaceIn
<1>10. PlaceIn(t) = After(p, c)
  BY <1>4, <1>6, <1>7, <1>8, <1>9 DEF After
<1> QED  BY <1>10 DEF t

-----------------------------------------------------------------------------
(* One more block                                                          *)

NoCR(b) == \A i \in DOMAIN b : b[i] # CR

\* The LF that begins the block is not the second of a pair.
Whole(s, b) == ~(s # <<>> /\ s[Len(s)] = CR /\ b[1] = LF)

LEMMA BlockMore ==
  ASSUME NEW s \in Seq(Chars), NEW b \in Seq(Chars), Len(b) > 0, NoCR(b), Whole(s, b)
  PROVE  PlaceIn(s \o b) = AfterBlock(PlaceIn(s), b)
<1> DEFINE n == Len(s)
           m == Len(b)
           t == s \o b
           p == PlaceIn(s)
           q == PlaceIn(t)
           new == Shifted(NewLines(b), n)
<1>1. /\ n \in Nat /\ m \in Nat /\ m > 0 /\ t \in Seq(Chars) /\ Len(t) = n + m
      /\ DOMAIN s = 1 .. n /\ DOMAIN b = 1 .. m /\ DOMAIN t = 1 .. n + m /\ t # <<>>
      /\ \A i \in 1 .. n : t[i] = s[i]
      /\ \A i \in 1 .. m : t[n + i] = b[i]
  OBVIOUS
<1> HIDE DEF t
<1>2. \A i \in 1 .. m : b[i] # CR
  BY <1>1 DEF NoCR
<1>3. /\ NewLines(b) \subseteq 1 .. m
      /\ IsFiniteSet(NewLines(b)) /\ Cardinality(NewLines(b)) \in Nat
  <2>1. NewLines(b) \in SUBSET DOMAIN b
    BY DEF NewLines
  <2> QED  BY <2>1, <1>1, PositionsFinite
<1>4. \A k \in 1 .. n + m : k \in 1 .. n \/ \E i \in 1 .. m : k = n + i
  <2> SUFFICES ASSUME NEW k \in 1 .. n + m, k \notin 1 .. n PROVE \E i \in 1 .. m : k = n + i
    OBVIOUS
  <2>1. k - n \in 1 .. m /\ k = n + (k - n)
    BY <1>1
  <2> QED  BY <2>1
<1>5. \A i \in 1 .. m : n + i \in new <=> b[i] = LF
  <2> SUFFICES ASSUME NEW i \in 1 .. m PROVE n + i \in new <=> b[i] = LF
    OBVIOUS
  <2>1. n + i \in new <=> \E j \in NewLines(b) : n + i = n + j
    BY DEF Shifted
  <2>2. \A j \in NewLines(b) : n + i = n + j <=> i = j
    <3> SUFFICES ASSUME NEW j \in NewLines(b) PROVE n + i = n + j <=> i = j
      OBVIOUS
    <3>1. n \in Int /\ i \in Int /\ j \in Int
      BY <1>1, <1>3
    <3> QED  BY <3>1
  <2>3. i \in NewLines(b) <=> b[i] = LF
    BY <1>1 DEF NewLines
  <2> HIDE DEF new
  <2> QED  BY <2>1, <2>2, <2>3
<1>6. new \subseteq 1 .. n + m /\ \A k \in new : k > n
  BY <1>1, <1>3 DEF Shifted
<1> HIDE DEF new
<1>7. Terminators(t) = Terminators(s) \cup new
  <2>1. ASSUME NEW k \in 1 .. n PROVE k \in Terminators(t) <=> k \in Terminators(s)
    <3>1. t[k] = s[k] /\ (k > 1 => k - 1 \in 1 .. n) /\ k \in DOMAIN s /\ k \in DOMAIN t
      BY <1>1
    <3> QED  BY <3>1, <1>1 DEF Terminators
  <2>2. ASSUME NEW i \in 1 .. m PROVE n + i \in Terminators(t) <=> b[i] = LF
    <3>1. n + i \in DOMAIN t /\ t[n + i] = b[i] /\ b[i] # CR
      BY <1>1, <1>2
    <3>2. n + i \in Terminators(t) <=> b[i] = LF /\ (n + i > 1 => t[n + i - 1] # CR)
      BY <3>1 DEF Terminators
    <3>3. CASE i = 1
      <4>1. n + i - 1 = n /\ (n + i > 1 <=> n > 0) /\ (n > 0 => t[n] = s[n] /\ s # <<>>)
        BY <3>3, <1>1
      <4>2. b[i] = LF /\ n > 0 => s[n] # CR
        BY <3>3, <4>1 DEF Whole
      <4> QED  BY <3>2, <4>1, <4>2
    <3>4. CASE i > 1
      <4>1. i - 1 \in 1 .. m /\ n + i - 1 = n + (i - 1)
        BY <3>4, <1>1
      <4>2. t[n + i - 1] = b[i - 1] /\ b[i - 1] # CR
        BY <4>1, <1>1, <1>2
      <4> QED  BY <3>2, <4>2
    <3> QED  BY <3>3, <3>4
  <2>3. Terminators(t) \subseteq 1 .. n + m /\ Terminators(s) \subseteq 1 .. n
    BY <1>1 DEF Terminators
  <2>4. \A k \in 1 .. n : k \notin new
    BY <1>1, <1>6
  <2>5. \A i \in 1 .. m : n + i \notin Terminators(s)
    BY <2>3, <1>1
  <2>6. 1 .. n \subseteq 1 .. n + m
    BY <1>1
  <2>7. \A k \in 1 .. n + m : k \in Terminators(t) <=> k \in Terminators(s) \/ k \in new
    BY <2>1, <2>2, <2>4, <2>5, <1>4, <1>5
  <2> QED  BY <2>3, <2>6, <2>7, <1>6
<1>8. q.line = p.line + Cardinality(NewLines(b))
  <2>1. IsFiniteSet(new) /\ Cardinality(new) = Cardinality(NewLines(b))
    <3>1. NewLines(b) \in SUBSET Nat
      BY <1>1, <1>3
    <3> QED  BY <3>1, <1>1, <1>3, ShiftedSize DEF new
  <2>2. IsFiniteSet(Terminators(s)) /\ Cardinality(Terminators(s)) \in Nat
    BY PlaceInType, FS_CardinalityType
  <2>3. Terminators(s) \cap new = {}
    BY <1>1, <1>6, PlaceInType
  <2>4. Cardinality(Terminators(s) \cup new) = Cardinality(Terminators(s)) + Cardinality(new) - 0
    BY <2>1, <2>2, <2>3, FS_Union, FS_EmptySet
  <2>5. q.line = 1 + Cardinality(Terminators(t)) /\ p.line = 1 + Cardinality(Terminators(s))
    BY DEF PlaceIn
  <2> QED  BY <2>1, <2>2, <2>4, <2>5, <1>3, <1>7
<1>9. Breaks(t) = Breaks(s) \cup new
  <2>1. \A k \in 1 .. n : k \in Breaks(t) <=> k \in Breaks(s)
    BY <1>1 DEF Breaks
  <2>2. \A i \in 1 .. m : n + i \in Breaks(t) <=> b[i] = LF
    BY <1>1, <1>2 DEF Breaks
  <2>3. Breaks(t) \subseteq 1 .. n + m /\ Breaks(s) \subseteq 1 .. n
    BY <1>1 DEF Breaks
  <2>4. \A k \in 1 .. n : k \notin new
    BY <1>1, <1>6
  <2>5. \A i \in 1 .. m : n + i \notin Breaks(s)
    BY <2>3, <1>1
  <2>6. 1 .. n \subseteq 1 .. n + m
    BY <1>1
  <2>7. \A k \in 1 .. n + m : k \in Breaks(t) <=> k \in Breaks(s) \/ k \in new
    BY <2>1, <2>2, <2>4, <2>5, <1>4, <1>5
  <2> QED  BY <2>3, <2>6, <2>7, <1>6
<1>10. q.col = IF NewLines(b) # {} THEN 1 + Trailing(b) ELSE p.col + m
  <2>1. CASE NewLines(b) # {}
    <3> DEFINE l == LastOf(NewLines(b))
    <3>1. l \in NewLines(b) /\ \A j \in NewLines(b) : j <= l
      BY <2>1, <1>1, <1>3, LastExists
    <3>2. l \in 1 .. m
      BY <3>1, <1>3
    <3> HIDE DEF l
    <3>3. n + l \in Breaks(t)
      BY <3>1, <1>9 DEF new, Shifted
    <3>4. \A k \in new : k <= n + l
      BY <3>1, <3>2, <1>1, <1>3 DEF new, Shifted
    <3>5. Breaks(s) \subseteq 1 .. n
      BY <1>1 DEF Breaks
    <3>6. Breaks(t) \in SUBSET Int /\ \A k \in Breaks(t) : k <= n + l
      <4>1. Breaks(t) \subseteq 1 .. n + m
        BY <1>1 DEF Breaks
      <4>2. \A k \in 1 .. n : k <= n + l
        BY <3>2, <1>1
      <4>3. \A k \in Breaks(t) : k \in 1 .. n \/ k \in new
        BY <3>5, <1>9
      <4> QED  BY <4>1, <4>2, <4>3, <3>4
    <3>7. LastOf(Breaks(t)) = n + l
      BY <3>3, <3>6, LastOfIs
    <3>8. q.col = 1 + Len(t) - LastOf(Breaks(t))
      BY <3>3 DEF PlaceIn
    <3>9. Trailing(b) = m - l
      BY DEF Trailing, l
    <3> QED  BY <2>1, <3>2, <3>7, <3>8, <3>9, <1>1
  <2>2. CASE NewLines(b) = {}
    <3>1. Breaks(t) = Breaks(s)
      <4>1. new = {}
        BY <2>2 DEF new, Shifted
      <4> QED  BY <4>1, <1>9
    <3> DEFINE last == IF Breaks(s) = {} THEN 0 ELSE LastOf(Breaks(s))
    <3>2. q.col = 1 + Len(t) - last /\ p.col = 1 + n - last
      BY <3>1 DEF PlaceIn
    <3>3. last \in Int
      <4>1. Breaks(s) \in SUBSET (1 .. n)
        BY <1>1 DEF Breaks
      <4>2. Breaks(s) # {} => LastOf(Breaks(s)) \in 1 .. n
        BY <4>1, <1>1, LastExists
      <4> QED  BY <4>2
    <3> HIDE DEF last
    <3> QED  BY <2>2, <3>2, <3>3, <1>1
  <2> QED  BY <2>1, <2>2
<1>11. q.offset = p.offset + m
  BY <1>1 DEF PlaceIn
<1>12. q.last_was_cr = FALSE
  <2>1. n + m \in 1 .. n + m /\ m \in 1 .. m
    BY <1>1
  <2>2. t[Len(t)] # CR
    BY <2>1, <1>1, <1>2
  <2> QED  BY <2>2 DEF PlaceIn
<1>13. q = [line |-> q.line, col |-> q.col, offset |-> q.offset, last_was_cr |-> q.last_was_cr]
  BY DEF PlaceIn
<1>14. PlaceIn(t) = AfterBlock(p, b)
  BY <1>8, <1>10, <1>11, <1>12, <1>13 DEF AfterBlock
<1> QED  BY <1>14 DEF t

-----------------------------------------------------------------------------
(* The tracker                                                             *)

TrackTypes ==
  /\ place \in Placed /\ fed \in Seq(Chars)
  /\ feed \in [left : Seq(Chars), blocks : BOOLEAN]
  /\ split \in BOOLEAN

\* The next block does not begin in the middle of a pair.
NotSplit == feed.left # <<>> /\ HasBlock /\ NoReturn => ~(Pending /\ feed.left[1] = LF)

TrackInv ==
  /\ TrackTypes
  /\ ~split => place = PlaceIn(fed) /\ NotSplit

LEMMA EmptyPlace == PlaceIn(<<>>) = AtStart
<1>1. Terminators(<<>>) = {} /\ Breaks(<<>>) = {}
  BY DEF Terminators, Breaks
<1>2. /\ 1 + Cardinality(Terminators(<<>>)) = 1
      /\ 1 + Len(<<>>) - (IF Breaks(<<>>) = {} THEN 0 ELSE LastOf(Breaks(<<>>))) = 1
      /\ Len(<<>>) = 0
      /\ (<<>> # <<>> /\ <<>>[Len(<<>>)] = CR) = FALSE
  BY <1>1, FS_EmptySet
<1> QED  BY <1>2 DEF PlaceIn, AtStart

LEMMA TrackInvInit == TrackInit => TrackInv
<1> SUFFICES ASSUME TrackInit PROVE TrackInv
  OBVIOUS
<1>1. TrackTypes
  <2>1. <<>> \in Seq(Chars)
    OBVIOUS
  <2>2. AtStart \in Placed
    BY DEF AtStart, Placed
  <2>3. NotFed \in [left : Seq(Chars), blocks : BOOLEAN]
    BY <2>1 DEF NotFed
  <2> QED  BY <2>1, <2>2, <2>3 DEF TrackInit, TrackTypes
<1>2. NotSplit
  BY DEF TrackInit, NotSplit, NotFed
<1> QED  BY <1>1, <1>2, EmptyPlace DEF TrackInit, TrackInv

LEMMA AfterType ==
  ASSUME NEW p \in Placed, NEW c
  PROVE  After(p, c) \in Placed
  BY DEF After, Placed

LEMMA AfterBlockType ==
  ASSUME NEW p \in Placed, NEW b \in Seq(Chars)
  PROVE  AfterBlock(p, b) \in Placed
<1>1. NewLines(b) \in SUBSET DOMAIN b /\ DOMAIN b = 1 .. Len(b) /\ Len(b) \in Nat
  BY DEF NewLines
<1>2. Cardinality(NewLines(b)) \in Nat
  BY <1>1, PositionsFinite
<1>3. NewLines(b) # {} => Trailing(b) \in Nat
  <2> SUFFICES ASSUME NewLines(b) # {} PROVE Trailing(b) \in Nat
    OBVIOUS
  <2>1. LastOf(NewLines(b)) \in 1 .. Len(b)
    BY <1>1, LastExists
  <2> QED  BY <2>1, <1>1 DEF Trailing
<1> QED  BY <1>1, <1>2, <1>3 DEF AfterBlock, Placed

\* What the tracker is given may be any text.
TrackStep ==
  \/ \E c \in Chars : AdvanceOne(c)
  \/ \E data \in Seq(Chars) : Begin(data)
  \/ TakeBlock \/ TakeOne \/ Reset

LEMMA TrackInvStep == TrackInv /\ [TrackStep]_trackVars => TrackInv'
<1> SUFFICES ASSUME TrackInv, [TrackStep]_trackVars PROVE TrackInv'
  OBVIOUS
<1>1. /\ place \in Placed /\ fed \in Seq(Chars) /\ split \in BOOLEAN
      /\ feed \in [left : Seq(Chars), blocks : BOOLEAN]
      /\ feed.left \in Seq(Chars) /\ feed.blocks \in BOOLEAN
      /\ Block \in Nat /\ Block > 0
  BY BlockAssumption DEF TrackInv, TrackTypes
<1>2. ~split => place = PlaceIn(fed) /\ NotSplit
  BY DEF TrackInv
<1>3. ASSUME NEW c \in Chars, AdvanceOne(c) PROVE TrackInv'
  <2>1. feed.left = <<>> /\ feed' = feed /\ split' = split /\ fed' = Append(fed, c) /\ place' = After(place, c)
    BY <1>3 DEF AdvanceOne, Between
  <2>2. TrackTypes'
    BY <2>1, <1>1, AfterType DEF TrackTypes
  <2>3. ~split => place' = PlaceIn(fed')
    BY <2>1, <1>1, <1>2, OneMore
  <2>4. NotSplit'
    BY <2>1 DEF NotSplit
  <2> QED  BY <2>1, <2>2, <2>3, <2>4 DEF TrackInv
<1>4. ASSUME NEW data \in Seq(Chars), Begin(data) PROVE TrackInv'
  <2>1. /\ data \in Seq(Chars) /\ data # <<>> /\ place' = place /\ fed' = fed
        /\ feed' = [left |-> data, blocks |-> TRUE]
        /\ split' = (split \/ (Pending /\ data[1] = LF /\ Len(data) >= Block
                               /\ \A i \in 1 .. Block : data[i] # CR))
    BY <1>4 DEF Begin
  <2>2. TrackTypes'
    BY <2>1, <1>1 DEF TrackTypes
  <2>3. ASSUME ~split' PROVE place' = PlaceIn(fed') /\ NotSplit'
    <3>1. ~split /\ place' = PlaceIn(fed')
      BY <2>1, <2>3, <1>1, <1>2
    <3>2. SUFFICES ASSUME HasBlock', NoReturn' PROVE ~(Pending' /\ data[1] = LF)
      BY <2>1, <3>1 DEF NotSplit
    <3>3. Len(data) >= Block
      BY <2>1, <3>2 DEF HasBlock
    <3>4. \A i \in 1 .. Block : data[i] # CR
      <4>1. DOMAIN SubSeq(data, 1, Block) = 1 .. Block
            /\ \A i \in 1 .. Block : SubSeq(data, 1, Block)[i] = data[i]
        BY <2>1, <3>3, <1>1
      <4>2. \A i \in DOMAIN SubSeq(data, 1, Block) : SubSeq(data, 1, Block)[i] # CR
        BY <2>1, <3>2 DEF NoReturn, FirstBlock
      <4> QED  BY <4>1, <4>2
    <3>5. Pending' <=> Pending
      BY <2>1 DEF Pending
    <3> QED  BY <2>1, <2>3, <3>3, <3>4, <3>5
  <2> QED  BY <2>2, <2>3 DEF TrackInv
<1>5. ASSUME TakeBlock PROVE TrackInv'
  <2> DEFINE b == FirstBlock
  <2>1. /\ feed.left # <<>> /\ HasBlock /\ NoReturn /\ split' = split
        /\ place' = AfterBlock(place, b) /\ fed' = fed \o b
        /\ feed' = [feed EXCEPT !.left = Rest(Block)]
    BY <1>5 DEF TakeBlock, Between
  <2>2. Len(feed.left) >= Block
    BY <2>1 DEF HasBlock
  <2>3. /\ b \in Seq(Chars) /\ Len(b) = Block /\ DOMAIN b = 1 .. Block
        /\ \A i \in 1 .. Block : b[i] = feed.left[i]
    BY <2>2, <1>1 DEF FirstBlock
  <2>4. Rest(Block) \in Seq(Chars)
    BY <2>2, <1>1 DEF Rest
  <2>5. TrackTypes'
    <3>1. place' \in Placed
      BY <2>1, <2>3, <1>1, AfterBlockType
    <3>2. fed' \in Seq(Chars)
      BY <2>1, <2>3, <1>1
    <3>3. feed' \in [left : Seq(Chars), blocks : BOOLEAN]
      BY <2>1, <2>4, <1>1
    <3>4. split' \in BOOLEAN
      BY <2>1, <1>1
    <3> QED  BY <3>1, <3>2, <3>3, <3>4 DEF TrackTypes
  <2>6. NoCR(b) /\ Len(b) > 0
    BY <2>1, <2>3, <1>1 DEF NoReturn, NoCR
  <2> HIDE DEF b
  <2>7. ASSUME ~split PROVE place' = PlaceIn(fed')
    <3>1. b[1] = feed.left[1]
      BY <2>3, <1>1
    <3>2. Whole(fed, b)
      BY <2>1, <2>7, <3>1, <1>2 DEF NotSplit, Pending, Whole
    <3> QED  BY <2>1, <2>3, <2>6, <2>7, <3>2, <1>1, <1>2, BlockMore
  <2>8. ~Pending'
    <3>1. fed'[Len(fed')] = b[Block] /\ b[Block] # CR
      BY <2>1, <2>3, <2>6, <1>1 DEF NoCR
    <3> QED  BY <3>1 DEF Pending
  <2>9. NotSplit'
    BY <2>8 DEF NotSplit
  <2> QED  BY <2>1, <2>5, <2>7, <2>9 DEF TrackInv
<1>6. ASSUME TakeOne PROVE TrackInv'
  <2>1. /\ feed.left # <<>> /\ split' = split
        /\ place' = After(place, feed.left[1]) /\ fed' = Append(fed, feed.left[1])
        /\ feed' = [left |-> Rest(1), blocks |-> FALSE]
    BY <1>6 DEF TakeOne, Between
  <2>2. feed.left[1] \in Chars /\ Rest(1) \in Seq(Chars)
    BY <2>1, <1>1 DEF Rest
  <2>3. TrackTypes'
    BY <2>1, <2>2, <1>1, AfterType DEF TrackTypes
  <2>4. ~split => place' = PlaceIn(fed')
    BY <2>1, <2>2, <1>1, <1>2, OneMore
  <2>5. NotSplit'
    BY <2>1 DEF NotSplit, HasBlock
  <2> QED  BY <2>1, <2>3, <2>4, <2>5 DEF TrackInv
<1>7. ASSUME Reset PROVE TrackInv'
  <2>1. place' = AtStart /\ fed' = <<>> /\ split' = FALSE /\ feed' = feed
    BY <1>7 DEF Reset
  <2>2. <<>> \in Seq(Chars) /\ AtStart \in Placed
    BY DEF AtStart, Placed
  <2>3. TrackTypes'
    BY <2>1, <2>2, <1>1 DEF TrackTypes
  <2>4. ~Pending'
    BY <2>1 DEF Pending
  <2> QED  BY <2>1, <2>3, <2>4, EmptyPlace DEF TrackInv, NotSplit
<1>8. ASSUME UNCHANGED trackVars PROVE TrackInv'
  <2>1. place' = place /\ feed' = feed /\ fed' = fed /\ split' = split
    BY <1>8 DEF trackVars
  <2>2. (HasBlock' <=> HasBlock) /\ (NoReturn' <=> NoReturn) /\ (Pending' <=> Pending)
    BY <2>1 DEF HasBlock, NoReturn, FirstBlock, Pending
  <2> QED  BY <2>1, <2>2, <1>1, <1>2 DEF TrackInv, TrackTypes, NotSplit
<1> QED  BY <1>3, <1>4, <1>5, <1>6, <1>7, <1>8 DEF TrackStep

LEMMA TrackInvNext == TrackInv /\ [TrackNext]_trackVars => TrackInv'
  BY TrackInvStep, CallsAssumption DEF TrackNext, TrackStep

\* The tracker's line, column and offset are those of counting every line
\* terminator once, however the text is cut into calls and blocks, as long as no
\* call of a whole block begins between a CR and its LF (the bulk advance).
THEOREM PlaceCorrect == TrackSpec => []PlaceIsTheReference
<1>1. TrackInit => TrackInv
  BY TrackInvInit
<1>2. TrackInv /\ [TrackNext]_trackVars => TrackInv'
  BY TrackInvNext
<1>3. TrackInv => PlaceIsTheReference
  BY DEF TrackInv, PlaceIsTheReference
<1> QED  BY <1>1, <1>2, <1>3, PTL DEF TrackSpec

-----------------------------------------------------------------------------
(* Validation                                                              *)

Byte == 0 .. 255

\* How many bytes a character that begins with b has.
Size(b) == Announced(b).len

LEMMA ByteIs ==
  ASSUME NEW b \in Byte
  PROVE  b \in Int /\ b >= 0 /\ b <= 255
  BY DEF Byte

\* What a byte announces, without the order of the cases.
AnnouncedRight(b, a) ==
  \/ b <= 127         /\ a.len = 1 /\ a.bits = b       /\ a.min = 0
  \/ b \in 192 .. 223 /\ a.len = 2 /\ a.bits = b - 192 /\ a.min = 128
  \/ b \in 224 .. 239 /\ a.len = 3 /\ a.bits = b - 224 /\ a.min = 2048
  \/ b \in 240 .. 247 /\ a.len = 4 /\ a.bits = b - 240 /\ a.min = 65536
  \/ (b \in 128 .. 191 \/ b >= 248) /\ a.len = 0

LEMMA AnnouncedIs ==
  ASSUME NEW b \in Byte
  PROVE  AnnouncedRight(b, Announced(b))
<1>1. b \in Int /\ b >= 0 /\ b <= 255
  BY ByteIs
<1> QED  BY <1>1, SMT DEF Announced, AnnouncedRight

\* A well-formed sequence is as long as its first byte announces.
LEMMA WellFormedSize ==
  ASSUME NEW q \in Seq(Byte), Len(q) \in 1 .. 4, WellFormed(q)
  PROVE  Len(q) = Size(q[1])
<1> DEFINE b == q[1]
<1>1. b \in Byte
  OBVIOUS
<1>2. \/ Len(q) = 1 /\ b \in 0 .. 127
      \/ Len(q) = 2 /\ b \in 194 .. 223
      \/ Len(q) = 3 /\ b \in 224 .. 239
      \/ Len(q) = 4 /\ b \in 240 .. 244
  <2> HIDE DEF b
  <2>1. CASE Len(q) = 1
    BY <2>1 DEF WellFormed, b
  <2>2. CASE Len(q) = 2
    BY <2>2 DEF WellFormed, b
  <2>3. CASE Len(q) = 3
    BY <2>3 DEF WellFormed, b
  <2>4. CASE Len(q) = 4
    BY <2>4 DEF WellFormed, b
  <2> QED  BY <2>1, <2>2, <2>3, <2>4
<1> HIDE DEF b
<1>3. Size(b) = Announced(b).len /\ b \in Int
  BY <1>1, ByteIs DEF Size
<1> DEFINE a == Announced(b)
<1>4. AnnouncedRight(b, a)
  BY <1>1, AnnouncedIs
<1> HIDE DEF a
<1>5. Len(q) = a.len
  <2> DEFINE n == Len(q)
             l == a.len
  <2>1. \/ n = 1 /\ b \in 0 .. 127
        \/ n = 2 /\ b \in 194 .. 223
        \/ n = 3 /\ b \in 224 .. 239
        \/ n = 4 /\ b \in 240 .. 244
    BY <1>2
  <2>2. /\ b <= 127 => l = 1
        /\ b \in 192 .. 223 => l = 2
        /\ b \in 224 .. 239 => l = 3
        /\ b \in 240 .. 247 => l = 4
    BY <1>3, <1>4, SMT DEF AnnouncedRight
  <2> HIDE DEF n, l
  <2>3. n = l
    BY <1>3, <2>1, <2>2, SMT
  <2> QED  BY <2>3 DEF n, l
<1>6. Len(q) = Size(b)
  BY <1>3, <1>5 DEF a
<1> QED  BY <1>6 DEF b

LEMMA CodePointIs ==
  ASSUME NEW s \in Seq(Byte), NEW i \in 1 .. Len(s), NEW n \in 1 .. 4, n = Size(s[i]),
         i + n - 1 <= Len(s)
  PROVE  LET bits == Announced(s[i]).bits IN
         /\ n = 1 => CodePoint(s, i) = bits
         /\ n = 2 => CodePoint(s, i) = bits * 64 + (s[i + 1] % 64)
         /\ n = 3 => CodePoint(s, i) = (bits * 64 + (s[i + 1] % 64)) * 64 + (s[i + 2] % 64)
         /\ n = 4 => CodePoint(s, i) = ((bits * 64 + (s[i + 1] % 64)) * 64 + (s[i + 2] % 64)) * 64
                                         + (s[i + 3] % 64)
<1> DEFINE bits == Announced(s[i]).bits
           Described(f) == f = [j \in i .. i + n - 1 |->
                                  IF j = i THEN bits ELSE f[j - 1] * 64 + (s[j] % 64)]
           cp == CHOOSE f : Described(f)
           c1 == bits
           c2 == c1 * 64 + (s[i + 1] % 64)
           c3 == c2 * 64 + (s[i + 2] % 64)
           c4 == c3 * 64 + (s[i + 3] % 64)
           f == [j \in i .. i + n - 1 |->
                   IF j = i THEN c1 ELSE IF j = i + 1 THEN c2 ELSE IF j = i + 2 THEN c3 ELSE c4]
<1>1. CodePoint(s, i) = cp[i + n - 1]
  BY DEF CodePoint, Size
<1>2. Described(f)
  <2>1. ASSUME NEW j \in i .. i + n - 1
        PROVE  f[j] = IF j = i THEN bits ELSE f[j - 1] * 64 + (s[j] % 64)
    <3> HIDE DEF bits
    <3>1. j = i \/ j = i + 1 \/ j = i + 2 \/ j = i + 3
      OBVIOUS
    <3>2. j # i => j - 1 \in i .. i + n - 1
      OBVIOUS
    <3>3. CASE j = i
      BY <3>3
    <3>4. CASE j = i + 1
      <4>1. f[j] = c2 /\ f[j - 1] = c1
        BY <3>4, <3>2
      <4> HIDE DEF f, c1
      <4> QED  BY <3>4, <4>1
    <3>5. CASE j = i + 2
      <4>1. f[j] = c3 /\ f[j - 1] = c2
        BY <3>5, <3>2
      <4> HIDE DEF f, c2
      <4> QED  BY <3>5, <4>1
    <3>6. CASE j = i + 3
      <4>1. f[j] = c4 /\ f[j - 1] = c3
        BY <3>6, <3>2
      <4> HIDE DEF f, c3
      <4> QED  BY <3>6, <4>1
    <3> QED  BY <3>1, <3>3, <3>4, <3>5, <3>6
  <2>2. f = [j \in i .. i + n - 1 |-> f[j]]
    OBVIOUS
  <2> HIDE DEF f
  <2>3. Described(f)
    BY <2>1, <2>2, Zenon
  <2> QED  BY <2>3
<1>3. Described(cp)
  <2> HIDE DEF Described, f
  <2> QED  BY <1>2
<1> HIDE DEF cp
<1>4. \A j \in i .. i + n - 1 : cp[j] = IF j = i THEN bits ELSE cp[j - 1] * 64 + (s[j] % 64)
  BY <1>3
<1> HIDE DEF Described, f, bits
<1>5. cp[i] = c1
  BY <1>4
<1>6. n > 1 => cp[i + 1] = c2
  <2>1. n > 1 => i + 1 \in i .. i + n - 1 /\ i + 1 - 1 = i /\ i + 1 # i
    OBVIOUS
  <2> HIDE DEF c1
  <2> QED  BY <1>4, <1>5, <2>1
<1>7. n > 2 => cp[i + 2] = c3
  <2>1. n > 2 => i + 2 \in i .. i + n - 1 /\ i + 2 - 1 = i + 1 /\ i + 2 # i
    OBVIOUS
  <2> HIDE DEF c2
  <2> QED  BY <1>4, <1>6, <2>1
<1>8. n > 3 => cp[i + 3] = c4
  <2>1. n > 3 => i + 3 \in i .. i + n - 1 /\ i + 3 - 1 = i + 2 /\ i + 3 # i
    OBVIOUS
  <2> HIDE DEF c3
  <2> QED  BY <1>4, <1>7, <2>1
<1>9. CASE n = 1
  <2>1. i + n - 1 = i
    BY <1>9
  <2> QED  BY <1>9, <1>1, <1>5, <2>1 DEF bits
<1>10. CASE n = 2
  <2>1. i + n - 1 = i + 1
    BY <1>10
  <2> QED  BY <1>10, <1>1, <1>6, <2>1 DEF bits
<1>11. CASE n = 3
  <2>1. i + n - 1 = i + 2
    BY <1>11
  <2> QED  BY <1>11, <1>1, <1>7, <2>1 DEF bits
<1>12. CASE n = 4
  <2>1. i + n - 1 = i + 3
    BY <1>12
  <2> QED  BY <1>12, <1>1, <1>8, <2>1 DEF bits
<1> QED  BY <1>9, <1>10, <1>11, <1>12

\* The code points of two, three and four bytes.
Point2(b, c)       == (b - 192) * 64 + (c % 64)
Point3(b, c, d)    == ((b - 224) * 64 + (c % 64)) * 64 + (d % 64)
Point4(b, c, d, e) == (((b - 240) * 64 + (c % 64)) * 64 + (d % 64)) * 64 + (e % 64)

\* What their bytes are.
Lead2(b)   == b \in 192 .. 223
Lead3(b)   == b \in 224 .. 239
Lead4(b)   == b \in 240 .. 247
Follows(b) == b \in 128 .. 191

\* Which of them are no characters.
Refused3(b, c) == (b = 224 /\ c < 160) \/ (b = 237 /\ c >= 160)
Refused4(b, c) == (b = 240 /\ c < 144) \/ (b = 244 /\ c >= 144) \/ b > 244

LEMMA TwoBytes ==
  ASSUME NEW b, Lead2(b), NEW c, Follows(c), NEW min, min = 128
  PROVE  NoCharacter(Point2(b, c), min) <=> b < 194
<1> USE DEF Lead2, Follows
<1>1. c % 64 = c - 128
  OBVIOUS
<1> QED  BY <1>1, SMT DEF NoCharacter, HighSurrogates, LowSurrogates, Point2

LEMMA ThreeBytes ==
  ASSUME NEW b, Lead3(b), NEW c, Follows(c), NEW d, Follows(d), NEW min, min = 2048
  PROVE  NoCharacter(Point3(b, c, d), min) <=> Refused3(b, c)
<1> USE DEF Lead3, Follows
<1> DEFINE cp == Point3(b, c, d)
<1>1. c % 64 = c - 128 /\ d % 64 = d - 128
  OBVIOUS
<1>2. cp = b * 4096 + c * 64 + d - 925824
  BY <1>1, SMT DEF Point3
<1> HIDE DEF cp
<1>3. cp \in Int
  BY <1>2
<1>4. cp < 2048 <=> b = 224 /\ c < 160
  BY <1>2
<1>5. cp >= 55296 /\ cp <= 57343 <=> b = 237 /\ c >= 160
  BY <1>2
<1>6. ~(cp > 1114111)
  BY <1>2
<1>7. NoCharacter(cp, min) <=> Refused3(b, c)
  BY <1>3, <1>4, <1>5, <1>6, SMT DEF NoCharacter, HighSurrogates, LowSurrogates, Refused3
<1> QED  BY <1>7 DEF cp

LEMMA FourBytes ==
  ASSUME NEW b, Lead4(b), NEW c, Follows(c), NEW d, Follows(d), NEW e, Follows(e),
         NEW min, min = 65536
  PROVE  NoCharacter(Point4(b, c, d, e), min) <=> Refused4(b, c)
<1> USE DEF Lead4, Follows
<1> DEFINE cp == Point4(b, c, d, e)
<1>1. c % 64 = c - 128 /\ d % 64 = d - 128 /\ e % 64 = e - 128
  OBVIOUS
<1>2. cp = (b - 240) * 262144 + (c - 128) * 4096 + (d - 128) * 64 + (e - 128)
  BY <1>1, SMT DEF Point4
<1> HIDE DEF cp
<1>3. cp \in Int
  BY <1>2
<1>4. cp < 65536 <=> b = 240 /\ c < 144
  BY <1>2
<1>5. cp > 1114111 <=> (b = 244 /\ c >= 144) \/ b > 244
  BY <1>2
<1>6. NoCharacter(cp, min) <=> Refused4(b, c)
  BY <1>3, <1>4, <1>5, SMT DEF NoCharacter, HighSurrogates, LowSurrogates, Refused4
<1> QED  BY <1>6 DEF cp

Continued(s, i, n) == \A j \in i + 1 .. i + n - 1 : s[j] \in 128 .. 191

\* What is refused at i, with the n bytes that are announced there.
LEMMA InvalidIs ==
  ASSUME NEW s \in Seq(Byte), NEW i \in 1 .. Len(s), NEW n \in 1 .. 4, n = Size(s[i]),
         i + n - 1 <= Len(s)
  PROVE  ~InvalidAt(s, i) <=> Continued(s, i, n) /\ ~NoCharacter(CodePoint(s, i), Announced(s[i]).min)
<1>0. Len(s) \in Nat
  OBVIOUS
<1>1. n = Announced(s[i]).len
  BY DEF Size
<1>2. n # 0 /\ ~(i + n > Len(s) + 1)
  BY <1>0
<1> QED  BY <1>1, <1>2 DEF InvalidAt, Continued

\* What the validator accepts at i is a character of Unicode's table, and what it
\* refuses begins none.
LEMMA OneCharacter ==
  ASSUME NEW s \in Seq(Byte), NEW i \in 1 .. Len(s), NEW n \in 1 .. 4, n = Size(s[i]),
         i + n - 1 <= Len(s)
  PROVE  ~InvalidAt(s, i) <=> WellFormed(SubSeq(s, i, i + n - 1))
<1> DEFINE q == SubSeq(s, i, i + n - 1)
           a == Announced(s[i])
           cp == CodePoint(s, i)
           b == s[i]
           c == s[i + 1]
           d == s[i + 2]
           e == s[i + 3]
<1>1. b \in Byte /\ AnnouncedRight(b, a) /\ b \in Int /\ a.len = n
  <2>1. b \in Byte
    OBVIOUS
  <2> QED  BY <2>1, AnnouncedIs, ByteIs DEF Size
<1>2. /\ q \in Seq(Byte) /\ Len(q) = n /\ q[1] = b
      /\ n > 1 => q[2] = c
      /\ n > 2 => q[3] = d
      /\ n > 3 => q[4] = e
  <2> DEFINE z == i + n - 1
  <2>0. z \in Int /\ i \in Int /\ i <= z /\ z - i + 1 = n /\ \A k \in i .. z : s[k] \in Byte
    <3>1. Len(s) \in Nat
      OBVIOUS
    <3>2. ASSUME NEW k \in i .. z PROVE k \in 1 .. Len(s)
      BY <3>1
    <3>3. z \in Int /\ i <= z /\ z - i + 1 = n
      BY <3>1
    <3> HIDE DEF z
    <3> QED  BY <3>2, <3>3
  <2>1. q \in Seq(Byte) /\ Len(q) = n /\ \A k \in 1 .. n : q[k] = s[i + k - 1]
    <3> HIDE DEF z
    <3>1. /\ SubSeq(s, i, z) \in Seq(Byte)
          /\ Len(SubSeq(s, i, z)) = IF i <= z THEN z - i + 1 ELSE 0
          /\ \A k \in 1 .. z - i + 1 : SubSeq(s, i, z)[k] = s[i + k - 1]
      BY <2>0, SubSeqProperties
    <3> QED  BY <2>0, <3>1 DEF z
  <2>2. i + 1 - 1 = i /\ i + 2 - 1 = i + 1 /\ i + 3 - 1 = i + 2 /\ i + 4 - 1 = i + 3
    OBVIOUS
  <2> HIDE DEF q
  <2> QED  BY <2>1, <2>2
<1>3. /\ n = 1 => cp = a.bits
      /\ n = 2 => cp = a.bits * 64 + (c % 64)
      /\ n = 3 => cp = (a.bits * 64 + (c % 64)) * 64 + (d % 64)
      /\ n = 4 => cp = ((a.bits * 64 + (c % 64)) * 64 + (d % 64)) * 64 + (e % 64)
  BY CodePointIs
<1>4. ~InvalidAt(s, i) <=> Continued(s, i, n) /\ ~NoCharacter(cp, a.min)
  BY InvalidIs
<1>5. /\ n = 1 => Continued(s, i, n)
      /\ n = 2 => (Continued(s, i, n) <=> c \in 128 .. 191)
      /\ n = 3 => (Continued(s, i, n) <=> c \in 128 .. 191 /\ d \in 128 .. 191)
      /\ n = 4 => (Continued(s, i, n) <=> c \in 128 .. 191 /\ d \in 128 .. 191 /\ e \in 128 .. 191)
  <2> DEFINE R == i + 1 .. i + n - 1
  <2>1. Continued(s, i, n) <=> \A j \in R : s[j] \in 128 .. 191
    BY DEF Continued
  <2>2. /\ n = 1 => R = {}
        /\ n = 2 => R = {i + 1}
        /\ n = 3 => R = {i + 1, i + 2}
        /\ n = 4 => R = {i + 1, i + 2, i + 3}
    BY SMT
  <2> HIDE DEF R, c, d, e
  <2>3. n = 1 => Continued(s, i, n)
    BY <2>1, <2>2
  <2>4. n = 2 => (Continued(s, i, n) <=> c \in 128 .. 191)
    BY <2>1, <2>2 DEF c
  <2>5. n = 3 => (Continued(s, i, n) <=> c \in 128 .. 191 /\ d \in 128 .. 191)
    BY <2>1, <2>2 DEF c, d
  <2>6. n = 4 => (Continued(s, i, n) <=> c \in 128 .. 191 /\ d \in 128 .. 191 /\ e \in 128 .. 191)
    BY <2>1, <2>2 DEF c, d, e
  <2> QED  BY <2>3, <2>4, <2>5, <2>6
<1> HIDE DEF q, a, cp, b, c, d, e
<1>6. CASE n = 1
  <2>1. b <= 127 /\ a.bits = b /\ a.min = 0
    BY <1>1, <1>6, SMT DEF AnnouncedRight
  <2>2. b >= 0
    BY <1>1, ByteIs
  <2>3. ~NoCharacter(cp, a.min)
    BY <1>1, <1>3, <1>6, <2>1, <2>2, SMT DEF NoCharacter, HighSurrogates, LowSurrogates
  <2>4. WellFormed(q)
    <3>1. Len(q) = 1 /\ q[1] \in 0 .. 127
      BY <1>1, <1>2, <1>6, <2>1, <2>2, SMT
    <3> QED  BY <3>1 DEF WellFormed
  <2> QED  BY <1>4, <1>5, <1>6, <2>3, <2>4 DEF q
<1>7. CASE n = 2
  <2>1. b \in 192 .. 223 /\ a.bits = b - 192 /\ a.min = 128
    BY <1>1, <1>7, SMT DEF AnnouncedRight
  <2>2. WellFormed(q) <=> b \in 194 .. 223 /\ c \in 128 .. 191
    BY <1>2, <1>7, SMT DEF WellFormed, Continues
  <2>3. ASSUME c \in 128 .. 191 PROVE NoCharacter(cp, a.min) <=> b < 194
    <3>1. cp = Point2(b, c)
      BY <1>3, <1>7, <2>1, SMT DEF Point2
    <3>2. Lead2(b) /\ Follows(c) /\ a.min = 128
      BY <2>1, <2>3 DEF Lead2, Follows
    <3>3. NoCharacter(Point2(b, c), a.min) <=> b < 194
      BY <3>2, TwoBytes
    <3> QED  BY <3>1, <3>3
  <2>4. b \in 194 .. 223 <=> ~(b < 194)
    BY <2>1, SMT
  <2>5. WellFormed(q) <=> Continued(s, i, n) /\ ~NoCharacter(cp, a.min)
    BY <1>5, <1>7, <2>2, <2>3, <2>4
  <2> QED  BY <1>4, <2>5 DEF q
<1>8. CASE n = 3
  <2>1. b \in 224 .. 239 /\ a.bits = b - 224 /\ a.min = 2048
    BY <1>1, <1>8, SMT DEF AnnouncedRight
  <2>2. WellFormed(q) <=> /\ \/ b = 224 /\ c \in 160 .. 191
                             \/ b \in 225 .. 236 \cup {238, 239} /\ c \in 128 .. 191
                             \/ b = 237 /\ c \in 128 .. 159
                          /\ d \in 128 .. 191
    BY <1>2, <1>8, SMT DEF WellFormed, Continues
  <2>3. ASSUME c \in 128 .. 191, d \in 128 .. 191
        PROVE  NoCharacter(cp, a.min) <=> Refused3(b, c)
    <3>1. cp = Point3(b, c, d)
      BY <1>3, <1>8, <2>1, SMT DEF Point3
    <3>2. Lead3(b) /\ Follows(c) /\ Follows(d) /\ a.min = 2048
      BY <2>1, <2>3 DEF Lead3, Follows
    <3>3. NoCharacter(Point3(b, c, d), a.min) <=> Refused3(b, c)
      BY <3>2, ThreeBytes
    <3> QED  BY <3>1, <3>3
  <2>4. WellFormed(q) => c \in 128 .. 191 /\ d \in 128 .. 191
    BY <2>2, SMT
  <2>5. ASSUME c \in 128 .. 191, d \in 128 .. 191
        PROVE  WellFormed(q) <=> ~Refused3(b, c)
    BY <2>1, <2>2, <2>5, SMT DEF Refused3
  <2>6. WellFormed(q) <=> Continued(s, i, n) /\ ~NoCharacter(cp, a.min)
    BY <1>5, <1>8, <2>3, <2>4, <2>5
  <2> QED  BY <1>4, <2>6 DEF q
<1>9. CASE n = 4
  <2>1. b \in 240 .. 247 /\ a.bits = b - 240 /\ a.min = 65536
    BY <1>1, <1>9, SMT DEF AnnouncedRight
  <2>2. WellFormed(q) <=> /\ \/ b = 240 /\ c \in 144 .. 191
                             \/ b \in 241 .. 243 /\ c \in 128 .. 191
                             \/ b = 244 /\ c \in 128 .. 143
                          /\ d \in 128 .. 191 /\ e \in 128 .. 191
    BY <1>2, <1>9, SMT DEF WellFormed, Continues
  <2>3. ASSUME c \in 128 .. 191, d \in 128 .. 191, e \in 128 .. 191
        PROVE  NoCharacter(cp, a.min) <=> Refused4(b, c)
    <3>1. cp = Point4(b, c, d, e)
      BY <1>3, <1>9, <2>1, SMT DEF Point4
    <3>2. Lead4(b) /\ Follows(c) /\ Follows(d) /\ Follows(e) /\ a.min = 65536
      BY <2>1, <2>3 DEF Lead4, Follows
    <3>3. NoCharacter(Point4(b, c, d, e), a.min) <=> Refused4(b, c)
      BY <3>2, FourBytes
    <3> QED  BY <3>1, <3>3
  <2>4. WellFormed(q) => c \in 128 .. 191 /\ d \in 128 .. 191 /\ e \in 128 .. 191
    BY <2>2, SMT
  <2>5. ASSUME c \in 128 .. 191, d \in 128 .. 191, e \in 128 .. 191
        PROVE  WellFormed(q) <=> ~Refused4(b, c)
    BY <2>1, <2>2, <2>5, SMT DEF Refused4
  <2>6. WellFormed(q) <=> Continued(s, i, n) /\ ~NoCharacter(cp, a.min)
    BY <1>5, <1>9, <2>3, <2>4, <2>5
  <2> QED  BY <1>4, <2>6 DEF q
<1> QED  BY <1>6, <1>7, <1>8, <1>9

\* The recursive definition of the character ends has the values it describes.
LEMMA EndsDef ==
  ASSUME NEW s \in Seq(Byte), NEW i \in 0 .. Len(s)
  PROVE  i \in CharacterEnds(s) <=>
           \/ i = 0
           \/ \E n \in 1 .. 4 : n <= i /\ WellFormed(SubSeq(s, i - n + 1, i)) /\ i - n \in CharacterEnds(s)
<1> DEFINE D == 0 .. Len(s)
           Ends(f, j) == \/ j = 0
                         \/ \E n \in 1 .. 4 : n <= j /\ WellFormed(SubSeq(s, j - n + 1, j)) /\ f[j - n]
           Described(f) == f = [j \in D |-> Ends(f, j)]
           ends == CHOOSE f : Described(f)
           g == [x \in D \X [D -> BOOLEAN] |-> Ends(x[2], x[1])]
           rank == [j \in D |-> j]
<1>1. Len(s) \in Nat /\ \A j \in D : \A n \in 1 .. 4 : n <= j => j - n \in D /\ j - n < j
  <2>1. Len(s) \in Nat
    OBVIOUS
  <2> QED  BY <2>1
<1>2. rank \in [D -> 0 .. Len(s)] /\ BOOLEAN # {}
  OBVIOUS
<1>3. \A h \in [D -> BOOLEAN] : \A j \in D : Ends(h, j) \in BOOLEAN
  OBVIOUS
<1>4. g \in [D \X [D -> BOOLEAN] -> BOOLEAN] /\ \A j \in D : \A h \in [D -> BOOLEAN] : g[<<j, h>>] = Ends(h, j)
  <2> HIDE DEF Ends, D
  <2> QED  BY <1>3
<1>5. ASSUME NEW j \in D, NEW h \in [D -> BOOLEAN], NEW k \in [D -> BOOLEAN],
             \A m \in D : rank[m] < rank[j] => h[m] = k[m]
      PROVE  g[<<j, h>>] = g[<<j, k>>]
  <2>1. \A m \in D : m < j => h[m] = k[m]
    BY <1>5
  <2>2. \A n \in 1 .. 4 : n <= j => h[j - n] = k[j - n]
    BY <1>1, <2>1
  <2>3. Ends(h, j) = Ends(k, j)
    <3> HIDE DEF D
    <3> QED  BY <2>2
  <2> HIDE DEF g, Ends, D
  <2> QED  BY <1>4, <2>3
<1>6. PICK f \in [D -> BOOLEAN] : \A j \in D : f[j] = g[<<j, f>>]
  <2> HIDE DEF D, g, rank
  <2>1. Rule(D, BOOLEAN, Len(s), rank, g)
    BY <1>1, <1>2, <1>4, <1>5 DEF Rule
  <2> QED  BY <2>1, Recursion
<1>7. Described(f)
  <2>1. \A j \in D : f[j] = Ends(f, j)
    <3> HIDE DEF D, g, Ends
    <3> QED  BY <1>4, <1>6
  <2> HIDE DEF D, g, Ends
  <2>2. f = [j \in D |-> f[j]]
    BY <1>6
  <2> QED  BY <2>1, <2>2
<1>8. Described(ends)
  <2> HIDE DEF Described
  <2> QED  BY <1>7
<1>9. CharacterEnds(s) = {j \in D : ends[j]}
  BY DEF CharacterEnds
<1> HIDE DEF ends
<1>10. \A j \in D : ends[j] = Ends(ends, j)
  <2> HIDE DEF D, Ends
  <2> QED  BY <1>8
<1>11. ends[i] <=> Ends(ends, i)
  BY <1>10
<1>12. \A n \in 1 .. 4 : n <= i => (ends[i - n] <=> i - n \in CharacterEnds(s))
  BY <1>1, <1>9
<1>13. i \in CharacterEnds(s) <=> ends[i]
  BY <1>9
<1> HIDE DEF D
<1> QED  BY <1>11, <1>12, <1>13

\* A character after a whole number of them.
LEMMA OneMoreEnds ==
  ASSUME NEW s \in Seq(Byte), NEW e \in CharacterEnds(s), NEW n \in 1 .. 4, e + n <= Len(s),
         WellFormed(SubSeq(s, e + 1, e + n))
  PROVE  e + n \in CharacterEnds(s)
<1>1. e \in 0 .. Len(s) /\ Len(s) \in Nat
  BY DEF CharacterEnds
<1>2. e + n \in 0 .. Len(s) /\ n <= e + n /\ (e + n) - n + 1 = e + 1 /\ (e + n) - n = e
  BY <1>1
<1> DEFINE i == e + n
<1>3. n <= i /\ WellFormed(SubSeq(s, i - n + 1, i)) /\ i - n \in CharacterEnds(s)
  BY <1>2
<1> HIDE DEF i
<1>4. i \in CharacterEnds(s)
  <2>1. i \in 0 .. Len(s)
    BY <1>2 DEF i
  <2> QED  BY <2>1, <1>3, EndsDef
<1> QED  BY <1>4 DEF i

\* At e a character of n bytes begins.
CharacterAt(s, e, n) == n \in 1 .. 4 /\ e + n <= Len(s) /\ WellFormed(SubSeq(s, e + 1, e + n))

\* Two characters at one place are the same.
LEMMA OneLength ==
  ASSUME NEW s \in Seq(Byte), NEW e \in 0 .. Len(s), NEW n, CharacterAt(s, e, n)
  PROVE  e + 1 \in 1 .. Len(s) /\ n = Size(s[e + 1])
<1>1. Len(s) \in Nat /\ n \in 1 .. 4 /\ e + n <= Len(s)
  BY DEF CharacterAt
<1>2. e + 1 \in 1 .. Len(s)
  BY <1>1
<1> DEFINE a == e + 1
           z == e + n
           q == SubSeq(s, a, z)
<1>3. a \in Int /\ z \in Int /\ a <= z /\ z - a + 1 = n /\ \A k \in a .. z : k \in 1 .. Len(s)
  BY <1>1
<1> HIDE DEF a, z
<1>4. \A k \in a .. z : s[k] \in Byte
  BY <1>3
<1>5. q \in Seq(Byte) /\ Len(q) = n /\ q[1] = s[a]
  <2>1. /\ q \in Seq(Byte) /\ Len(q) = IF a <= z THEN z - a + 1 ELSE 0
        /\ \A k \in 1 .. z - a + 1 : q[k] = s[a + k - 1]
    BY <1>3, <1>4, SubSeqProperties
  <2>2. 1 \in 1 .. z - a + 1 /\ a + 1 - 1 = a
    BY <1>1, <1>3
  <2> HIDE DEF q
  <2> QED  BY <1>3, <2>1, <2>2
<1>6. WellFormed(q)
  BY DEF CharacterAt, a, z
<1> HIDE DEF q
<1>7. n = Size(q[1])
  BY <1>1, <1>5, <1>6, WellFormedSize
<1> QED  BY <1>2, <1>5, <1>7 DEF a

\* A text up to which s consists of whole characters goes on with one, as long as
\* there is a longer one.
Follow(s, j) ==
  \A e \in CharacterEnds(s) : e < j => \E n \in 1 .. 4 : CharacterAt(s, e, n) /\ e + n <= j

LEMMA EndsFollow ==
  ASSUME NEW s \in Seq(Byte), NEW j \in CharacterEnds(s)
  PROVE  Follow(s, j)
<1> DEFINE L == Len(s)
           T == {k \in 0 .. L : \A i \in CharacterEnds(s) : i <= k => Follow(s, i)}
<1>1. L \in Nat /\ CharacterEnds(s) \subseteq 0 .. L
  BY DEF CharacterEnds
<1>2. 0 \in T
  <2>1. \A i \in CharacterEnds(s) : i <= 0 => \A e \in CharacterEnds(s) : ~(e < i)
    BY <1>1
  <2> QED  BY <1>1, <2>1 DEF Follow
<1>3. ASSUME NEW k \in 0 .. L - 1, k \in T
      PROVE  k + 1 \in T
  <2>1. k + 1 \in 0 .. L
    BY <1>1
  <2>2. SUFFICES ASSUME k + 1 \in CharacterEnds(s) PROVE Follow(s, k + 1)
    <3>1. \A i \in CharacterEnds(s) : i <= k + 1 => i <= k \/ i = k + 1
      BY <1>1
    <3> QED  BY <1>3, <2>1, <3>1
  <2> DEFINE i == k + 1
  <2>3. i \in 0 .. L /\ i # 0
    BY <2>1
  <2>4. PICK n \in 1 .. 4 : n <= i /\ WellFormed(SubSeq(s, i - n + 1, i)) /\ i - n \in CharacterEnds(s)
    <3> HIDE DEF i
    <3> QED  BY <2>2, <2>3, EndsDef DEF i
  <2> DEFINE b == i - n
  <2>5. b \in CharacterEnds(s) /\ b \in 0 .. k /\ b + n = i
    BY <1>1, <2>4
  <2>6. CharacterAt(s, b, n)
    <3>1. i - n + 1 = b + 1
      BY <2>5
    <3> QED  BY <1>1, <2>1, <2>4, <2>5, <3>1 DEF CharacterAt
  <2> HIDE DEF b
  <2>7. SUFFICES ASSUME NEW e \in CharacterEnds(s), e < i
                 PROVE  \E m \in 1 .. 4 : CharacterAt(s, e, m) /\ e + m <= i
    BY DEF Follow
  <2>8. e \in 0 .. k
    BY <1>1, <2>7
  <2>9. CASE e = b
    BY <2>5, <2>6, <2>9
  <2>10. CASE e < b
    <3>1. Follow(s, b)
      BY <1>3, <2>5
    <3>2. PICK m \in 1 .. 4 : CharacterAt(s, e, m) /\ e + m <= b
      BY <2>10, <3>1 DEF Follow
    <3>3. e + m <= i
      BY <2>5, <2>8, <3>2
    <3> QED  BY <3>2, <3>3
  <2>11. CASE b < e
    <3>1. Follow(s, e)
      BY <1>3, <2>8
    <3>2. PICK m \in 1 .. 4 : CharacterAt(s, b, m) /\ b + m <= e
      BY <2>5, <2>11, <3>1 DEF Follow
    <3>3. m = n
      <4>1. b \in 0 .. Len(s)
        BY <1>1, <2>5
      <4> QED  BY <2>6, <3>2, <4>1, OneLength
    <3>4. FALSE
      BY <2>5, <2>7, <2>8, <3>2, <3>3
    <3> QED  BY <3>4
  <2> QED  BY <2>5, <2>8, <2>9, <2>10, <2>11
<1>4. j \in 0 .. L
  BY <1>1
<1>5. j \in T
  <2> HIDE DEF T
  <2> QED  BY <1>1, <1>2, <1>3, <1>4, CountsTo
<1> QED  BY <1>5

\* Where the validator goes from byte i on.
ScanAt(s, f, i) ==
  f[i] = IF i > Len(s) THEN -1
         ELSE IF InvalidAt(s, i) THEN i - 1 ELSE f[i + Size(s[i])]

LEMMA SizeType ==
  ASSUME NEW s \in Seq(Byte), NEW i \in 1 .. Len(s)
  PROVE  Size(s[i]) \in 0 .. 4
<1>1. s[i] \in Byte
  OBVIOUS
<1> DEFINE a == Announced(s[i])
           b == s[i]
<1>2. AnnouncedRight(b, a)
  BY <1>1, AnnouncedIs
<1> HIDE DEF a, b
<1>3. a.len \in 0 .. 4
  BY <1>2, SMT DEF AnnouncedRight
<1> QED  BY <1>3 DEF Size, a

\* What is accepted at i has a length and lies in the text.
LEMMA AcceptedFits ==
  ASSUME NEW s \in Seq(Byte), NEW i \in 1 .. Len(s), ~InvalidAt(s, i)
  PROVE  Size(s[i]) \in 1 .. 4 /\ i + Size(s[i]) - 1 <= Len(s)
<1> DEFINE n == Size(s[i])
<1>1. n \in 0 .. 4 /\ Len(s) \in Nat
  BY SizeType
<1>2. n # 0 /\ ~(i + n > Len(s) + 1)
  BY DEF InvalidAt, Size
<1> HIDE DEF n
<1>3. n \in 1 .. 4 /\ i + n - 1 <= Len(s)
  BY <1>1, <1>2
<1> QED  BY <1>3 DEF n

LEMMA ScanDef ==
  ASSUME NEW s \in Seq(Byte)
  PROVE  \E f \in [1 .. Len(s) + 1 -> Int] :
           /\ ValidateUtf8(s) = f[1]
           /\ \A i \in 1 .. Len(s) + 1 : ScanAt(s, f, i)
<1> DEFINE L == Len(s)
           D == 1 .. L + 1
           Value(f, i) == IF i > L THEN -1 ELSE IF InvalidAt(s, i) THEN i - 1 ELSE f[i + Size(s[i])]
           Described(f) == f = [i \in D |->
              IF i > Len(s) THEN -1
              ELSE IF InvalidAt(s, i) THEN i - 1
              ELSE f[i + Announced(s[i]).len]]
           scan == CHOOSE f : Described(f)
           g == [x \in D \X [D -> Int] |-> Value(x[2], x[1])]
           rank == [i \in D |-> L + 1 - i]
<1>1. L \in Nat
  OBVIOUS
<1>2. rank \in [D -> 0 .. L]
  BY <1>1
<1>3. \A i \in D : i <= L /\ ~InvalidAt(s, i) => i + Size(s[i]) \in D /\ i + Size(s[i]) > i
  <2> SUFFICES ASSUME NEW i \in D, i <= L, ~InvalidAt(s, i)
               PROVE  i + Size(s[i]) \in D /\ i + Size(s[i]) > i
    OBVIOUS
  <2> DEFINE n == Size(s[i])
  <2>1. i \in 1 .. Len(s)
    BY <1>1
  <2>2. n \in 1 .. 4 /\ i + n - 1 <= Len(s)
    BY <2>1, AcceptedFits
  <2> HIDE DEF n
  <2>3. i + n \in D /\ i + n > i
    BY <1>1, <2>2
  <2> QED  BY <2>3 DEF n
<1>4. \A i \in D : i \in Int /\ (i <= L \/ i > L)
  BY <1>1
<1>5. ASSUME NEW h \in [D -> Int], NEW i \in D
      PROVE  Value(h, i) \in Int
  <2>1. i <= L /\ ~InvalidAt(s, i) => h[i + Size(s[i])] \in Int
    BY <1>3
  <2> HIDE DEF D
  <2> QED  BY <1>1, <1>4, <2>1
<1>6. g \in [D \X [D -> Int] -> Int] /\ \A i \in D : \A h \in [D -> Int] : g[<<i, h>>] = Value(h, i)
  <2> HIDE DEF Value, D
  <2> QED  BY <1>5
<1>7. ASSUME NEW i \in D, NEW h \in [D -> Int], NEW k \in [D -> Int],
             \A j \in D : rank[j] < rank[i] => h[j] = k[j]
      PROVE  g[<<i, h>>] = g[<<i, k>>]
  <2>1. \A j \in D : j > i => h[j] = k[j]
    BY <1>1, <1>7
  <2>2. i <= L /\ ~InvalidAt(s, i) => h[i + Size(s[i])] = k[i + Size(s[i])]
    BY <1>3, <2>1
  <2>3. Value(h, i) = Value(k, i)
    <3> HIDE DEF D
    <3> QED  BY <1>1, <1>4, <2>2
  <2> HIDE DEF g, Value, D
  <2> QED  BY <1>6, <2>3
<1>8. PICK f \in [D -> Int] : \A i \in D : f[i] = g[<<i, f>>]
  <2> HIDE DEF D, g, rank, Value
  <2>1. Int # {}
    OBVIOUS
  <2>2. Rule(D, Int, L, rank, g)
    BY <2>1, <1>1, <1>2, <1>6, <1>7 DEF Rule
  <2> QED  BY <2>2, Recursion
<1>9. \A h : \A i \in D : Value(h, i) = IF i > Len(s) THEN -1
                                         ELSE IF InvalidAt(s, i) THEN i - 1
                                         ELSE h[i + Announced(s[i]).len]
  BY DEF Size
<1>10. Described(f)
  <2>1. \A i \in D : f[i] = Value(f, i)
    <3> HIDE DEF D, g, Value
    <3> QED  BY <1>6, <1>8
  <2>2. f = [i \in D |-> f[i]]
    BY <1>8
  <2> HIDE DEF D, L, Value
  <2> QED  BY <1>9, <2>1, <2>2
<1>11. Described(scan)
  <2> HIDE DEF Described
  <2> QED  BY <1>10
<1>12. ValidateUtf8(s) = scan[1]
  BY DEF ValidateUtf8
<1> HIDE DEF scan
<1>13. \A i \in D : scan[i] = Value(scan, i)
  <2> HIDE DEF D, L, Value
  <2> QED  BY <1>9, <1>11
<1>14. scan \in [D -> Int]
  <2> DEFINE S == {k \in 0 .. L : \A i \in D : i >= L + 1 - k => scan[i] \in Int}
  <2>1. DOMAIN scan = D /\ scan = [i \in D |-> scan[i]]
    <3> HIDE DEF D
    <3> QED  BY <1>11
  <2>2. 0 \in S
    <3>1. \A i \in D : i >= L + 1 - 0 => i > L
      BY <1>1
    <3>2. \A i \in D : i > L => scan[i] = -1
      BY <1>13
    <3> HIDE DEF D
    <3> QED  BY <1>1, <3>1, <3>2
  <2>3. ASSUME NEW k \in 0 .. L - 1, k \in S
        PROVE  k + 1 \in S
    <3>1. k + 1 \in 0 .. L
      BY <1>1
    <3>2. SUFFICES ASSUME NEW i \in D, i = L + 1 - (k + 1) PROVE scan[i] \in Int
      <4>1. \A i \in D : i >= L + 1 - (k + 1) => i >= L + 1 - k \/ i = L + 1 - (k + 1)
        BY <1>1
      <4> HIDE DEF D
      <4> QED  BY <2>3, <3>1, <4>1
    <3>3. i <= L
      BY <1>1, <3>2
    <3>4. CASE InvalidAt(s, i)
      <4>1. scan[i] = i - 1
        BY <1>13, <1>1, <3>3, <3>4
      <4> QED  BY <1>1, <4>1
    <3>5. CASE ~InvalidAt(s, i)
      <4> DEFINE j == i + Size(s[i])
      <4>1. j \in D /\ j > i
        BY <1>3, <3>3, <3>5
      <4>2. scan[i] = scan[j]
        BY <1>13, <1>1, <3>3, <3>5
      <4> HIDE DEF j
      <4>3. j >= L + 1 - k
        BY <1>1, <3>2, <4>1
      <4>4. scan[j] \in Int
        BY <2>3, <4>1, <4>3
      <4> QED  BY <4>2, <4>4
    <3> QED  BY <3>4, <3>5
  <2>4. L \in S
    <3> HIDE DEF S
    <3>1. L \in 0 .. L
      BY <1>1
    <3> QED  BY <1>1, <2>2, <2>3, <3>1, CountsTo
  <2>5. \A i \in D : i >= L + 1 - L
    BY <1>1
  <2>6. \A i \in D : scan[i] \in Int
    <3> HIDE DEF D
    <3> QED  BY <2>4, <2>5
  <2> HIDE DEF D
  <2> QED  BY <2>1, <2>6
<1>15. \A i \in D : ScanAt(s, scan, i)
  BY <1>13 DEF ScanAt
<1> HIDE DEF D
<1> QED  BY <1>12, <1>14, <1>15 DEF D

\* Wherever the validator comes to after whole characters, what it answers from there
\* is where the first ill-formed character of the whole text begins.
LEMMA Validates ==
  ASSUME NEW s \in Seq(Byte)
  PROVE  ValidateUtf8(s) = FirstIllFormed(s)
<1> DEFINE L == Len(s)
           E == CharacterEnds(s)
<1>1. PICK f \in [1 .. L + 1 -> Int] : ValidateUtf8(s) = f[1] /\ \A i \in 1 .. L + 1 : ScanAt(s, f, i)
  BY ScanDef
<1>2. L \in Nat /\ E \subseteq 0 .. L /\ 0 \in E
  <2>1. L \in Nat /\ E \subseteq 0 .. L /\ 0 \in 0 .. L
    BY DEF CharacterEnds
  <2> QED  BY <2>1, EndsDef
<1>3. ASSUME NEW e \in E, \A j \in E : j <= e
      PROVE  FirstIllFormed(s) = IF e = L THEN -1 ELSE e
  <2>1. LastOf(E) = e
    BY <1>2, <1>3, LastOfIs
  <2>2. LastOf(E) = CHOOSE i \in E : \A j \in E : j <= i
    BY DEF LastOf
  <2> HIDE DEF E
  <2> QED  BY <2>1, <2>2 DEF FirstIllFormed, E
<1> DEFINE T == {k \in 0 .. L : \A e \in E : e >= L - k => f[e + 1] = FirstIllFormed(s)}
<1>4. 0 \in T
  <2>1. SUFFICES ASSUME NEW e \in E, e >= L - 0 PROVE f[e + 1] = FirstIllFormed(s)
    BY <1>2
  <2>2. e = L /\ e + 1 \in 1 .. L + 1 /\ e + 1 > L /\ \A j \in E : j <= e
    BY <1>2, <2>1
  <2>3. FirstIllFormed(s) = -1
    BY <1>3, <2>2
  <2>4. f[e + 1] = -1
    BY <1>1, <2>2 DEF ScanAt
  <2> QED  BY <2>3, <2>4
<1>5. ASSUME NEW k \in 0 .. L - 1, k \in T
      PROVE  k + 1 \in T
  <2>1. k + 1 \in 0 .. L
    BY <1>2
  <2>2. SUFFICES ASSUME NEW e \in E, e = L - (k + 1) PROVE f[e + 1] = FirstIllFormed(s)
    <3>1. \A e \in E : e >= L - (k + 1) => e >= L - k \/ e = L - (k + 1)
      BY <1>2
    <3> HIDE DEF E
    <3> QED  BY <1>5, <2>1, <3>1
  <2> DEFINE i == e + 1
             n == Size(s[i])
  <2>3. i \in 1 .. Len(s) /\ i \in 1 .. L + 1 /\ ~(i > L) /\ i - 1 = e /\ e \in 0 .. Len(s)
    BY <1>2, <2>2
  <2>4. f[i] = IF InvalidAt(s, i) THEN e ELSE f[i + n]
    BY <1>1, <2>3 DEF ScanAt
  <2>5. CASE InvalidAt(s, i)
    <3>1. ASSUME NEW j \in E, j > e PROVE FALSE
      <4>1. PICK m \in 1 .. 4 : CharacterAt(s, e, m)
        BY <1>2, <3>1, EndsFollow DEF Follow
      <4>2. m = n
        BY <2>3, <4>1, OneLength
      <4>3. i + n - 1 = e + m /\ e + m <= Len(s)
        BY <1>2, <2>2, <4>1, <4>2 DEF CharacterAt
      <4>4. WellFormed(SubSeq(s, i, i + n - 1))
        BY <4>1, <4>3 DEF CharacterAt
      <4>5. n \in 1 .. 4 /\ i + n - 1 <= Len(s)
        BY <4>2, <4>3
      <4> HIDE DEF i
      <4>6. ~InvalidAt(s, i)
        BY <2>3, <4>4, <4>5, OneCharacter
      <4> QED  BY <2>5, <4>6
    <3>2. \A j \in E : j <= e
      BY <1>2, <3>1
    <3>3. FirstIllFormed(s) = e
      BY <1>2, <1>3, <2>2, <3>2
    <3> QED  BY <2>4, <2>5, <3>3
  <2>6. CASE ~InvalidAt(s, i)
    <3> HIDE DEF n, i
    <3>1. n \in 1 .. 4 /\ i + n - 1 <= Len(s)
      BY <2>3, <2>6, AcceptedFits DEF n
    <3>2. WellFormed(SubSeq(s, i, i + n - 1))
      BY <2>3, <2>6, <3>1, OneCharacter DEF n
    <3>3. i = e + 1 /\ i + n - 1 = e + n /\ i + n = (e + n) + 1 /\ e + n <= Len(s)
      BY <1>2, <2>2, <3>1 DEF i
    <3>4. e + n \in E
      BY <3>1, <3>2, <3>3, OneMoreEnds
    <3>5. e + n >= L - k
      BY <1>2, <2>2, <3>1
    <3>6. f[(e + n) + 1] = FirstIllFormed(s)
      BY <1>5, <3>4, <3>5
    <3>7. f[i] = f[i + n]
      BY <2>4, <2>6
    <3> QED  BY <3>3, <3>6, <3>7
  <2> QED  BY <2>5, <2>6
<1>6. L \in T
  <2> HIDE DEF T
  <2>1. L \in 0 .. L
    BY <1>2
  <2> QED  BY <1>2, <1>4, <1>5, <2>1, CountsTo
<1>7. 0 >= L - L /\ 0 + 1 = 1
  BY <1>2
<1>8. f[0 + 1] = FirstIllFormed(s)
  <2> HIDE DEF E
  <2> QED  BY <1>2, <1>6, <1>7
<1> QED  BY <1>1, <1>7, <1>8

-----------------------------------------------------------------------------
(* Conversion                                                              *)

\* The first mark that leads a text.
LEMMA FirstFound ==
  ASSUME NEW bytes, {k \in DOMAIN Marks : Leads(Marks[k].bom, bytes)} # {}
  PROVE  Min({k \in DOMAIN Marks : Leads(Marks[k].bom, bytes)}) \in
           {k \in DOMAIN Marks : Leads(Marks[k].bom, bytes)}
<1> DEFINE found == {k \in DOMAIN Marks : Leads(Marks[k].bom, bytes)}
<1>1. found \subseteq 1 .. 5
  BY DEF Marks
<1>2. \E k \in found : \A j \in found : k <= j
  <2> HIDE DEF found
  <2>1. \A k \in 1 .. 5 : k = 1 \/ k = 2 \/ k = 3 \/ k = 4 \/ k = 5
    OBVIOUS
  <2>2. \A j \in found : j = 1 \/ j = 2 \/ j = 3 \/ j = 4 \/ j = 5
    BY <1>1, <2>1
  <2>3. CASE 1 \in found
    BY <2>2, <2>3
  <2>4. CASE 1 \notin found /\ 2 \in found
    BY <2>2, <2>4
  <2>5. CASE 1 \notin found /\ 2 \notin found /\ 3 \in found
    BY <2>2, <2>5
  <2>6. CASE 1 \notin found /\ 2 \notin found /\ 3 \notin found /\ 4 \in found
    BY <2>2, <2>6
  <2>7. CASE 1 \notin found /\ 2 \notin found /\ 3 \notin found /\ 4 \notin found
    BY <2>2, <2>7 DEF found
  <2> QED  BY <2>3, <2>4, <2>5, <2>6, <2>7
<1> HIDE DEF found
<1>3. Min(found) \in found
  BY <1>2 DEF Min
<1> QED  BY <1>3 DEF found

LEMMA BomIs ==
  ASSUME NEW bytes
  PROVE  BomLen(bytes) \in 0 .. 4
<1> DEFINE found == {k \in DOMAIN Marks : Leads(Marks[k].bom, bytes)}
<1>1. \A k \in DOMAIN Marks : Len(Marks[k].bom) \in 0 .. 4
  BY DEF Marks
<1>2. CASE found = {}
  BY <1>2 DEF BomLen, Mark
<1>3. CASE found # {}
  <2>1. Min(found) \in found
    BY <1>3, FirstFound
  <2>2. Mark(bytes) = Marks[Min(found)]
    BY <1>3 DEF Mark
  <2> QED  BY <1>1, <2>1, <2>2 DEF BomLen
<1> QED  BY <1>2, <1>3

LEMMA AfterBomType ==
  ASSUME NEW bytes \in Seq(Byte)
  PROVE  AfterBom(bytes) \in Seq(Byte)
<1>1. BomLen(bytes) + 1 \in Int /\ BomLen(bytes) + 1 >= 1 /\ Len(bytes) \in Nat
  BY BomIs
<1> DEFINE m == BomLen(bytes) + 1
<1>2. \A i \in m .. Len(bytes) : bytes[i] \in Byte
  <2>1. \A i \in m .. Len(bytes) : i \in 1 .. Len(bytes)
    BY <1>1
  <2> HIDE DEF m
  <2> QED  BY <2>1
<1> HIDE DEF m
<1>3. SubSeq(bytes, m, Len(bytes)) \in Seq(Byte)
  BY <1>1, <1>2, SubSeqProperties DEF m
<1> QED  BY <1>3 DEF AfterBom, m

LEMMA EncodeType ==
  ASSUME NEW cp \in Nat
  PROVE  EncodeUtf8(cp) \in Seq(Byte)
<1>1. CASE cp <= 127
  <2>1. EncodeUtf8(cp) = <<cp>> /\ cp \in Byte
    BY <1>1, SMT DEF EncodeUtf8, Byte
  <2> QED  BY <2>1
<1>2. CASE cp > 127 /\ cp <= 2047
  <2>1. EncodeUtf8(cp) = <<192 + cp \div 64, Tail6(cp, 1)>>
    BY <1>2, SMT DEF EncodeUtf8
  <2>2. 192 + cp \div 64 \in Byte /\ Tail6(cp, 1) \in Byte
    BY <1>2, SMT DEF Byte, Tail6
  <2> QED  BY <2>1, <2>2
<1>3. CASE cp > 2047 /\ cp <= 65535
  <2>1. EncodeUtf8(cp) = <<224 + cp \div 4096, Tail6(cp, 64), Tail6(cp, 1)>>
    BY <1>3, SMT DEF EncodeUtf8
  <2>2. 224 + cp \div 4096 \in Byte /\ Tail6(cp, 64) \in Byte /\ Tail6(cp, 1) \in Byte
    BY <1>3, SMT DEF Byte, Tail6
  <2> QED  BY <2>1, <2>2
<1>4. CASE cp > 65535 /\ cp <= 1114111
  <2>1. EncodeUtf8(cp) = <<240 + cp \div 262144, Tail6(cp, 4096), Tail6(cp, 64), Tail6(cp, 1)>>
    BY <1>4, SMT DEF EncodeUtf8
  <2>2. /\ 240 + cp \div 262144 \in Byte /\ Tail6(cp, 4096) \in Byte
        /\ Tail6(cp, 64) \in Byte /\ Tail6(cp, 1) \in Byte
    BY <1>4, SMT DEF Byte, Tail6
  <2> QED  BY <2>1, <2>2
<1>5. CASE cp > 1114111
  <2>1. EncodeUtf8(cp) = <<239, 191, 189>>
    BY <1>5, SMT DEF EncodeUtf8
  <2>2. 239 \in Byte /\ 191 \in Byte /\ 189 \in Byte
    BY SMT DEF Byte
  <2> QED  BY <2>1, <2>2
<1> QED  BY <1>1, <1>2, <1>3, <1>4, <1>5, SMT

LEMMA EncodedType ==
  ASSUME NEW points \in Seq(Nat)
  PROVE  Encoded(points) \in Seq(Byte)
<1> DEFINE ss == [k \in DOMAIN points |-> EncodeUtf8(points[k])]
<1>1. DOMAIN points = 1 .. Len(points) /\ Len(points) \in Nat
  OBVIOUS
<1>2. \A k \in DOMAIN points : EncodeUtf8(points[k]) \in Seq(Byte)
  BY EncodeType
<1>3. ss \in Seq(Seq(Byte))
  <2> DEFINE B == Seq(Byte)
  <2>1. \A k \in 1 .. Len(points) : EncodeUtf8(points[k]) \in B
    BY <1>1, <1>2
  <2>2. ss = [k \in 1 .. Len(points) |-> EncodeUtf8(points[k])]
    BY <1>1
  <2> HIDE DEF B
  <2>3. ss \in Seq(B)
    BY <1>1, <2>1, <2>2
  <2> QED  BY <2>3 DEF B
<1> HIDE DEF ss
<1>4. FlattenSeq(ss) \in Seq(Byte)
  BY <1>3, FlattenType
<1> QED  BY <1>4 DEF Encoded, ss

\* Unicode's scalar values: what a text can consist of.
Scalar(p) == p \in Nat /\ p <= 1114111 /\ (p < 55296 \/ p > 57343)
Scalars == {p \in Nat : Scalar(p)}

\* What f has at code unit k, given what it has at later ones.
PointsAt(bytes, big, f, k) ==
  LET n   == Len(bytes) \div 2
      odd == IF Len(bytes) % 2 = 1 THEN <<Replacement>> ELSE <<>>
  IN  IF k > n THEN odd
      ELSE IF Unit(bytes, k, big) \notin HighSurrogates THEN
             <<IF Unit(bytes, k, big) \in LowSurrogates THEN Replacement ELSE Unit(bytes, k, big)>> \o f[k + 1]
      ELSE IF k = n THEN <<Replacement>> \o odd
      ELSE <<IF Unit(bytes, k + 1, big) \in LowSurrogates
             THEN Paired(Unit(bytes, k, big), Unit(bytes, k + 1, big)) ELSE Replacement>> \o f[k + 2]

LEMMA TwoInOne ==
  ASSUME NEW b \in Byte, NEW c \in Byte
  PROVE  b * 256 + c \in Nat /\ b * 256 + c <= 65535
<1>1. b \in Nat /\ c \in Nat /\ b <= 255 /\ c <= 255
  BY DEF Byte
<1> QED  BY <1>1, SMT

LEMMA UnitType ==
  ASSUME NEW bytes \in Seq(Byte), NEW big \in BOOLEAN, NEW k \in 1 .. Len(bytes) \div 2
  PROVE  Unit(bytes, k, big) \in Nat /\ Unit(bytes, k, big) <= 65535
<1>1. Len(bytes) \in Nat
  OBVIOUS
<1>2. 2 * k - 1 \in 1 .. Len(bytes) /\ 2 * k \in 1 .. Len(bytes)
  BY <1>1
<1> DEFINE b == bytes[2 * k - 1]
           c == bytes[2 * k]
<1>3. b \in Byte /\ c \in Byte
  BY <1>2
<1> HIDE DEF b, c
<1> DEFINE x == b * 256 + c
           y == c * 256 + b
<1>4. Unit(bytes, k, big) = IF big THEN x ELSE y
  BY DEF Unit, b, c
<1>5. x \in Nat /\ y \in Nat /\ x <= 65535 /\ y <= 65535
  BY <1>3, TwoInOne
<1> HIDE DEF x, y
<1> QED  BY <1>4, <1>5

LEMMA Surrogates ==
  /\ HighSurrogates \subseteq Nat /\ LowSurrogates \subseteq Nat
  /\ \A u \in Nat : u \in HighSurrogates <=> u >= 55296 /\ u <= 56319
  /\ \A u \in Nat : u \in LowSurrogates <=> u >= 56320 /\ u <= 57343
  /\ \A u \in Nat : u \notin HighSurrogates => u < 55296 \/ u > 56319
  /\ \A u \in Nat : u \notin LowSurrogates => u < 56320 \/ u > 57343
<1>1. HighSurrogates \subseteq Nat /\ LowSurrogates \subseteq Nat
  BY SMT DEF HighSurrogates, LowSurrogates
<1>2. \A u \in Nat : u \in HighSurrogates <=> u >= 55296 /\ u <= 56319
  BY SMT DEF HighSurrogates
<1>3. \A u \in Nat : u \in LowSurrogates <=> u >= 56320 /\ u <= 57343
  BY SMT DEF LowSurrogates
<1>4. \A u \in Nat : ~(u >= 55296 /\ u <= 56319) => u < 55296 \/ u > 56319
  BY SMT
<1>5. \A u \in Nat : ~(u >= 56320 /\ u <= 57343) => u < 56320 \/ u > 57343
  BY SMT
<1> QED  BY <1>1, <1>2, <1>3, <1>4, <1>5

\* A unit that is no surrogate is a character, and so is a pair of surrogates.
LEMMA UnitsAreScalars ==
  /\ Replacement \in Scalars
  /\ \A u \in Nat : u <= 65535 /\ u \notin HighSurrogates /\ u \notin LowSurrogates => u \in Scalars
  /\ \A u \in HighSurrogates, v \in LowSurrogates : Paired(u, v) \in Scalars
<1>1. Replacement \in Scalars
  BY DEF Replacement, Scalars, Scalar
<1>2. ASSUME NEW u \in Nat, u <= 65535, u \notin HighSurrogates, u \notin LowSurrogates PROVE u \in Scalars
  <2>1. (u < 55296 \/ u > 56319) /\ (u < 56320 \/ u > 57343)
    BY <1>2, Surrogates
  <2>2. u \in Nat /\ u <= 1114111 /\ (u < 55296 \/ u > 57343)
    BY <1>2, <2>1, SMT
  <2> QED  BY <2>2 DEF Scalars, Scalar
<1>3. ASSUME NEW u \in HighSurrogates, NEW v \in LowSurrogates PROVE Paired(u, v) \in Scalars
  <2>1. u \in Nat /\ v \in Nat /\ u - 55296 \in 0 .. 1023 /\ v - 56320 \in 0 .. 1023
    <3>1. u \in Nat /\ v \in Nat /\ u >= 55296 /\ u <= 56319 /\ v >= 56320 /\ v <= 57343
      BY Surrogates
    <3> QED  BY <3>1, SMT
  <2> DEFINE a == u - 55296
             b == v - 56320
  <2> HIDE DEF a, b
  <2>2. a \in 0 .. 1023 /\ b \in 0 .. 1023 /\ Paired(u, v) = 65536 + a * 1024 + b
    BY <2>1 DEF a, b, Paired
  <2>3. Paired(u, v) \in Nat /\ Paired(u, v) <= 1114111 /\ Paired(u, v) > 57343
    BY <2>2, SMT
  <2> QED  BY <2>3 DEF Scalars, Scalar
<1> QED  BY <1>1, <1>2, <1>3

\* One step of the conversion: the character at k and what follows it.
LEMMA PointsType ==
  ASSUME NEW bytes \in Seq(Byte), NEW big \in BOOLEAN, NEW k \in 1 .. Len(bytes) \div 2 + 2,
         NEW f, k <= Len(bytes) \div 2 => f[k + 1] \in Seq(Scalars) /\ f[k + 2] \in Seq(Scalars)
  PROVE  PointsAt(bytes, big, f, k) \in Seq(Scalars)
<1> DEFINE n == Len(bytes) \div 2
           odd == IF Len(bytes) % 2 = 1 THEN <<Replacement>> ELSE <<>>
<1>1. n \in Nat /\ k \in Nat
  OBVIOUS
<1>2. odd \in Seq(Scalars) /\ Replacement \in Scalars /\ <<Replacement>> \in Seq(Scalars)
  BY UnitsAreScalars
<1>3. \A x, y \in Seq(Scalars) : x \o y \in Seq(Scalars)
  OBVIOUS
<1> DEFINE u == Unit(bytes, k, big)
           v == Unit(bytes, k + 1, big)
<1>4. k <= n => u \in Nat /\ u <= 65535
  <2>1. k <= n => k \in 1 .. n
    BY <1>1
  <2> QED  BY <2>1, UnitType
<1>6. u \in HighSurrogates /\ v \in LowSurrogates => Paired(u, v) \in Scalars
  BY UnitsAreScalars
<1> DEFINE one == IF u \in LowSurrogates THEN Replacement ELSE u
           two == IF v \in LowSurrogates THEN Paired(u, v) ELSE Replacement
<1>7. PointsAt(bytes, big, f, k) = IF k > n THEN odd
      ELSE IF u \notin HighSurrogates THEN <<one>> \o f[k + 1]
      ELSE IF k = n THEN <<Replacement>> \o odd
      ELSE <<two>> \o f[k + 2]
  BY DEF PointsAt
<1>8. k <= n /\ u \notin HighSurrogates => one \in Scalars
  <2> HIDE DEF u
  <2> QED  BY <1>2, <1>4, UnitsAreScalars
<1>9. u \in HighSurrogates => two \in Scalars
  BY <1>2, <1>6
<1> HIDE DEF odd, u, v, one, two
<1>10. k <= n => k + 1 \in 1 .. n + 2 /\ k + 2 \in 1 .. n + 2
  BY <1>1
<1>11. k <= n /\ u \notin HighSurrogates => <<one>> \in Seq(Scalars)
  BY <1>8
<1>12. u \in HighSurrogates => <<two>> \in Seq(Scalars)
  BY <1>9
<1> HIDE DEF n
<1>13. CASE k > n
  BY <1>2, <1>7, <1>13
<1>14. CASE k <= n
  <2>1. ~(k > n)
    BY <1>1, <1>14
  <2>2. f[k + 1] \in Seq(Scalars) /\ f[k + 2] \in Seq(Scalars)
    BY <1>14 DEF n
  <2>3. CASE u \notin HighSurrogates
    <3>1. PointsAt(bytes, big, f, k) = <<one>> \o f[k + 1]
      BY <1>7, <2>1, <2>3
    <3>2. <<one>> \o f[k + 1] \in Seq(Scalars)
      BY <1>3, <1>11, <1>14, <2>2, <2>3
    <3> QED  BY <3>1, <3>2
  <2>4. CASE u \in HighSurrogates /\ k = n
    BY <1>2, <1>3, <1>7, <2>1, <2>4
  <2>5. CASE u \in HighSurrogates /\ k # n
    <3>1. PointsAt(bytes, big, f, k) = <<two>> \o f[k + 2]
      BY <1>7, <2>1, <2>5
    <3>2. <<two>> \o f[k + 2] \in Seq(Scalars)
      BY <1>3, <1>12, <2>2, <2>5
    <3> QED  BY <3>1, <3>2
  <2> QED  BY <2>3, <2>4, <2>5
<1> QED  BY <1>1, <1>13, <1>14

LEMMA PointsDef ==
  ASSUME NEW bytes \in Seq(Byte), NEW big \in BOOLEAN
  PROVE  \E f \in [1 .. Len(bytes) \div 2 + 2 -> Seq(Scalars)] :
           /\ Utf16Points(bytes, big) = f[1]
           /\ \A k \in 1 .. Len(bytes) \div 2 + 2 : f[k] = PointsAt(bytes, big, f, k)
<1> DEFINE n == Len(bytes) \div 2
           D == 1 .. n + 2
           V == Seq(Scalars)
           odd == IF Len(bytes) % 2 = 1 THEN <<Replacement>> ELSE <<>>
           unit(k) == Unit(bytes, k, big)
           Value(f, k) == PointsAt(bytes, big, f, k)
           Described(f) == f = [k \in 1 .. n + 2 |->
             IF k > n THEN odd
             ELSE IF unit(k) \notin HighSurrogates THEN
                    <<IF unit(k) \in LowSurrogates THEN Replacement ELSE unit(k)>> \o f[k + 1]
             ELSE IF k = n THEN <<Broken(unit(k))>> \o odd
             ELSE <<IF unit(k + 1) \in LowSurrogates THEN Paired(unit(k), unit(k + 1)) ELSE Replacement>>
                    \o f[k + 2]]
           from == CHOOSE f : Described(f)
           g == [x \in D \X [D -> V] |-> Value(x[2], x[1])]
           rank == [k \in D |-> n + 2 - k]
<1>1. n \in Nat /\ n + 2 \in Nat /\ V # {} /\ 1 \in D
  <2>1. <<>> \in V
    OBVIOUS
  <2>2. V # {}
    <3> HIDE DEF V
    <3> QED  BY <2>1
  <2> QED  BY <2>2
<1>2. rank \in [D -> 0 .. n + 2]
  BY <1>1
<1>3. \A k \in D : k <= n => /\ k + 1 \in D /\ rank[k + 1] < rank[k]
                             /\ k + 2 \in D /\ rank[k + 2] < rank[k]
  BY <1>1
<1>4. ASSUME NEW h \in [D -> V], NEW k \in D PROVE Value(h, k) \in V
  <2>1. k <= n => h[k + 1] \in V /\ h[k + 2] \in V
    BY <1>3
  <2> QED  BY <2>1, PointsType
<1>5. g \in [D \X [D -> V] -> V] /\ \A k \in D : \A h \in [D -> V] : g[<<k, h>>] = Value(h, k)
  <2> HIDE DEF Value, D, V
  <2> QED  BY <1>4
<1>6. \A f, h : \A k \in D : (k <= n => f[k + 1] = h[k + 1] /\ f[k + 2] = h[k + 2]) => Value(f, k) = Value(h, k)
  BY <1>1 DEF PointsAt
<1>7. ASSUME NEW k \in D, NEW f \in [D -> V], NEW h \in [D -> V],
             \A j \in D : rank[j] < rank[k] => f[j] = h[j]
      PROVE  g[<<k, f>>] = g[<<k, h>>]
  <2> HIDE DEF D, rank, V, Value, g
  <2>1. Value(f, k) = Value(h, k)
    BY <1>3, <1>6, <1>7
  <2> QED  BY <1>5, <2>1
<1>8. PICK f \in [D -> V] : \A k \in D : f[k] = g[<<k, f>>]
  <2> HIDE DEF D, g, rank, Value, V
  <2>1. Rule(D, V, n + 2, rank, g)
    BY <1>1, <1>2, <1>5, <1>7 DEF Rule
  <2> QED  BY <2>1, Recursion
<1>9. \A h : \A k \in D : Value(h, k) =
             IF k > n THEN odd
             ELSE IF unit(k) \notin HighSurrogates THEN
                    <<IF unit(k) \in LowSurrogates THEN Replacement ELSE unit(k)>> \o h[k + 1]
             ELSE IF k = n THEN <<Broken(unit(k))>> \o odd
             ELSE <<IF unit(k + 1) \in LowSurrogates THEN Paired(unit(k), unit(k + 1)) ELSE Replacement>>
                    \o h[k + 2]
  BY DEF PointsAt, Broken
<1>10. Described(f)
  <2>1. \A k \in D : f[k] = Value(f, k)
    <3> HIDE DEF D, g, Value, V
    <3> QED  BY <1>5, <1>8
  <2>2. f = [k \in D |-> f[k]]
    BY <1>8
  <2> HIDE DEF n, odd, unit, Value
  <2> QED  BY <1>9, <2>1, <2>2
<1>11. Described(from)
  <2> HIDE DEF Described
  <2> QED  BY <1>10
<1>12. Utf16Points(bytes, big) = from[1]
  BY DEF Utf16Points
<1> HIDE DEF from
<1>13. \A k \in D : from[k] = Value(from, k)
  <2> HIDE DEF n, odd, unit, Value
  <2> QED  BY <1>9, <1>11
<1>14. \A k \in D : from[k] \in V
  <2> DEFINE T == {k \in D : from[k] \in V}
  <2>1. ASSUME NEW k \in D, \A j \in D : rank[j] < rank[k] => j \in T PROVE k \in T
    <3>1. k <= n => from[k + 1] \in V /\ from[k + 2] \in V
      <4> HIDE DEF D, rank, V
      <4> QED  BY <1>3, <2>1
    <3>2. Value(from, k) \in V
      BY <3>1, PointsType
    <3> QED  BY <1>13, <3>2
  <2>2. \A k \in D : k \in T
    <3> DEFINE L == n + 2
    <3> HIDE DEF D, rank, T, L
    <3>1. Inductive(D, L, rank, T)
      BY <1>1, <1>2, <2>1 DEF L, Inductive
    <3> QED  BY <3>1, ByRank
  <2> QED  BY <2>2 DEF T
<1>15. from \in [D -> V]
  <2>1. from = [k \in D |-> from[k]]
    <3>1. DOMAIN from = D /\ from = [k \in D |-> from[k]]
      <4> HIDE DEF n, odd, unit
      <4> QED  BY <1>11
    <3> QED  BY <3>1
  <2> HIDE DEF D, V
  <2> QED  BY <1>14, <2>1
<1> HIDE DEF V
<1> QED  BY <1>12, <1>13, <1>15 DEF V

LEMMA TranscodedType ==
  ASSUME NEW bytes \in Seq(Byte), NEW enc, Transcodable(enc),
         enc \in {"UTF8", "ASCII", "UTF16_LE", "UTF16_BE", "ISO_8859_1", "Unknown", "UTF32_LE", "UTF32_BE"}
  PROVE  TranscodeToUtf8(bytes, enc) \in Seq(Byte)
<1>1. ASSUME NEW big \in BOOLEAN PROVE Encoded(Utf16Points(AfterBom(bytes), big)) \in Seq(Byte)
  <2> DEFINE body == AfterBom(bytes)
             n == Len(body) \div 2
  <2>1. body \in Seq(Byte)
    BY AfterBomType
  <2> HIDE DEF body
  <2>2. Len(body) \in Nat /\ 1 \in 1 .. n + 2
    BY <2>1
  <2>3. Utf16Points(body, big) \in Seq(Nat)
    <3>1. PICK f \in [1 .. Len(body) \div 2 + 2 -> Seq(Scalars)] : Utf16Points(body, big) = f[1]
      BY <2>1, PointsDef
    <3>2. Utf16Points(body, big) \in Seq(Scalars)
      BY <2>2, <3>1
    <3>3. \A P \in Seq(Scalars) : P \in Seq(Nat)
      BY DEF Scalars
    <3> QED  BY <3>2, <3>3
  <2>4. Encoded(Utf16Points(body, big)) \in Seq(Byte)
    BY <2>3, EncodedType
  <2> QED  BY <2>4 DEF body
<1>2. CASE enc \in {"UTF8", "ASCII"}
  <2>1. TranscodeToUtf8(bytes, enc) = AfterBom(bytes)
    BY <1>2 DEF TranscodeToUtf8
  <2> QED  BY <2>1, AfterBomType
<1>3. CASE enc = "UTF16_LE"
  <2>1. TranscodeToUtf8(bytes, enc) = Encoded(Utf16Points(AfterBom(bytes), FALSE))
    BY <1>3 DEF TranscodeToUtf8
  <2> QED  BY <1>1, <2>1
<1>4. CASE enc = "UTF16_BE"
  <2>1. TranscodeToUtf8(bytes, enc) = Encoded(Utf16Points(AfterBom(bytes), TRUE))
    BY <1>4 DEF TranscodeToUtf8
  <2> QED  BY <1>1, <2>1
<1>5. CASE enc = "ISO_8859_1"
  <2>1. TranscodeToUtf8(bytes, enc) = Encoded(bytes)
    BY <1>5 DEF TranscodeToUtf8
  <2>2. bytes \in Seq(Nat)
    <3>1. \A i \in 1 .. Len(bytes) : bytes[i] \in Byte
      OBVIOUS
    <3>2. Len(bytes) \in Nat /\ bytes = [i \in 1 .. Len(bytes) |-> bytes[i]]
      OBVIOUS
    <3>3. Byte \subseteq Nat
      BY DEF Byte
    <3> HIDE DEF Byte
    <3>4. [i \in 1 .. Len(bytes) |-> bytes[i]] \in Seq(Nat)
      BY <3>1, <3>2, <3>3
    <3> QED  BY <3>2, <3>4
  <2> QED  BY <2>1, <2>2, EncodedType
<1>6. CASE enc = "Unknown"
  <2>1. TranscodeToUtf8(bytes, enc) = bytes
    BY <1>6 DEF TranscodeToUtf8
  <2> QED  BY <2>1
<1> QED  BY <1>2, <1>3, <1>4, <1>5, <1>6 DEF Transcodable

LEMMA EncodingIs ==
  ASSUME NEW bytes
  PROVE  DetectEncoding(bytes) \in
           {"UTF8", "ASCII", "UTF16_LE", "UTF16_BE", "ISO_8859_1", "Unknown", "UTF32_LE", "UTF32_BE"}
<1> DEFINE found == {k \in DOMAIN Marks : Leads(Marks[k].bom, bytes)}
           named == {k \in DOMAIN Letter : Leads(<<60, Letter[k]>>, AfterBom(bytes))}
<1>1. Mark(bytes).enc \in {"UTF8", "UTF16_LE", "UTF16_BE", "Unknown", "UTF32_LE", "UTF32_BE"}
  <2>1. CASE found = {}
    BY <2>1 DEF Mark
  <2>2. CASE found # {}
    <3>1. Mark(bytes) = Marks[Min(found)]
      BY <2>2 DEF Mark
    <3>2. Min(found) \in found
      BY <2>2, FirstFound
    <3>3. \A k \in DOMAIN Marks : Marks[k].enc \in {"UTF8", "UTF16_LE", "UTF16_BE", "UTF32_LE", "UTF32_BE"}
      BY DEF Marks
    <3> QED  BY <3>1, <3>2, <3>3
  <2> QED  BY <2>1, <2>2
<1>2. Declared(AfterBom(bytes)) \in {"UTF8", "ASCII", "ISO_8859_1", "UTF16_BE", "UTF16_LE", "UTF32_BE", "Unknown"}
  <2>1. CASE named = {}
    BY <2>1 DEF Declared
  <2>2. CASE named # {}
    <3>1. Declared(AfterBom(bytes)) = Named[CHOOSE k \in named : TRUE]
      BY <2>2 DEF Declared
    <3>2. (CHOOSE k \in named : TRUE) \in named
      BY <2>2
    <3>3. \A k \in DOMAIN Letter : Named[k] \in {"UTF8", "ASCII", "ISO_8859_1", "UTF16_BE", "UTF16_LE", "UTF32_BE"}
      BY DEF Letter, Named
    <3> QED  BY <3>1, <3>2, <3>3
  <2> QED  BY <2>1, <2>2
<1> HIDE DEF found, named
<1> DEFINE marked == Mark(bytes).enc
           declared == Declared(AfterBom(bytes))
<1>3. CASE bytes = <<>>
  BY <1>3 DEF DetectEncoding
<1>4. CASE bytes # <<>> /\ marked \notin {"UTF8", "Unknown"}
  BY <1>1, <1>4 DEF DetectEncoding
<1>5. CASE bytes # <<>> /\ marked \in {"UTF8", "Unknown"}
  <2>1. DetectEncoding(bytes) = IF declared = "Unknown" THEN "UTF8" ELSE declared
    BY <1>5 DEF DetectEncoding
  <2> QED  BY <1>2, <2>1
<1> QED  BY <1>3, <1>4, <1>5

\* What f has from byte i on, given what it has from later ones on.
NormalisedAt(s, lf, cr, f, i) ==
  IF i > Len(s) THEN <<>>
  ELSE IF s[i] # cr THEN <<s[i]>> \o f[i + 1]
  ELSE <<lf>> \o f[IF i < Len(s) /\ s[i + 1] = lf THEN i + 2 ELSE i + 1]

LEMMA NormalisedDef ==
  ASSUME NEW C, NEW s \in Seq(C), NEW lf \in C, NEW cr
  PROVE  \E f \in [1 .. Len(s) + 2 -> Seq(C)] :
           /\ NormalizeLineEndings(s, lf, cr) = f[1]
           /\ \A i \in 1 .. Len(s) + 2 : f[i] = NormalisedAt(s, lf, cr, f, i)
<1> DEFINE L == Len(s)
           D == 1 .. L + 2
           V == Seq(C)
           Value(f, i) == NormalisedAt(s, lf, cr, f, i)
           Described(f) == f = [i \in 1 .. Len(s) + 2 |->
             IF i > Len(s) THEN <<>>
             ELSE IF s[i] # cr THEN <<s[i]>> \o f[i + 1]
             ELSE <<lf>> \o f[IF i < Len(s) /\ s[i + 1] = lf THEN i + 2 ELSE i + 1]]
           from == CHOOSE f : Described(f)
           g == [x \in D \X [D -> V] |-> Value(x[2], x[1])]
           rank == [i \in D |-> L + 2 - i]
<1>1. L \in Nat /\ L + 2 \in Nat /\ V # {} /\ 1 \in D
  <2>1. <<>> \in V
    OBVIOUS
  <2>2. V # {}
    <3> HIDE DEF V
    <3> QED  BY <2>1
  <2> QED  BY <2>2
<1>2. rank \in [D -> 0 .. L + 2]
  BY <1>1
<1>3. \A i \in D : i <= L => /\ i + 1 \in D /\ rank[i + 1] < rank[i]
                             /\ i + 2 \in D /\ rank[i + 2] < rank[i]
  BY <1>1
<1>4. ASSUME NEW h, NEW i \in D, i <= L => h[i + 1] \in V /\ h[i + 2] \in V PROVE Value(h, i) \in V
  <2>1. CASE i > L
    <3>1. Value(h, i) = <<>>
      BY <2>1 DEF NormalisedAt
    <3> QED  BY <3>1
  <2>2. CASE i <= L
    <3>1. s[i] \in C /\ ~(i > L)
      BY <1>1, <2>2
    <3>2. <<s[i]>> \in V /\ <<lf>> \in V
      BY <3>1
    <3>3. <<s[i]>> \o h[i + 1] \in V /\ <<lf>> \o h[i + 1] \in V /\ <<lf>> \o h[i + 2] \in V
      BY <1>4, <2>2, <3>2
    <3> HIDE DEF V
    <3>4. Value(h, i) = <<s[i]>> \o h[i + 1] \/ Value(h, i) = <<lf>> \o h[i + 1]
          \/ Value(h, i) = <<lf>> \o h[i + 2]
      BY <3>1 DEF NormalisedAt
    <3> QED  BY <3>3, <3>4
  <2> QED  BY <1>1, <2>1, <2>2
<1>5. g \in [D \X [D -> V] -> V] /\ \A i \in D : \A h \in [D -> V] : g[<<i, h>>] = Value(h, i)
  <2>1. ASSUME NEW h \in [D -> V], NEW i \in D PROVE Value(h, i) \in V
    <3>1. i <= L => h[i + 1] \in V /\ h[i + 2] \in V
      BY <1>3
    <3> QED  BY <1>4, <3>1
  <2> HIDE DEF Value, D, V
  <2> QED  BY <2>1
<1>6. \A f, h : \A i \in D : (i <= L => f[i + 1] = h[i + 1] /\ f[i + 2] = h[i + 2]) => Value(f, i) = Value(h, i)
  BY <1>1 DEF NormalisedAt
<1>7. ASSUME NEW i \in D, NEW f \in [D -> V], NEW h \in [D -> V],
             \A j \in D : rank[j] < rank[i] => f[j] = h[j]
      PROVE  g[<<i, f>>] = g[<<i, h>>]
  <2> HIDE DEF D, rank, V, Value, g
  <2>1. Value(f, i) = Value(h, i)
    BY <1>3, <1>6, <1>7
  <2> QED  BY <1>5, <2>1
<1>8. PICK f \in [D -> V] : \A i \in D : f[i] = g[<<i, f>>]
  <2> HIDE DEF D, g, rank, Value, V
  <2>1. Rule(D, V, L + 2, rank, g)
    BY <1>1, <1>2, <1>5, <1>7 DEF Rule
  <2> QED  BY <2>1, Recursion
<1>9. \A h : \A i \in D : Value(h, i) =
        IF i > Len(s) THEN <<>>
        ELSE IF s[i] # cr THEN <<s[i]>> \o h[i + 1]
        ELSE <<lf>> \o h[IF i < Len(s) /\ s[i + 1] = lf THEN i + 2 ELSE i + 1]
  BY DEF NormalisedAt
<1>10. Described(f)
  <2>1. \A i \in D : f[i] = Value(f, i)
    <3> HIDE DEF D, g, Value, V
    <3> QED  BY <1>5, <1>8
  <2>2. f = [i \in D |-> f[i]]
    BY <1>8
  <2> HIDE DEF Value
  <2> QED  BY <1>9, <2>1, <2>2
<1>11. Described(from)
  <2> HIDE DEF Described
  <2> QED  BY <1>10
<1>12. NormalizeLineEndings(s, lf, cr) = from[1]
  BY DEF NormalizeLineEndings
<1> HIDE DEF from
<1>13. \A i \in D : from[i] = Value(from, i)
  <2> HIDE DEF Value
  <2> QED  BY <1>9, <1>11
<1>14. \A i \in D : from[i] \in V
  <2> DEFINE T == {i \in D : from[i] \in V}
  <2>1. ASSUME NEW i \in D, \A j \in D : rank[j] < rank[i] => j \in T PROVE i \in T
    <3>1. i <= L => from[i + 1] \in V /\ from[i + 2] \in V
      <4> HIDE DEF D, rank, V
      <4> QED  BY <1>3, <2>1
    <3> HIDE DEF Value
    <3>2. Value(from, i) \in V
      BY <3>1, <1>4
    <3> QED  BY <1>13, <3>2
  <2>2. \A i \in D : i \in T
    <3> DEFINE n == L + 2
    <3> HIDE DEF D, rank, T, n
    <3>1. Inductive(D, n, rank, T)
      BY <1>1, <1>2, <2>1 DEF n, Inductive
    <3> QED  BY <3>1, ByRank
  <2> QED  BY <2>2 DEF T
<1>15. from \in [D -> V]
  <2>1. from = [i \in D |-> from[i]]
    BY <1>11
  <2> HIDE DEF D, V
  <2> QED  BY <1>14, <2>1
<1> HIDE DEF V
<1> QED  BY <1>12, <1>13, <1>15 DEF V

-----------------------------------------------------------------------------
(* The way of the text                                                     *)

Encodings == {"UTF8", "ASCII", "UTF16_LE", "UTF16_BE", "ISO_8859_1", "Unknown", "UTF32_LE", "UTF32_BE"}

TextType ==
  [at : {"none", "refused", "utf8", "validated", "normalised"}, source : Seq(Byte), enc : Encodings,
   bytes : Seq(Chars), invalid : Int, original : Seq(Byte)]

\* What the text is in each phase, from what was loaded.
Prepared(t) ==
  /\ t.at = "none" => t = NoText
  /\ t.at # "none" => t.enc = DetectEncoding(t.source)
  /\ t.at = "refused" => ~Transcodable(t.enc) /\ t.original = <<>>
  /\ t.at \in {"utf8", "validated", "normalised"} =>
       Transcodable(t.enc) /\ t.original = TranscodeToUtf8(t.source, t.enc)
  /\ t.at \in {"utf8", "validated"} => t.bytes = t.original
  /\ t.at \in {"validated", "normalised"} => t.invalid = ValidateUtf8(t.original)
  /\ t.at = "normalised" => t.bytes = NormalizeLineEndings(t.original, LF, CR)

\* An error was reported in the text and shows a part of it.
Sited(e, bytes) ==
  /\ e.offset \in 0 .. Len(bytes)
  /\ LET w == Window(Len(bytes), e.offset, ContextSize) IN
     e.snippet = SubSeq(bytes, w.from + 1, w.to)

\* Only a parse goes through the text, and not beyond its end.
Advanced ==
  /\ text.at \notin {"validated", "normalised"} => errors = <<>> /\ fed = <<>> /\ feed.left = <<>>
  /\ place.offset = Len(fed) /\ Len(fed) + Len(feed.left) <= Len(text.bytes)

Reported == [line : Nat, col : Nat, offset : Nat, snippet : Seq(Chars)]

TextInv ==
  /\ FilesInv /\ TrackInv
  /\ text \in TextType /\ Prepared(text) /\ Advanced
  /\ errors \in Seq(Reported)
  /\ \A k \in DOMAIN errors : Sited(errors[k], text.bytes)

LEMMA ByteChars == Byte \subseteq Chars /\ Seq(Byte) \subseteq Seq(Chars)
<1>1. Byte \subseteq Chars
  BY TextsAssumption DEF Byte
<1>2. ASSUME NEW s \in Seq(Byte) PROVE s \in Seq(Chars)
  <2>1. s = [i \in 1 .. Len(s) |-> s[i]] /\ Len(s) \in Nat /\ \A i \in 1 .. Len(s) : s[i] \in Byte
    OBVIOUS
  <2> HIDE DEF Byte
  <2>2. [i \in 1 .. Len(s) |-> s[i]] \in Seq(Chars)
    BY <1>1, <2>1
  <2> QED  BY <2>1, <2>2
<1> QED  BY <1>1, <1>2

LEMMA NoTextType == NoText \in TextType /\ Prepared(NoText)
<1>1. <<>> \in Seq(Byte) /\ <<>> \in Seq(Chars) /\ -1 \in Int
  OBVIOUS
<1>2. NoText \in TextType
  BY <1>1 DEF NoText, TextType, Encodings
<1>3. Prepared(NoText)
  BY DEF Prepared, NoText
<1> QED  BY <1>2, <1>3

LEMMA TextInvInit == Init => TextInv
<1> SUFFICES ASSUME Init PROVE TextInv
  OBVIOUS
<1>1. FilesInit /\ TrackInit /\ text = NoText /\ errors = <<>>
  BY DEF Init
<1>2. FilesInv /\ TrackInv
  BY <1>1, FilesInvInit, TrackInvInit
<1>3. Advanced
  BY <1>1 DEF Advanced, TrackInit, NotFed, AtStart, NoText
<1> QED  BY <1>1, <1>2, <1>3, NoTextType DEF TextInv

\* The files stay.
LEMMA FilesStay ==
  ASSUME FilesInv, UNCHANGED fileVars
  PROVE  FilesInv'
  BY FilesInvNext DEF FilesNext

\* The tracker stays.
LEMMA TrackStays ==
  ASSUME TrackInv, Advanced, UNCHANGED <<trackVars, errors>>,
         text'.at \notin {"validated", "normalised"} => errors = <<>> /\ fed = <<>> /\ feed.left = <<>>,
         Len(fed) + Len(feed.left) <= Len(text'.bytes)
  PROVE  TrackInv' /\ Advanced'
<1>1. TrackInv'
  <2>1. [TrackStep]_trackVars
    OBVIOUS
  <2> QED  BY <2>1, TrackInvStep
<1>2. place' = place /\ fed' = fed /\ feed' = feed /\ errors' = errors
  BY DEF trackVars
<1> QED  BY <1>1, <1>2 DEF Advanced

LEMMA LoadsKeep ==
  ASSUME TextInv, NEW r \in Readers, LoadFiles \/ LoadText(r)
  PROVE  TextInv'
<1>1. text.at = "none" /\ text' = text /\ errors' = errors /\ UNCHANGED <<trackVars, errors>>
  BY DEF LoadFiles, LoadText
<1>2. FilesInv'
  <2>1. CASE LoadFiles
    BY <2>1, FilesInvNext DEF LoadFiles, TextInv
  <2>2. CASE LoadText(r)
    <3>1. PICK bytes \in Texts : LoadBuffer(r, bytes)
      BY <2>2 DEF LoadText
    <3>2. bytes \in Seq(0 .. 255)
      BY TextsAssumption
    <3> QED  BY <3>1, <3>2, LoadKeeps DEF TextInv
  <2> QED  BY <2>1, <2>2
<1>3. TrackInv' /\ Advanced'
  BY <1>1, TrackStays DEF TextInv, Advanced
<1> QED  BY <1>1, <1>2, <1>3 DEF TextInv

\* What an open reader shows consists of bytes.
LEMMA SpanType ==
  ASSUME FilesInv, NEW r \in Readers, readers[r].is_open, expect[r].known
  PROVE  Span(r) \in Seq(Byte)
<1>1. Span(r) = expect[r].bytes
  BY InvShows DEF SpanIsLoaded
<1>2. expect[r] \in Expectation
  BY DEF FilesInv
<1> QED  BY <1>1, <1>2 DEF Expectation, Byte

LEMMA TranscodeKeeps ==
  ASSUME TextInv, NEW r \in Readers, Transcode(r)
  PROVE  TextInv'
<1> DEFINE source == Span(r)
           enc    == DetectEncoding(source)
           bytes  == TranscodeToUtf8(source, enc)
<1>1. /\ text.at = "none" /\ UNCHANGED fileVars /\ UNCHANGED <<trackVars, errors>>
      /\ readers[r].is_open /\ expect[r].known
      /\ text' = IF Transcodable(enc)
                 THEN [NoText EXCEPT !.at = "utf8", !.source = source, !.enc = enc,
                                     !.bytes = bytes, !.original = bytes]
                 ELSE [NoText EXCEPT !.at = "refused", !.source = source, !.enc = enc]
  BY DEF Transcode, At, Becomes
<1>2. FilesInv'
  BY <1>1, FilesStay DEF TextInv
<1>3. source \in Seq(Byte) /\ enc \in Encodings
  BY <1>1, SpanType, EncodingIs DEF TextInv, Encodings
<1>4. Transcodable(enc) => bytes \in Seq(Byte) /\ bytes \in Seq(Chars)
  BY <1>3, TranscodedType, ByteChars DEF Encodings
<1>5. enc = DetectEncoding(source) /\ bytes = TranscodeToUtf8(source, enc)
  OBVIOUS
<1> HIDE DEF source, enc, bytes
<1>6. text' \in TextType /\ Prepared(text')
  <2>1. CASE Transcodable(enc)
    <3>1. text' = [at |-> "utf8", source |-> source, enc |-> enc, bytes |-> bytes, invalid |-> -1, original |-> bytes]
      BY <1>1, <2>1 DEF NoText
    <3>2. text' \in TextType
      BY <1>3, <1>4, <2>1, <3>1 DEF TextType
    <3>3. Prepared(text')
      BY <1>5, <2>1, <3>1 DEF Prepared
    <3> QED  BY <3>2, <3>3
  <2>2. CASE ~Transcodable(enc)
    <3>1. text' = [at |-> "refused", source |-> source, enc |-> enc, bytes |-> <<>>, invalid |-> -1, original |-> <<>>]
      BY <1>1, <2>2 DEF NoText
    <3>2. <<>> \in Seq(Chars) /\ <<>> \in Seq(Byte) /\ -1 \in Int
      OBVIOUS
    <3>3. text' \in TextType
      BY <1>3, <3>1, <3>2 DEF TextType
    <3>4. Prepared(text')
      BY <1>5, <2>2, <3>1 DEF Prepared
    <3> QED  BY <3>3, <3>4
  <2> QED  BY <2>1, <2>2
<1>7. errors = <<>> /\ fed = <<>> /\ feed.left = <<>>
  BY <1>1 DEF TextInv, Advanced
<1>8. TrackInv' /\ Advanced'
  <2>1. Len(text'.bytes) \in Nat
    BY <1>6 DEF TextType
  <2>2. Len(fed) + Len(feed.left) <= Len(text'.bytes)
    BY <1>7, <2>1
  <2> QED  BY <1>1, <1>7, <2>2, TrackStays DEF TextInv
<1>9. \A k \in DOMAIN errors' : Sited(errors'[k], text'.bytes)
  BY <1>1, <1>7
<1>10. errors' \in Seq(Reported)
  BY <1>1 DEF TextInv
<1> QED  BY <1>2, <1>6, <1>8, <1>9, <1>10 DEF TextInv

LEMMA ValidateKeeps ==
  ASSUME TextInv, Validate
  PROVE  TextInv'
<1> DEFINE v == ValidateUtf8(text.bytes)
<1>1. /\ text.at = "utf8" /\ UNCHANGED fileVars /\ UNCHANGED <<trackVars, errors>>
      /\ text' = [text EXCEPT !.at = "validated", !.invalid = v]
  BY DEF Validate, At, Becomes
<1>2. FilesInv'
  BY <1>1, FilesStay DEF TextInv
<1>3. text \in TextType /\ Prepared(text) /\ Advanced
  BY DEF TextInv
<1>4. text.bytes = text.original /\ text.original \in Seq(Byte)
  BY <1>1, <1>3 DEF Prepared, TextType
<1>5. v \in Int
  <2>1. PICK f \in [1 .. Len(text.bytes) + 1 -> Int] : v = f[1]
    BY <1>4, ScanDef
  <2>2. 1 \in 1 .. Len(text.bytes) + 1
    BY <1>4
  <2> QED  BY <2>1, <2>2
<1>6. v = ValidateUtf8(text.original)
  BY <1>4
<1> HIDE DEF v
<1>7. text' \in TextType
  BY <1>1, <1>3, <1>5 DEF TextType
<1>8. /\ text'.at = "validated" /\ text'.source = text.source /\ text'.enc = text.enc
      /\ text'.bytes = text.bytes /\ text'.original = text.original /\ text'.invalid = v
  BY <1>1, <1>3 DEF TextType
<1>9. Prepared(text')
  BY <1>1, <1>3, <1>4, <1>6, <1>8 DEF Prepared
<1>10. errors = <<>> /\ fed = <<>> /\ feed.left = <<>>
  BY <1>1, <1>3 DEF Advanced
<1>11. TrackInv' /\ Advanced'
  BY <1>1, <1>3, <1>8, <1>10, TrackStays DEF TextInv, Advanced
<1> QED  BY <1>1, <1>2, <1>7, <1>9, <1>10, <1>11 DEF TextInv

LEMMA NormaliseKeeps ==
  ASSUME TextInv, Normalise
  PROVE  TextInv'
<1> DEFINE n == NormalizeLineEndings(text.bytes, LF, CR)
<1>1. /\ text.at = "validated" /\ UNCHANGED fileVars /\ UNCHANGED <<trackVars, errors>>
      /\ fed = <<>> /\ feed.left = <<>> /\ errors = <<>>
      /\ text' = [text EXCEPT !.at = "normalised", !.bytes = n]
  BY DEF Normalise, At, Becomes, Between
<1>2. FilesInv'
  BY <1>1, FilesStay DEF TextInv
<1>3. text \in TextType /\ Prepared(text) /\ Advanced
  BY DEF TextInv
<1>4. text.bytes = text.original /\ text.bytes \in Seq(Chars) /\ LF \in Chars
  BY <1>1, <1>3, CallsAssumption DEF Prepared, TextType
<1>5. n \in Seq(Chars)
  <2> DEFINE s == text.bytes
  <2>1. s \in Seq(Chars) /\ n = NormalizeLineEndings(s, LF, CR)
    BY <1>4
  <2> HIDE DEF s, n
  <2>2. \E f \in [1 .. Len(s) + 2 -> Seq(Chars)] :
          /\ NormalizeLineEndings(s, LF, CR) = f[1]
          /\ \A i \in 1 .. Len(s) + 2 : f[i] = NormalisedAt(s, LF, CR, f, i)
    BY <1>4, <2>1, NormalisedDef
  <2>3. 1 \in 1 .. Len(s) + 2
    BY <2>1
  <2> QED  BY <2>1, <2>2, <2>3
<1>6. n = NormalizeLineEndings(text.original, LF, CR)
  BY <1>4
<1> HIDE DEF n
<1>7. text' \in TextType
  BY <1>1, <1>3, <1>5 DEF TextType
<1>8. /\ text'.at = "normalised" /\ text'.source = text.source /\ text'.enc = text.enc
      /\ text'.bytes = n /\ text'.original = text.original /\ text'.invalid = text.invalid
  BY <1>1, <1>3 DEF TextType
<1>9. Prepared(text')
  BY <1>1, <1>3, <1>6, <1>8 DEF Prepared
<1>10. TrackInv' /\ Advanced'
  <2>1. Len(fed) + Len(feed.left) <= Len(text'.bytes)
    BY <1>1, <1>5, <1>8
  <2>2. text'.at \notin {"validated", "normalised"} => errors = <<>> /\ fed = <<>> /\ feed.left = <<>>
    BY <1>1
  <2> QED  BY <1>1, <1>3, <2>1, <2>2, TrackStays DEF TextInv
<1> QED  BY <1>1, <1>2, <1>7, <1>9, <1>10 DEF TextInv

LEMMA FinishKeeps ==
  ASSUME TextInv, Finish
  PROVE  TextInv'
<1>1. UNCHANGED fileVars /\ Reset /\ text' = NoText /\ errors' = <<>>
  BY DEF Finish, At
<1>2. FilesInv'
  BY <1>1, FilesStay DEF TextInv
<1>3. TrackInv'
  BY <1>1, TrackInvStep DEF TextInv, TrackStep
<1>4. /\ place' = AtStart /\ fed' = <<>> /\ feed' = feed /\ feed.left = <<>>
  BY <1>1 DEF Reset, Between
<1>5. Advanced'
  BY <1>1, <1>4 DEF Advanced, AtStart, NoText
<1> QED  BY <1>1, <1>2, <1>3, <1>5, NoTextType DEF TextInv

\* What follows the first n elements.
LEMMA RestIs ==
  ASSUME NEW S, NEW s \in Seq(S), NEW n \in 0 .. Len(s)
  PROVE  SubSeq(s, n + 1, Len(s)) \in Seq(S) /\ Len(SubSeq(s, n + 1, Len(s))) = Len(s) - n
<1> DEFINE a == n + 1
           m == Len(s)
<1>1. m \in Nat /\ a \in Int /\ a >= 1 /\ a <= m + 1 /\ (IF a <= m THEN m - a + 1 ELSE 0) = m - n
  OBVIOUS
<1>2. \A i \in a .. m : s[i] \in S
  <2>1. \A i \in a .. m : i \in 1 .. m
    OBVIOUS
  <2> HIDE DEF a
  <2> QED  BY <2>1
<1> HIDE DEF a, m
<1>3. SubSeq(s, a, m) \in Seq(S) /\ Len(SubSeq(s, a, m)) = IF a <= m THEN m - a + 1 ELSE 0
  BY <1>1, <1>2, SubSeqProperties
<1> QED  BY <1>1, <1>3 DEF a, m

\* The tracker goes on within the text.
LEMMA TrackKeeps ==
  ASSUME TextInv, TrackOne \/ TrackMany \/ TrackLoop
  PROVE  TextInv'
<1>1. /\ UNCHANGED fileVars /\ text' = text /\ errors' = errors
      /\ text.at \in {"validated", "normalised"}
  BY DEF TrackOne, TrackMany, TrackLoop, Tracking, Parsing
<1>2. FilesInv'
  BY <1>1, FilesStay DEF TextInv
<1>3. /\ text.bytes \in Seq(Chars) /\ fed \in Seq(Chars) /\ feed.left \in Seq(Chars) /\ place \in Placed
      /\ feed.blocks \in BOOLEAN /\ feed = [left |-> feed.left, blocks |-> feed.blocks]
      /\ place.offset = Len(fed) /\ Len(fed) + Len(feed.left) <= Len(text.bytes)
      /\ Block \in Nat /\ Block > 0
  BY BlockAssumption DEF TextInv, TextType, TrackInv, TrackTypes, Advanced
<1> DEFINE m == Len(text.bytes)
           d == Len(fed)
<1>4. m \in Nat /\ d \in Nat /\ Len(feed.left) \in Nat
  BY <1>3
<1>5. /\ Ahead \in Seq(Chars) /\ d <= m /\ Len(Ahead) = m - d
  <2>1. d \in 0 .. m
    BY <1>3, <1>4
  <2> HIDE DEF d
  <2>2. Ahead = SubSeq(text.bytes, d + 1, m)
    BY DEF Ahead, d
  <2> QED  BY <1>3, <1>4, <2>1, <2>2, RestIs
<1>6. TrackInv' /\ place'.offset = Len(fed') /\ Len(fed') + Len(feed'.left) <= m
  <2>1. CASE TrackOne
    <3>1. Ahead # <<>> /\ AdvanceOne(Ahead[1])
      BY <2>1 DEF TrackOne
    <3>2. Ahead[1] \in Chars /\ Len(Ahead) > 0
      BY <1>5, <3>1
    <3>3. TrackInv'
      BY <3>1, <3>2, TrackInvStep DEF TextInv, TrackStep
    <3>4. /\ feed.left = <<>> /\ feed' = feed /\ fed' = Append(fed, Ahead[1])
          /\ place'.offset = place.offset + 1
      BY <3>1 DEF AdvanceOne, Between, After
    <3>5. Len(fed') = d + 1 /\ Len(feed'.left) = 0
      BY <1>3, <3>2, <3>4
    <3>6. d + 1 <= m
      BY <1>4, <1>5, <3>2
    <3> QED  BY <1>3, <1>4, <3>3, <3>4, <3>5, <3>6
  <2>2. CASE TrackMany
    <3>1. PICK n \in CallLengths : n <= Len(Ahead) /\ Begin(SubSeq(Ahead, 1, n))
      BY <2>2 DEF TrackMany
    <3> DEFINE data == SubSeq(Ahead, 1, n)
    <3>2. n \in Nat
      BY TextsAssumption
    <3>3. data \in Seq(Chars) /\ Len(data) = n
      BY <1>5, <3>1, <3>2
    <3>4. TrackInv'
      BY <3>1, <3>3, TrackInvStep DEF TextInv, TrackStep
    <3>5. place' = place /\ fed' = fed /\ feed'.left = data
      BY <3>1 DEF Begin
    <3> HIDE DEF data
    <3> QED  BY <1>3, <1>4, <1>5, <3>1, <3>2, <3>3, <3>4, <3>5
  <2>3. CASE TakeBlock
    <3>1. TrackInv'
      BY <2>3, TrackInvStep DEF TextInv, TrackStep
    <3>2. /\ HasBlock /\ place' = AfterBlock(place, FirstBlock) /\ fed' = fed \o FirstBlock
          /\ feed' = [feed EXCEPT !.left = Rest(Block)]
      BY <2>3 DEF TakeBlock
    <3>3. Len(feed.left) >= Block
      BY <3>2 DEF HasBlock
    <3>4. FirstBlock \in Seq(Chars) /\ Len(FirstBlock) = Block
      BY <1>3, <3>3 DEF FirstBlock
    <3>5. Len(Rest(Block)) = Len(feed.left) - Block
      BY <1>3, <3>3 DEF Rest
    <3>6. place'.offset = place.offset + Block /\ feed'.left = Rest(Block)
      BY <1>3, <3>2, <3>4 DEF AfterBlock
    <3>7. Len(fed') = d + Block
      <4>1. \A s, b \in Seq(Chars) : Len(s \o b) = Len(s) + Len(b)
        OBVIOUS
      <4> QED  BY <1>3, <3>2, <3>4, <4>1
    <3> HIDE DEF m
    <3> QED  BY <1>3, <1>4, <3>1, <3>3, <3>5, <3>6, <3>7 DEF m
  <2>4. CASE TakeOne
    <3>1. TrackInv'
      BY <2>4, TrackInvStep DEF TextInv, TrackStep
    <3>2. /\ feed.left # <<>> /\ place' = After(place, feed.left[1]) /\ fed' = Append(fed, feed.left[1])
          /\ feed'.left = Rest(1)
      BY <2>4 DEF TakeOne, Between
    <3>3. Len(feed.left) >= 1
      BY <1>3, <3>2
    <3>4. Len(Rest(1)) = Len(feed.left) - 1
      <4>1. 1 \in 0 .. Len(feed.left)
        BY <1>4, <3>3
      <4> QED  BY <1>3, <4>1, RestIs DEF Rest
    <3>5. place'.offset = place.offset + 1
      BY <3>2 DEF After
    <3>6. Len(fed') = d + 1
      BY <1>3, <3>2
    <3> HIDE DEF m
    <3> QED  BY <1>3, <1>4, <3>1, <3>2, <3>3, <3>4, <3>5, <3>6 DEF m
  <2> QED  BY <2>1, <2>2, <2>3, <2>4 DEF TrackOne, TrackMany, TrackLoop
<1>7. Advanced'
  BY <1>1, <1>6 DEF Advanced
<1> QED  BY <1>1, <1>2, <1>6, <1>7 DEF TextInv

\* The greater and the smaller of two numbers.
LEMMA OfTwo ==
  ASSUME NEW a \in Int, NEW b \in Int
  PROVE  /\ Max({a, b}) = (IF a >= b THEN a ELSE b)
         /\ Min({a, b}) = (IF a <= b THEN a ELSE b)
<1>1. Max({a, b}) = IF a >= b THEN a ELSE b
  <2>1. Max({a, b}) \in {a, b} /\ \A y \in {a, b} : Max({a, b}) >= y
    <3>1. \E x \in {a, b} : \A y \in {a, b} : x >= y
      <4>1. CASE a >= b
        BY <4>1
      <4>2. CASE b >= a
        BY <4>2
      <4> QED  BY <4>1, <4>2
    <3> QED  BY <3>1 DEF Max
  <2> QED  BY <2>1
<1>2. Min({a, b}) = IF a <= b THEN a ELSE b
  <2>1. Min({a, b}) \in {a, b} /\ \A y \in {a, b} : Min({a, b}) <= y
    <3>1. \E x \in {a, b} : \A y \in {a, b} : x <= y
      <4>1. CASE a <= b
        BY <4>1
      <4>2. CASE b <= a
        BY <4>2
      <4> QED  BY <4>1, <4>2
    <3> QED  BY <3>1 DEF Min
  <2> QED  BY <2>1
<1> QED  BY <1>1, <1>2

\* Where the part of a text that an error shows begins and ends.
Start(offset, size)    == Max({0, offset - size \div 2})
End(len, offset, size) == Min({len, Start(offset, size) + size})

LEMMA WindowIs ==
  ASSUME NEW len \in Nat, NEW offset \in 0 .. len, NEW size \in Nat
  PROVE  /\ Window(len, offset, size).from = Start(offset, size)
         /\ Window(len, offset, size).to = End(len, offset, size)
         /\ Start(offset, size) \in Nat /\ End(len, offset, size) \in Nat
         /\ Start(offset, size) <= End(len, offset, size) /\ End(len, offset, size) <= len
         /\ Start(offset, size) > 0 => Start(offset, size) + size \div 2 = offset
<1> DEFINE half   == size \div 2
           before == IF offset >= half THEN half ELSE offset
           start  == Max({0, offset - half})
<1>1. half \in Nat
  OBVIOUS
<1> HIDE DEF half
<1>2. \A a, b \in Int : /\ Max({a, b}) = (IF a >= b THEN a ELSE b)
                          /\ Min({a, b}) = (IF a <= b THEN a ELSE b)
  BY OfTwo
<1>4. start = (IF 0 >= offset - half THEN 0 ELSE offset - half) /\ start = offset - before /\ start \in Nat
  BY <1>1, <1>2
<1>5. Window(len, offset, size) =
        [from |-> offset - before,
         to |-> offset + (IF offset + size - before <= len THEN size - before ELSE len - offset)]
  BY DEF Window, half
<1> HIDE DEF before
<1>6. Window(len, offset, size).from = offset - before
      /\ Window(len, offset, size).to = offset + (IF offset + size - before <= len THEN size - before ELSE len - offset)
  BY <1>5
<1>7. before \in 0 .. offset
  BY <1>1 DEF before
<1> HIDE DEF start
<1>8. Min({len, start + size}) = IF len <= start + size THEN len ELSE start + size
  <2> DEFINE x == start + size
  <2>1. x \in Int
    BY <1>4
  <2> HIDE DEF x
  <2>2. Min({len, x}) = IF len <= x THEN len ELSE x
    BY <2>1, OfTwo
  <2> QED  BY <2>2 DEF x
<1>9. start <= len /\ (start > 0 => start + half = offset)
  BY <1>1, <1>4
<1>10. offset + (IF offset + size - before <= len THEN size - before ELSE len - offset)
       = IF len <= start + size THEN len ELSE start + size
  BY <1>4, <1>7
<1> DEFINE x == IF len <= start + size THEN len ELSE start + size
<1>11. x \in Nat /\ x <= len /\ start <= x
  BY <1>4, <1>9
<1> HIDE DEF x
<1>12. Start(offset, size) = start /\ End(len, offset, size) = x
  BY <1>8 DEF Start, End, start, half, x
<1>13. Window(len, offset, size).to = x
  BY <1>6, <1>10 DEF x
<1> QED  BY <1>4, <1>6, <1>9, <1>11, <1>12, <1>13 DEF half

\* A part of a sequence.
LEMMA PartIs ==
  ASSUME NEW S, NEW s \in Seq(S), NEW m \in Nat, NEW n \in Nat, m <= n, n <= Len(s)
  PROVE  SubSeq(s, m + 1, n) \in Seq(S) /\ Len(SubSeq(s, m + 1, n)) = n - m
<1> DEFINE a == m + 1
<1>1. a \in Int /\ n \in Int /\ (IF a <= n THEN n - a + 1 ELSE 0) = n - m
  OBVIOUS
<1>2. \A i \in a .. n : s[i] \in S
  <2>1. \A i \in a .. n : i \in 1 .. Len(s)
    OBVIOUS
  <2> HIDE DEF a
  <2> QED  BY <2>1
<1> HIDE DEF a
<1>3. SubSeq(s, a, n) \in Seq(S) /\ Len(SubSeq(s, a, n)) = IF a <= n THEN n - a + 1 ELSE 0
  BY <1>1, <1>2, SubSeqProperties
<1> QED  BY <1>1, <1>3 DEF a

LEMMA ReportKeeps ==
  ASSUME TextInv, Report
  PROVE  TextInv'
<1> DEFINE w == Window(Len(text.bytes), place.offset, ContextSize)
           e == [line |-> place.line, col |-> place.col, offset |-> place.offset,
                 snippet |-> SubSeq(text.bytes, w.from + 1, w.to)]
<1>1. /\ UNCHANGED fileVars /\ UNCHANGED trackVars /\ text' = text /\ errors' = Append(errors, e)
      /\ text.at \in {"validated", "normalised"} /\ feed.left = <<>>
  BY DEF Report, Parsing, Between
<1>2. FilesInv'
  BY <1>1, FilesStay DEF TextInv
<1>3. TrackInv'
  BY <1>1, TrackInvStep DEF TextInv
<1>4. Advanced'
  BY <1>1 DEF TextInv, Advanced, trackVars
<1>5. Sited(e, text.bytes)
  <2>1. place.offset = Len(fed) /\ Len(fed) + Len(feed.left) <= Len(text.bytes)
        /\ fed \in Seq(Chars) /\ text.bytes \in Seq(Chars) /\ Len(feed.left) = 0
    BY <1>1 DEF TextInv, Advanced, TrackInv, TrackTypes, TextType
  <2>2. place.offset \in 0 .. Len(text.bytes)
    BY <2>1
  <2> QED  BY <2>2 DEF Sited
<1>6. ASSUME NEW k \in DOMAIN errors' PROVE Sited(errors'[k], text'.bytes)
  <2> HIDE DEF e
  <2>1. errors \in Seq(Reported)
    BY DEF TextInv
  <2>2. DOMAIN errors' = 1 .. Len(errors) + 1 /\ Len(errors) \in Nat /\ DOMAIN errors = 1 .. Len(errors)
        /\ errors'[Len(errors) + 1] = e /\ \A j \in 1 .. Len(errors) : errors'[j] = errors[j]
    BY <1>1, <2>1
  <2>3. k = Len(errors) + 1 \/ k \in 1 .. Len(errors)
    BY <2>2
  <2> QED  BY <1>1, <1>5, <2>2, <2>3 DEF TextInv
<1>7. errors' \in Seq(Reported)
  <2>1. place \in Placed
    BY DEF TextInv, TrackInv, TrackTypes
  <2>2. e \in Reported
    <3> DEFINE n == Len(text.bytes)
    <3>1. /\ place.offset \in Nat /\ place.line \in Nat /\ place.col \in Nat
          /\ text.bytes \in Seq(Chars) /\ n \in Nat /\ ContextSize \in Nat
      BY <2>1, TextsAssumption DEF Placed, TextInv, TextType
    <3>2. place.offset \in 0 .. n
      BY <1>5 DEF Sited, e
    <3>3. w.from \in Nat /\ w.to \in Nat /\ w.from <= w.to /\ w.to <= n
      <4> HIDE DEF n
      <4>1. w = Window(n, place.offset, ContextSize)
        BY DEF n
      <4> HIDE DEF w
      <4> DEFINE o == place.offset
      <4> HIDE DEF o
      <4>2. o \in 0 .. n /\ w = Window(n, o, ContextSize)
        BY <3>2, <4>1 DEF o
      <4> DEFINE b == Start(o, ContextSize)
                 c == End(n, o, ContextSize)
      <4>3. /\ Window(n, o, ContextSize).from = b /\ Window(n, o, ContextSize).to = c
            /\ b \in Nat /\ c \in Nat /\ b <= c /\ c <= n
        BY <3>1, <4>2, WindowIs
      <4> HIDE DEF b, c
      <4> QED  BY <4>2, <4>3
    <3> HIDE DEF w
    <3>4. SubSeq(text.bytes, w.from + 1, w.to) \in Seq(Chars)
      <4> HIDE DEF n
      <4> QED  BY <3>1, <3>3, PartIs DEF n
    <3> QED  BY <3>1, <3>4 DEF Reported, e
  <2> HIDE DEF e
  <2> QED  BY <1>1, <2>2 DEF TextInv
<1> QED  BY <1>1, <1>2, <1>3, <1>4, <1>6, <1>7 DEF TextInv

LEMMA TextInvNext == TextInv /\ [Next]_vars => TextInv'
<1> SUFFICES ASSUME TextInv, [Next]_vars PROVE TextInv'
  OBVIOUS
<1>1. CASE LoadFiles
  <2>1. CASE Readers = {}
    <3>1. FilesInv' /\ UNCHANGED <<trackVars, errors>> /\ text' = text
      BY <1>1, FilesInvNext DEF LoadFiles, TextInv
    <3>2. TrackInv' /\ Advanced'
      BY <3>1, TrackStays DEF TextInv, Advanced
    <3> QED  BY <3>1, <3>2 DEF TextInv
  <2>2. CASE Readers # {}
    BY <1>1, <2>2, LoadsKeep
  <2> QED  BY <2>1, <2>2
<1>2. ASSUME NEW r \in Readers, LoadText(r) PROVE TextInv'
  BY <1>2, LoadsKeep
<1>3. ASSUME NEW r \in Readers, Transcode(r) PROVE TextInv'
  BY <1>3, TranscodeKeeps
<1>4. CASE Validate
  BY <1>4, ValidateKeeps
<1>5. CASE Normalise
  BY <1>5, NormaliseKeeps
<1>6. CASE TrackOne \/ TrackMany \/ TrackLoop
  BY <1>6, TrackKeeps
<1>7. CASE Report
  BY <1>7, ReportKeeps
<1>8. CASE Finish
  BY <1>8, FinishKeeps
<1>9. CASE UNCHANGED vars
  <2>1. UNCHANGED fileVars /\ UNCHANGED <<trackVars, errors>> /\ text' = text
    BY <1>9 DEF vars, fileVars, trackVars
  <2>2. FilesInv'
    BY <2>1, FilesStay DEF TextInv
  <2>3. TrackInv' /\ Advanced'
    BY <2>1, TrackStays DEF TextInv, Advanced
  <2> QED  BY <2>1, <2>2, <2>3 DEF TextInv
<1> QED  BY <1>1, <1>2, <1>3, <1>4, <1>5, <1>6, <1>7, <1>8, <1>9 DEF Next

LEMMA InvSites == TextInv => ErrorsShowTheirSite
<1> SUFFICES ASSUME TextInv, NEW k \in DOMAIN errors
             PROVE  LET e     == errors[k]
                        start == Max({0, e.offset - ContextSize \div 2})
                        end   == Min({Len(text.bytes), start + ContextSize})
                    IN  /\ e.snippet = SubSeq(text.bytes, start + 1, end)
                        /\ start > 0 /\ start + ContextSize = end => start + Caret(e.snippet) = e.offset
  BY DEF ErrorsShowTheirSite
<1> DEFINE offset == errors[k].offset
           len   == Len(text.bytes)
           half  == ContextSize \div 2
           start == Start(offset, ContextSize)
           end   == End(len, offset, ContextSize)
           s     == SubSeq(text.bytes, start + 1, end)
<1>1. text.bytes \in Seq(Chars) /\ len \in Nat /\ ContextSize \in Nat
  BY TextsAssumption DEF TextInv, TextType
<1>2. Sited(errors[k], text.bytes)
  BY DEF TextInv
<1>3. offset \in 0 .. len
  BY <1>2 DEF Sited
<1> DEFINE w == Window(len, offset, ContextSize)
<1>4. /\ w.from = start /\ w.to = end /\ start \in Nat /\ (start > 0 => start + half = offset)
      /\ end \in Nat /\ end <= len /\ start <= end
  <2> HIDE DEF offset, len
  <2> QED  BY <1>1, <1>3, WindowIs
<1>5. errors[k].snippet = s
  BY <1>2, <1>4 DEF Sited
<1>6. ASSUME start > 0, start + ContextSize = end PROVE start + Caret(s) = offset
  <2>1. end - start = ContextSize
    <3> HIDE DEF start, end
    <3> QED  BY <1>1, <1>4, <1>6
  <2>2. Len(s) = ContextSize
    <3> HIDE DEF start, end
    <3>1. Len(s) = end - start
      BY <1>1, <1>4, PartIs
    <3> QED  BY <2>1, <3>1
  <2>3. (IF ContextSize > 1 THEN ContextSize \div 2 ELSE 0) = half
    <3>1. \A n \in Nat : ~(n > 1) => n \div 2 = 0
      OBVIOUS
    <3> QED  BY <1>1, <3>1
  <2> HIDE DEF s, half, start
  <2>4. Caret(s) = half
    BY <2>2, <2>3 DEF Caret, half
  <2> QED  BY <1>4, <1>6, <2>4
<1> QED  BY <1>5, <1>6 DEF Start, End

\* The validator accepts exactly Unicode's well-formed sequences, in every text that is
\* parsed, and names the byte where the first other one begins (validate_utf8).
THEOREM ValidationCorrect == Spec => []ValidationIsExact
<1>1. TextInv => ValidationIsExact
  <2> SUFFICES ASSUME TextInv, text.at \in {"validated", "normalised"}
               PROVE  text.invalid = FirstIllFormed(text.original)
    BY DEF ValidationIsExact
  <2>1. text.original \in Seq(Byte) /\ text.invalid = ValidateUtf8(text.original)
    BY DEF TextInv, TextType, Prepared
  <2> QED  BY <2>1, Validates
<1> QED  BY <1>1, TextInvInit, TextInvNext, PTL DEF Spec

\* An error shows the bytes around its site, wherever in the text it is and however
\* long that and the context are (extract_context, format_error).
THEOREM SitesCorrect == Spec => []ErrorsShowTheirSite
BY TextInvInit, TextInvNext, InvSites, PTL DEF Spec

\* On its whole way, the memory of the readers is owned once and an open one shows what
\* it loaded, and the tracker stands where all characters together put it.
THEOREM WayCorrect == Spec => [](MemoryOwnedOnce /\ SpanIsLoaded /\ PlaceIsTheReference)
<1>1. TextInv => MemoryOwnedOnce /\ SpanIsLoaded /\ PlaceIsTheReference
  BY InvOwns, InvShows DEF TextInv, TrackInv, PlaceIsTheReference
<1> QED  BY <1>1, TextInvInit, TextInvNext, PTL DEF Spec

-----------------------------------------------------------------------------
(* What was encoded is read again                                          *)

LEMMA EncodedIs ==
  ASSUME NEW p, Scalar(p)
  PROVE  WellFormed(EncodeUtf8(p)) /\ PointOf(EncodeUtf8(p)) = p
<1>1. p \in Nat /\ p <= 1114111 /\ (p < 55296 \/ p > 57343)
  BY DEF Scalar
<1>2. CASE p <= 127
  <2>1. EncodeUtf8(p) = <<p>>
    BY <1>1, <1>2, SMT DEF EncodeUtf8
  <2>2. WellFormed(<<p>>)
    BY <1>1, <1>2, SMT DEF WellFormed
  <2>3. PointOf(<<p>>) = p
    BY <1>1, <1>2, SMT DEF PointOf
  <2> QED  BY <2>1, <2>2, <2>3
<1>3. CASE p > 127 /\ p <= 2047
  <2> DEFINE b == 192 + p \div 64
             c == Tail6(p, 1)
  <2>1. EncodeUtf8(p) = <<b, c>>
    BY <1>1, <1>3, SMT DEF EncodeUtf8
  <2>2. b \in 194 .. 223 /\ c \in 128 .. 191 /\ (b - 192) * 64 + c - 128 = p
    BY <1>1, <1>3, SMT DEF Tail6
  <2> HIDE DEF b, c
  <2>3. WellFormed(<<b, c>>)
    BY <2>2, SMT DEF WellFormed, Continues
  <2>4. PointOf(<<b, c>>) = (b - 192) * 64 + c - 128
    BY <2>2, SMT DEF PointOf
  <2> QED  BY <2>1, <2>2, <2>3, <2>4
<1>4. CASE p > 2047 /\ p <= 65535
  <2> DEFINE b == 224 + p \div 4096
             c == Tail6(p, 64)
             d == Tail6(p, 1)
  <2>1. EncodeUtf8(p) = <<b, c, d>>
    BY <1>1, <1>4, SMT DEF EncodeUtf8
  <2>2. /\ b \in 224 .. 239 /\ c \in 128 .. 191 /\ d \in 128 .. 191
        /\ b = 224 => c >= 160
        /\ b = 237 => c <= 159
        /\ (b - 224) * 4096 + (c - 128) * 64 + d - 128 = p
    BY <1>1, <1>4, SMT DEF Tail6
  <2> HIDE DEF b, c, d
  <2>3. WellFormed(<<b, c, d>>)
    BY <2>2, SMT DEF WellFormed, Continues
  <2>4. PointOf(<<b, c, d>>) = (b - 224) * 4096 + (c - 128) * 64 + d - 128
    BY <2>2, SMT DEF PointOf
  <2> QED  BY <2>1, <2>2, <2>3, <2>4
<1>5. CASE p > 65535
  <2> DEFINE b == 240 + p \div 262144
             c == Tail6(p, 4096)
             d == Tail6(p, 64)
             e == Tail6(p, 1)
  <2>1. EncodeUtf8(p) = <<b, c, d, e>>
    BY <1>1, <1>5, SMT DEF EncodeUtf8
  <2>2. /\ b \in 240 .. 244 /\ c \in 128 .. 191 /\ d \in 128 .. 191 /\ e \in 128 .. 191
        /\ b = 240 => c >= 144
        /\ b = 244 => c <= 143
        /\ (b - 240) * 262144 + (c - 128) * 4096 + (d - 128) * 64 + e - 128 = p
    BY <1>1, <1>5, SMT DEF Tail6
  <2> HIDE DEF b, c, d, e
  <2>3. WellFormed(<<b, c, d, e>>)
    BY <2>2, SMT DEF WellFormed, Continues
  <2>4. PointOf(<<b, c, d, e>>) = (b - 240) * 262144 + (c - 128) * 4096 + (d - 128) * 64 + e - 128
    BY <2>2, SMT DEF PointOf
  <2> QED  BY <2>1, <2>2, <2>3, <2>4
<1> QED  BY <1>1, <1>2, <1>3, <1>4, <1>5, SMT

\* A character that ends where whole characters end has the length that is found there.
LEMMA LastLengthIs ==
  ASSUME NEW s \in Seq(Byte), NEW e \in CharacterEnds(s), NEW n, CharacterAt(s, e, n)
  PROVE  LastLength(s, e + n) = n /\ e + n \in CharacterEnds(s)
<1> DEFINE i == e + n
           Found(m) == i - m \in CharacterEnds(s) /\ WellFormed(SubSeq(s, i - m + 1, i))
<1>1. Len(s) \in Nat /\ CharacterEnds(s) \subseteq 0 .. Len(s)
  BY DEF CharacterEnds
<1>2. n \in 1 .. 4 /\ e + n <= Len(s) /\ WellFormed(SubSeq(s, e + 1, e + n))
  BY DEF CharacterAt
<1>3. e \in Int /\ i \in Int /\ i - n = e /\ i - n + 1 = e + 1 /\ i <= Len(s)
  BY <1>1, <1>2
<1>4. Found(n)
  BY <1>2, <1>3
<1>5. i \in CharacterEnds(s)
  BY <1>2, OneMoreEnds
<1> HIDE DEF i
<1>6. ASSUME NEW a \in 1 .. 4, NEW b \in 1 .. 4, Found(a), Found(b), a < b PROVE FALSE
  <2>1. i - a \in CharacterEnds(s) /\ i - b \in CharacterEnds(s) /\ i - b < i - a
    BY <1>3, <1>6
  <2>2. PICK k \in 1 .. 4 : CharacterAt(s, i - b, k) /\ i - b + k <= i - a
    BY <2>1, EndsFollow DEF Follow
  <2>3. CharacterAt(s, i - b, b)
    <3>1. (i - b) + 1 = i - b + 1 /\ (i - b) + b = i
      BY <1>3
    <3> QED  BY <1>3, <1>6, <3>1 DEF CharacterAt
  <2>4. i - b \in 0 .. Len(s)
    BY <1>1, <2>1
  <2>5. k = b
    BY <2>2, <2>3, <2>4, OneLength
  <2> QED  BY <1>3, <1>6, <2>2, <2>5
<1>7. ASSUME NEW m \in 1 .. 4, Found(m) PROVE m = n
  <2>1. m < n \/ n < m \/ m = n
    BY <1>2
  <2> HIDE DEF Found
  <2> QED  BY <1>2, <1>4, <1>6, <1>7, <2>1
<1> HIDE DEF Found
<1>8. (CHOOSE m \in 1 .. 4 : Found(m)) = n
  BY <1>2, <1>4, <1>7
<1>9. LastLength(s, i) = n
  BY <1>8 DEF LastLength, Found
<1> QED  BY <1>5, <1>9 DEF i

\* What f has where whole characters end.
Reads(s, f) ==
  /\ f[0] = <<>>
  /\ \A e \in CharacterEnds(s), n \in 1 .. 4 :
       CharacterAt(s, e, n) => f[e + n] = f[e] \o <<PointOf(SubSeq(s, e + 1, e + n))>>

\* What may be read in s.
Readings(s) == {PointOf(SubSeq(s, a, b)) : a, b \in Int}

LEMMA PointsRead ==
  ASSUME NEW s \in Seq(Byte)
  PROVE  \E f : /\ Points(s) = f[Len(s)] /\ Reads(s, f)
                /\ \A i \in 0 .. Len(s) : f[i] \in Seq(Readings(s))
<1> DEFINE L == Len(s)
           D == 0 .. L
           E == CharacterEnds(s)
           S == Readings(s)
           V == Seq(S)
           back(i) == i - LastLength(s, i)
           Value(f, i) == IF i = 0 \/ i \notin E THEN <<>>
                          ELSE f[back(i)] \o <<PointOf(SubSeq(s, back(i) + 1, i))>>
           Described(f) == f = [i \in 0 .. Len(s) |->
             IF i = 0 \/ i \notin CharacterEnds(s) THEN <<>>
             ELSE f[i - LastLength(s, i)] \o <<PointOf(SubSeq(s, i - LastLength(s, i) + 1, i))>>]
           points == CHOOSE f : Described(f)
           g == [x \in D \X [D -> V] |-> Value(x[2], x[1])]
           rank == [i \in D |-> i]
<1>1. L \in Nat /\ E \subseteq D /\ L \in D /\ 0 \in D
  BY DEF CharacterEnds
<1>2. rank \in [D -> 0 .. L] /\ V # {}
  <2>1. <<>> \in V
    OBVIOUS
  <2>2. V # {}
    <3> HIDE DEF V
    <3> QED  BY <2>1
  <2> HIDE DEF V
  <2> QED  BY <1>1, <2>2
<1>3. ASSUME NEW i \in D, i # 0, i \in E PROVE back(i) \in D /\ back(i) < i /\ back(i) \in Int
  <2>1. PICK n \in 1 .. 4 : n <= i /\ WellFormed(SubSeq(s, i - n + 1, i)) /\ i - n \in E
    BY <1>3, EndsDef
  <2> DEFINE e == i - n
  <2>2. e \in E /\ e + n = i /\ i <= L /\ e + 1 = i - n + 1 /\ e < i
    BY <1>1, <2>1
  <2> HIDE DEF e
  <2>3. CharacterAt(s, e, n)
    BY <2>1, <2>2 DEF CharacterAt
  <2>4. LastLength(s, i) = n
    BY <2>2, <2>3, LastLengthIs
  <2> QED  BY <1>1, <2>2, <2>4 DEF e
<1>4. ASSUME NEW h, NEW i \in D, (i # 0 /\ i \in E) => h[back(i)] \in V PROVE Value(h, i) \in V
  <2>1. CASE i = 0 \/ i \notin E
    BY <2>1
  <2>2. CASE i # 0 /\ i \in E
    <3> DEFINE p == PointOf(SubSeq(s, back(i) + 1, i))
    <3>1. p \in S
      <4>1. back(i) + 1 \in Int /\ i \in Int
        BY <1>1, <1>3, <2>2
      <4> HIDE DEF back
      <4> QED  BY <4>1 DEF Readings
    <3>2. h[back(i)] \in V /\ Value(h, i) = h[back(i)] \o <<p>>
      BY <1>4, <2>2
    <3> HIDE DEF p, S, Value
    <3> QED  BY <3>1, <3>2
  <2> QED  BY <2>1, <2>2
<1>5. g \in [D \X [D -> V] -> V] /\ \A i \in D : \A h \in [D -> V] : g[<<i, h>>] = Value(h, i)
  <2>1. ASSUME NEW h \in [D -> V], NEW i \in D PROVE Value(h, i) \in V
    <3>1. i # 0 /\ i \in E => h[back(i)] \in V
      BY <1>3
    <3> HIDE DEF Value, D, V
    <3> QED  BY <1>4, <3>1
  <2> HIDE DEF Value, D, V
  <2> QED  BY <2>1
<1>6. \A f, h : \A i \in D : (i # 0 /\ i \in E => f[back(i)] = h[back(i)]) => Value(f, i) = Value(h, i)
  <2> HIDE DEF back, D, E
  <2> QED  OBVIOUS
<1>7. ASSUME NEW i \in D, NEW f \in [D -> V], NEW h \in [D -> V],
             \A j \in D : rank[j] < rank[i] => f[j] = h[j]
      PROVE  g[<<i, f>>] = g[<<i, h>>]
  <2>1. \A j \in D : j < i => f[j] = h[j]
    BY <1>7
  <2> HIDE DEF D, rank, V, Value, g, back
  <2>2. Value(f, i) = Value(h, i)
    BY <1>3, <1>6, <2>1
  <2> QED  BY <1>5, <2>2
<1>8. PICK f \in [D -> V] : \A i \in D : f[i] = g[<<i, f>>]
  <2> HIDE DEF D, g, rank, Value, V
  <2>1. Rule(D, V, L, rank, g)
    BY <1>1, <1>2, <1>5, <1>7 DEF Rule
  <2> QED  BY <2>1, Recursion
<1>9. \A h : \A i \in D : Value(h, i) =
        IF i = 0 \/ i \notin CharacterEnds(s) THEN <<>>
        ELSE h[i - LastLength(s, i)] \o <<PointOf(SubSeq(s, i - LastLength(s, i) + 1, i))>>
  OBVIOUS
<1>10. Described(f)
  <2>1. \A i \in D : f[i] = Value(f, i)
    <3> HIDE DEF D, g, Value, V
    <3> QED  BY <1>5, <1>8
  <2>2. f = [i \in D |-> f[i]]
    BY <1>8
  <2> HIDE DEF Value, V
  <2> QED  BY <1>9, <2>1, <2>2
<1>11. Described(points)
  <2> HIDE DEF Described
  <2> QED  BY <1>10
<1>12. Points(s) = points[L]
  BY DEF Points
<1> HIDE DEF points
<1>13. \A i \in D : points[i] = Value(points, i)
  <2> HIDE DEF Value
  <2> QED  BY <1>9, <1>11
<1>14. \A i \in D : points[i] \in V
  <2> DEFINE T == {i \in D : points[i] \in V}
  <2>1. ASSUME NEW i \in D, \A j \in D : rank[j] < rank[i] => j \in T PROVE i \in T
    <3>1. \A j \in D : j < i => points[j] \in V
      BY <2>1
    <3>2. i # 0 /\ i \in E => points[back(i)] \in V
      <4> HIDE DEF D, V, back
      <4> QED  BY <1>3, <3>1
    <3> HIDE DEF Value, V
    <3>3. Value(points, i) \in V
      BY <3>2, <1>4
    <3> QED  BY <1>13, <3>3
  <2>2. \A i \in D : i \in T
    <3> HIDE DEF D, rank, T
    <3>1. Inductive(D, L, rank, T)
      BY <1>1, <1>2, <2>1 DEF Inductive
    <3> QED  BY <3>1, ByRank
  <2> QED  BY <2>2 DEF T
<1>15. points[0] = <<>>
  BY <1>1, <1>13
<1>16. ASSUME NEW e \in E, NEW n \in 1 .. 4, CharacterAt(s, e, n)
       PROVE  points[e + n] = points[e] \o <<PointOf(SubSeq(s, e + 1, e + n))>>
  <2> DEFINE i == e + n
  <2>1. e + n \in E /\ LastLength(s, e + n) = n
    BY <1>16, LastLengthIs
  <2>2. i \in D /\ i # 0 /\ i - n = e
    <3>1. e \in D /\ i \in D
      BY <1>1, <2>1
    <3>2. e \in Int /\ e >= 0
      BY <3>1
    <3> QED  BY <3>1, <3>2
  <2>3. i \in E /\ back(i) = e
    BY <2>1, <2>2
  <2> HIDE DEF i, back, E, D
  <2>4. points[i] = points[back(i)] \o <<PointOf(SubSeq(s, back(i) + 1, i))>>
    <3>1. points[i] = Value(points, i)
      <4> HIDE DEF Value
      <4> QED  BY <1>13, <2>2
    <3>2. ~(i = 0 \/ i \notin E)
      BY <2>2, <2>3
    <3> QED  BY <3>1, <3>2
  <2> QED  BY <2>3, <2>4 DEF i
<1>17. Reads(s, points)
  BY <1>15, <1>16 DEF Reads
<1> HIDE DEF E, Value, Described, g
<1> QED  BY <1>12, <1>14, <1>17

\* A character after whole characters: they end where they did, and so does it.
LEMMA EndsMore ==
  ASSUME NEW s \in Seq(Byte), NEW c \in Seq(Byte), Len(s) \in CharacterEnds(s),
         Len(c) \in 1 .. 4, WellFormed(c)
  PROVE  /\ s \o c \in Seq(Byte) /\ Len(s \o c) = Len(s) + Len(c)
         /\ \A i \in 0 .. Len(s) : i \in CharacterEnds(s \o c) <=> i \in CharacterEnds(s)
         /\ CharacterAt(s \o c, Len(s), Len(c)) /\ Len(s \o c) \in CharacterEnds(s \o c)
         /\ SubSeq(s \o c, Len(s) + 1, Len(s) + Len(c)) = c
<1> DEFINE t == s \o c
           L == Len(s)
           n == Len(c)
<1>1. t \in Seq(Byte) /\ Len(t) = L + n /\ L \in Nat /\ n \in Nat
  <2> HIDE DEF Byte
  <2> QED  OBVIOUS
<1>2. \A m \in 1 .. L, k \in 1 .. L : SubSeq(t, m, k) = SubSeq(s, m, k)
  BY SubSeqOfConcat1
<1>3. SubSeq(t, L + 1, L + n) = c
  <2> DEFINE a == L + 1
             b == L + n
  <2>1. a \in Int /\ b \in Int /\ a <= b /\ b - a + 1 = n /\ \A i \in 1 .. n : a + i - 1 = L + i
    <3>1. n \in 1 .. 4
      OBVIOUS
    <3> HIDE DEF L, n
    <3> QED  BY <1>1, <3>1
  <2>2. \A i \in 1 .. n : t[L + i] = c[i]
    <3>1. \A u, v \in Seq(Byte) : \A i \in 1 .. Len(v) : (u \o v)[Len(u) + i] = v[i]
      <4> HIDE DEF Byte
      <4> QED  OBVIOUS
    <3> HIDE DEF Byte
    <3> QED  BY <3>1
  <2>3. \A i \in a .. b : t[i] \in Byte
    <3>1. \A i \in a .. b : i \in 1 .. Len(t)
      BY <1>1
    <3> HIDE DEF t, a, b
    <3> QED  BY <1>1, <3>1
  <2> HIDE DEF a, b, t
  <2>4. /\ SubSeq(t, a, b) \in Seq(Byte) /\ Len(SubSeq(t, a, b)) = n
        /\ \A i \in 1 .. n : SubSeq(t, a, b)[i] = t[a + i - 1]
    <3>1. /\ SubSeq(t, a, b) \in Seq(Byte) /\ Len(SubSeq(t, a, b)) = (IF a <= b THEN b - a + 1 ELSE 0)
          /\ \A i \in 1 .. b - a + 1 : SubSeq(t, a, b)[i] = t[a + i - 1]
      BY <2>1, <2>3, SubSeqProperties
    <3> QED  BY <2>1, <3>1
  <2> DEFINE q == SubSeq(t, a, b)
  <2>5. \A i \in 1 .. n : q[i] = c[i]
    BY <2>1, <2>2, <2>4
  <2> HIDE DEF q
  <2>6. q \in Seq(Byte) /\ Len(q) = n
    BY <2>4 DEF q
  <2>7. q = c
    <3> HIDE DEF Byte
    <3>1. \A u, v \in Seq(Byte) : Len(u) = Len(v) /\ (\A i \in 1 .. Len(v) : u[i] = v[i]) => u = v
      BY SeqEqual
    <3> QED  BY <2>5, <2>6, <3>1
  <2> QED  BY <2>7 DEF q, a, b
<1> HIDE DEF t
<1> DEFINE T == {i \in 0 .. L : i \in CharacterEnds(t) <=> i \in CharacterEnds(s)}
           D == 0 .. L
           rank == [i \in D |-> i]
<1>4. ASSUME NEW i \in D, \A j \in D : rank[j] < rank[i] => j \in T PROVE i \in T
  <2>1. \A j \in D : j < i => (j \in CharacterEnds(t) <=> j \in CharacterEnds(s))
    BY <1>4
  <2>2. i \in 0 .. Len(t) /\ i \in 0 .. Len(s)
    BY <1>1
  <2> DEFINE Ended(q, k) == k <= i /\ WellFormed(SubSeq(q, i - k + 1, i)) /\ i - k \in CharacterEnds(q)
  <2>3. ASSUME NEW k \in 1 .. 4 PROVE Ended(t, k) <=> Ended(s, k)
    <3>1. CASE k <= i
      <4>1. i - k + 1 \in 1 .. L /\ i \in 1 .. L /\ i - k \in D /\ i - k < i
        BY <1>1, <3>1
      <4>2. SubSeq(t, i - k + 1, i) = SubSeq(s, i - k + 1, i)
        BY <1>2, <4>1
      <4> QED  BY <2>1, <4>1, <4>2
    <3>2. CASE ~(k <= i)
      BY <3>2
    <3> QED  BY <3>1, <3>2
  <2>4. i \in CharacterEnds(t) <=> (i = 0 \/ \E k \in 1 .. 4 : Ended(t, k))
    BY <1>1, <2>2, EndsDef
  <2>5. i \in CharacterEnds(s) <=> (i = 0 \/ \E k \in 1 .. 4 : Ended(s, k))
    BY <2>2, EndsDef
  <2> HIDE DEF Ended
  <2>6. i \in CharacterEnds(t) <=> i \in CharacterEnds(s)
    BY <2>3, <2>4, <2>5
  <2> QED  BY <2>6
<1>5. \A i \in D : i \in T
  <2>1. rank \in [D -> 0 .. L]
    OBVIOUS
  <2> HIDE DEF D, T, rank
  <2>2. Inductive(D, L, rank, T)
    BY <1>1, <1>4, <2>1 DEF Inductive
  <2> QED  BY <2>2, ByRank
<1>6. L \in CharacterEnds(t)
  BY <1>1, <1>5
<1>7. CharacterAt(t, L, n)
  <2>1. WellFormed(SubSeq(t, L + 1, L + n))
    BY <1>3
  <2> QED  BY <1>1, <2>1 DEF CharacterAt
<1>8. L + n \in CharacterEnds(t)
  BY <1>1, <1>6, <1>7, OneMoreEnds DEF CharacterAt
<1> QED  BY <1>1, <1>3, <1>5, <1>7, <1>8 DEF t

LEMMA PointsMore ==
  ASSUME NEW s \in Seq(Byte), NEW c \in Seq(Byte), Len(s) \in CharacterEnds(s),
         Len(c) \in 1 .. 4, WellFormed(c)
  PROVE  Points(s \o c) = Points(s) \o <<PointOf(c)>>
<1> DEFINE t == s \o c
           L == Len(s)
           n == Len(c)
<1>1. /\ t \in Seq(Byte) /\ Len(t) = L + n
      /\ \A i \in 0 .. L : i \in CharacterEnds(t) <=> i \in CharacterEnds(s)
      /\ CharacterAt(t, L, n) /\ Len(t) \in CharacterEnds(t)
      /\ SubSeq(t, L + 1, L + n) = c
  BY EndsMore
<1>2. \A m \in 1 .. L, k \in 1 .. L : SubSeq(t, m, k) = SubSeq(s, m, k)
  BY SubSeqOfConcat1
<1> HIDE DEF t
<1>3. PICK f : Points(s) = f[L] /\ Reads(s, f)
  BY PointsRead
<1>4. PICK h : Points(t) = h[Len(t)] /\ Reads(t, h)
  BY <1>1, PointsRead
<1> DEFINE E == CharacterEnds(s)
           T == {i \in E : f[i] = h[i]}
           rank == [i \in E |-> i]
<1>5. L \in Nat /\ E \subseteq 0 .. L
  BY DEF CharacterEnds
<1>6. ASSUME NEW i \in E, \A j \in E : rank[j] < rank[i] => j \in T PROVE i \in T
  <2>1. \A j \in E : j < i => f[j] = h[j]
    BY <1>6
  <2>2. CASE i = 0
    BY <1>3, <1>4, <2>2 DEF Reads
  <2>3. CASE i # 0
    <3>1. i \in 0 .. Len(s) /\ i \in Int /\ i > 0
      BY <1>5, <2>3
    <3>2. PICK k \in 1 .. 4 : k <= i /\ WellFormed(SubSeq(s, i - k + 1, i)) /\ i - k \in E
      BY <2>3, <3>1, EndsDef
    <3> DEFINE e == i - k
    <3>3. /\ e + k = i /\ e + 1 = i - k + 1 /\ e \in E /\ e < i /\ e \in 0 .. L
          /\ e + 1 \in 1 .. L /\ e + k \in 1 .. L /\ i <= L
      BY <1>5, <3>1, <3>2
    <3>4. CharacterAt(s, e, k)
      BY <3>2, <3>3 DEF CharacterAt
    <3>5. SubSeq(t, e + 1, e + k) = SubSeq(s, e + 1, e + k)
      BY <1>2, <3>3
    <3> HIDE DEF e
    <3>6. e \in CharacterEnds(t) /\ e + k <= Len(t)
      BY <1>1, <1>5, <3>3
    <3>7. CharacterAt(t, e, k)
      BY <3>4, <3>5, <3>6 DEF CharacterAt
    <3>8. f[e + k] = f[e] \o <<PointOf(SubSeq(s, e + 1, e + k))>>
      BY <1>3, <3>3, <3>4 DEF Reads
    <3>9. h[e + k] = h[e] \o <<PointOf(SubSeq(t, e + 1, e + k))>>
      BY <1>4, <3>6, <3>7 DEF Reads
    <3> QED  BY <2>1, <3>3, <3>5, <3>8, <3>9
  <2> QED  BY <2>2, <2>3
<1>7. \A i \in E : i \in T
  <2>1. rank \in [E -> 0 .. L]
    BY <1>5
  <2> HIDE DEF E, T, rank
  <2>2. Inductive(E, L, rank, T)
    BY <1>5, <1>6, <2>1 DEF Inductive
  <2> QED  BY <2>2, ByRank
<1>8. f[L] = h[L] /\ L \in CharacterEnds(t)
  BY <1>1, <1>5, <1>7
<1>9. h[L + n] = h[L] \o <<PointOf(c)>>
  BY <1>1, <1>4, <1>8 DEF Reads
<1> QED  BY <1>1, <1>3, <1>4, <1>8, <1>9 DEF t

LEMMA EncodeLength ==
  ASSUME NEW p \in Scalars
  PROVE  Len(EncodeUtf8(p)) \in 1 .. 4 /\ EncodeUtf8(p) \in Seq(Byte)
<1>1. p \in Nat /\ p <= 1114111
  BY DEF Scalars, Scalar
<1>2. EncodeUtf8(p) \in Seq(Byte)
  BY <1>1, EncodeType
<1>3. CASE p <= 127
  <2>1. EncodeUtf8(p) = <<p>>
    BY <1>1, <1>3, SMT DEF EncodeUtf8
  <2> QED  BY <1>2, <2>1
<1>4. CASE p > 127 /\ p <= 2047
  <2>1. EncodeUtf8(p) = <<192 + p \div 64, Tail6(p, 1)>>
    BY <1>1, <1>4, SMT DEF EncodeUtf8
  <2> QED  BY <1>2, <2>1
<1>5. CASE p > 2047 /\ p <= 65535
  <2>1. EncodeUtf8(p) = <<224 + p \div 4096, Tail6(p, 64), Tail6(p, 1)>>
    BY <1>1, <1>5, SMT DEF EncodeUtf8
  <2> QED  BY <1>2, <2>1
<1>6. CASE p > 65535
  <2>1. EncodeUtf8(p) = <<240 + p \div 262144, Tail6(p, 4096), Tail6(p, 64), Tail6(p, 1)>>
    BY <1>1, <1>6, SMT DEF EncodeUtf8
  <2> QED  BY <1>2, <2>1
<1> QED  BY <1>1, <1>3, <1>4, <1>5, <1>6, SMT

LEMMA EncodedDef ==
  /\ Encoded(<<>>) = <<>>
  /\ \A P \in Seq(Nat), p \in Nat : Encoded(Append(P, p)) = Encoded(P) \o EncodeUtf8(p)
<1>1. Encoded(<<>>) = <<>>
  <2> DEFINE ss == [k \in DOMAIN <<>> |-> EncodeUtf8(<<>>[k])]
  <2>1. ss = <<>> /\ Len(<<>>) = 0
    OBVIOUS
  <2>2. FlattenSeq(<<>>) = <<>>
    BY <2>1 DEF FlattenSeq
  <2> HIDE DEF ss
  <2> QED  BY <2>1, <2>2 DEF Encoded, ss
<1>2. ASSUME NEW P \in Seq(Nat), NEW p \in Nat
      PROVE  Encoded(Append(P, p)) = Encoded(P) \o EncodeUtf8(p)
  <2> DEFINE ss == [k \in 1 .. Len(P) |-> EncodeUtf8(P[k])]
             Q == Append(P, p)
             tt == [k \in DOMAIN Q |-> EncodeUtf8(Q[k])]
             V == Seq(Byte)
  <2>1. \A k \in 1 .. Len(P) : P[k] \in Nat
    OBVIOUS
  <2>2. EncodeUtf8(p) \in V /\ \A k \in 1 .. Len(P) : EncodeUtf8(P[k]) \in V
    BY <2>1, EncodeType
  <2>3. ss \in Seq(V) /\ Len(ss) = Len(P) /\ Len(P) \in Nat
    <3> HIDE DEF V
    <3> QED  BY <2>2
  <2>4. DOMAIN Q = 1 .. Len(P) + 1 /\ Q[Len(P) + 1] = p /\ \A k \in 1 .. Len(P) : Q[k] = P[k]
    OBVIOUS
  <2> HIDE DEF Q
  <2>5. tt = Append(ss, EncodeUtf8(p))
    <3>1. DOMAIN tt = 1 .. Len(P) + 1 /\ tt[Len(P) + 1] = EncodeUtf8(p)
          /\ \A k \in 1 .. Len(P) : tt[k] = EncodeUtf8(P[k])
      BY <2>3, <2>4
    <3>2. \A k \in 1 .. Len(P) : ss[k] = EncodeUtf8(P[k])
      OBVIOUS
    <3>3. tt = [k \in 1 .. Len(P) + 1 |-> tt[k]]
      BY <3>1
    <3> DEFINE uu == Append(ss, EncodeUtf8(p))
    <3>4. uu = [k \in 1 .. Len(P) + 1 |-> uu[k]] /\ uu[Len(P) + 1] = EncodeUtf8(p)
          /\ \A k \in 1 .. Len(P) : uu[k] = ss[k]
      <4> DEFINE c == EncodeUtf8(p)
      <4> HIDE DEF ss, V, c
      <4>1. c \in V /\ ss \in Seq(V) /\ Len(ss) = Len(P) /\ Len(P) \in Nat
        BY <2>2, <2>3 DEF c
      <4> DEFINE w == Append(ss, c)
      <4>2. w \in Seq(V) /\ Len(w) = Len(P) + 1 /\ w[Len(P) + 1] = c /\ \A k \in 1 .. Len(P) : w[k] = ss[k]
        BY <4>1
      <4>3. \A u \in Seq(V) : u = [k \in 1 .. Len(u) |-> u[k]]
        OBVIOUS
      <4> HIDE DEF w
      <4>4. w = [k \in 1 .. Len(P) + 1 |-> w[k]]
        BY <4>2, <4>3
      <4> QED  BY <4>2, <4>4 DEF c, w
    <3> HIDE DEF tt, ss, uu
    <3>5. \A k \in 1 .. Len(P) + 1 : tt[k] = uu[k]
      <4>1. \A k \in 1 .. Len(P) + 1 : k \in 1 .. Len(P) \/ k = Len(P) + 1
        BY <2>3
      <4> QED  BY <3>1, <3>2, <3>4, <4>1
    <3>6. tt = uu
      BY <3>3, <3>4, <3>5
    <3> QED  BY <3>6 DEF uu
  <2>6. Encoded(P) = FlattenSeq(ss) /\ Encoded(Q) = FlattenSeq(tt)
    <3>1. DOMAIN P = 1 .. Len(P)
      OBVIOUS
    <3> QED  BY <3>1 DEF Encoded
  <2> HIDE DEF ss, tt
  <2>7. FlattenSeq(Append(ss, EncodeUtf8(p))) = FlattenSeq(ss) \o EncodeUtf8(p)
    BY <2>2, <2>3, FlattenAppend
  <2> QED  BY <2>5, <2>6, <2>7 DEF Q
<1> QED  BY <1>1, <1>2

\* What the encoding of scalar values reads as.
LEMMA EncodedRead ==
  ASSUME NEW P \in Seq(Scalars)
  PROVE  /\ Encoded(P) \in Seq(Byte) /\ Points(Encoded(P)) = P
         /\ Len(Encoded(P)) \in CharacterEnds(Encoded(P))
<1> DEFINE Good(Q) == /\ Q \in Seq(Nat) /\ Encoded(Q) \in Seq(Byte) /\ Points(Encoded(Q)) = Q
                      /\ Len(Encoded(Q)) \in CharacterEnds(Encoded(Q))
           T == {Q \in Seq(Scalars) : Good(Q)}
<1>1. Good(<<>>)
  <2> DEFINE e == <<>>
  <2>1. e \in Seq(Byte) /\ Len(e) = 0 /\ e \in Seq(Nat)
    OBVIOUS
  <2> HIDE DEF e
  <2>2. 0 \in CharacterEnds(e)
    <3>1. 0 \in 0 .. Len(e)
      BY <2>1
    <3> QED  BY <2>1, <3>1, EndsDef
  <2>3. Points(e) = <<>>
    BY <2>1, PointsRead DEF Reads
  <2> QED  BY <2>1, <2>2, <2>3, EncodedDef DEF e
<1>2. ASSUME NEW Q \in Seq(Scalars), NEW p \in Scalars, Good(Q) PROVE Good(Append(Q, p))
  <2>1. p \in Nat /\ Scalar(p) /\ Append(Q, p) \in Seq(Nat)
    <3>1. p \in Nat /\ Scalar(p)
      BY DEF Scalars
    <3> QED  BY <1>2, <3>1
  <2> DEFINE s == Encoded(Q)
             c == EncodeUtf8(p)
  <2>2. s \in Seq(Byte) /\ Points(s) = Q /\ Len(s) \in CharacterEnds(s) /\ Q \in Seq(Nat)
    BY <1>2
  <2>3. c \in Seq(Byte) /\ Len(c) \in 1 .. 4 /\ WellFormed(c) /\ PointOf(c) = p
    BY <2>1, EncodedIs, EncodeLength
  <2>4. Encoded(Append(Q, p)) = s \o c
    BY <2>1, <2>2, EncodedDef
  <2> HIDE DEF s, c
  <2>5. s \o c \in Seq(Byte) /\ Len(s \o c) \in CharacterEnds(s \o c)
    BY <2>2, <2>3, EndsMore
  <2>6. Points(s \o c) = Q \o <<p>>
    BY <2>2, <2>3, PointsMore
  <2>7. Q \o <<p>> = Append(Q, p)
    BY <2>1, <2>2
  <2> QED  BY <2>1, <2>4, <2>5, <2>6, <2>7
<1>3. P \in T
  <2>1. <<>> \in Seq(Scalars)
    OBVIOUS
  <2>2. <<>> \in T
    BY <1>1, <2>1
  <2> HIDE DEF Good
  <2>3. \A Q \in Seq(Scalars) : \A p \in Scalars : Q \in T => Append(Q, p) \in T
    BY <1>2
  <2> HIDE DEF T
  <2> QED  BY <2>2, <2>3, Appended
<1> QED  BY <1>3

\* A text of whole characters has no ill-formed one.
LEMMA NoneIllFormed ==
  ASSUME NEW s \in Seq(Byte), Len(s) \in CharacterEnds(s)
  PROVE  FirstIllFormed(s) = -1
<1> DEFINE E == CharacterEnds(s)
<1>1. E \subseteq 0 .. Len(s) /\ Len(s) \in Nat
  BY DEF CharacterEnds
<1>2. \A j \in E : j <= Len(s)
  BY <1>1
<1>3. LastOf(E) = Len(s)
  BY <1>1, <1>2, LastOfIs
<1>4. (CHOOSE i \in CharacterEnds(s) : \A j \in CharacterEnds(s) : j <= i) = Len(s)
  BY <1>3 DEF LastOf
<1> QED  BY <1>4, Zenon DEF FirstIllFormed

LEMMA InUnitsType ==
  ASSUME NEW p \in Nat
  PROVE  InUnits(p) \in Seq(Int)
<1>1. High(p) \in Int /\ Low(p) \in Int
  BY SMT DEF High, Low
<1>2. <<p>> \in Seq(Int) /\ <<High(p), Low(p)>> \in Seq(Int)
  BY <1>1
<1> QED  BY <1>2, SMT DEF InUnits

LEMMA UnitsDef ==
  /\ UnitsOf(<<>>) = <<>>
  /\ \A P \in Seq(Nat), p \in Nat : UnitsOf(<<p>> \o P) = InUnits(p) \o UnitsOf(P)
<1>1. UnitsOf(<<>>) = <<>>
  <2> DEFINE ss == [k \in DOMAIN <<>> |-> InUnits(<<>>[k])]
  <2>1. ss = <<>> /\ Len(<<>>) = 0
    OBVIOUS
  <2>2. FlattenSeq(<<>>) = <<>>
    BY <2>1 DEF FlattenSeq
  <2>3. UnitsOf(<<>>) = FlattenSeq(ss)
    BY DEF UnitsOf
  <2> HIDE DEF ss
  <2> QED  BY <2>1, <2>2, <2>3
<1>2. ASSUME NEW P \in Seq(Nat), NEW p \in Nat
      PROVE  UnitsOf(<<p>> \o P) = InUnits(p) \o UnitsOf(P)
  <2> DEFINE ss == [k \in 1 .. Len(P) |-> InUnits(P[k])]
             Q == <<p>> \o P
             tt == [k \in 1 .. Len(Q) |-> InUnits(Q[k])]
             V == Seq(Int)
             c == InUnits(p)
  <2>1. \A k \in 1 .. Len(P) : P[k] \in Nat
    OBVIOUS
  <2>2. c \in V /\ \A k \in 1 .. Len(P) : InUnits(P[k]) \in V
    BY <2>1, InUnitsType
  <2>3. ss \in Seq(V) /\ Len(ss) = Len(P) /\ Len(P) \in Nat /\ \A k \in 1 .. Len(P) : ss[k] = InUnits(P[k])
    <3> HIDE DEF V
    <3> QED  BY <2>2
  <2>4. /\ DOMAIN Q = 1 .. Len(P) + 1 /\ Len(Q) = Len(P) + 1 /\ Q[1] = p
        /\ \A k \in 1 .. Len(P) + 1 : k # 1 => k - 1 \in 1 .. Len(P) /\ Q[k] = P[k - 1]
    OBVIOUS
  <2> HIDE DEF c
  <2>5. tt = <<c>> \o ss
    <3> DEFINE w == <<c>> \o ss
    <3>1. w = [k \in 1 .. Len(P) + 1 |-> w[k]] /\ w[1] = c
          /\ \A k \in 1 .. Len(P) + 1 : k # 1 => w[k] = ss[k - 1]
      <4> HIDE DEF ss, V
      <4>1. <<c>> \in Seq(V) /\ Len(<<c>>) = 1 /\ <<c>>[1] = c
        BY <2>2
      <4>2. w \in Seq(V) /\ Len(w) = Len(P) + 1 /\ w[1] = c
            /\ \A k \in 1 .. Len(P) + 1 : k # 1 => w[k] = ss[k - 1]
        BY <2>2, <2>3
      <4>3. \A u \in Seq(V) : u = [k \in 1 .. Len(u) |-> u[k]]
        OBVIOUS
      <4> HIDE DEF w
      <4> QED  BY <4>2, <4>3
    <3>2. tt[1] = c /\ \A k \in 1 .. Len(P) + 1 : k # 1 => tt[k] = ss[k - 1]
      <4> HIDE DEF Q, ss
      <4>1. 1 \in 1 .. Len(Q)
        BY <2>3, <2>4
      <4> QED  BY <2>3, <2>4, <4>1 DEF c
    <3>3. tt = [k \in 1 .. Len(P) + 1 |-> tt[k]]
      <4> HIDE DEF Q
      <4> QED  BY <2>4
    <3> HIDE DEF tt, w, ss
    <3>4. \A k \in 1 .. Len(P) + 1 : tt[k] = w[k]
      BY <3>1, <3>2
    <3>5. tt = w
      BY <3>1, <3>3, <3>4
    <3> QED  BY <3>5 DEF w
  <2>6. UnitsOf(P) = FlattenSeq(ss)
    <3>1. DOMAIN P = 1 .. Len(P)
      OBVIOUS
    <3> QED  BY <3>1 DEF UnitsOf
  <2>7. UnitsOf(Q) = FlattenSeq(tt)
    <3> HIDE DEF Q
    <3>1. DOMAIN Q = 1 .. Len(Q)
      BY <2>4
    <3> QED  BY <3>1 DEF UnitsOf
  <2> HIDE DEF ss, tt
  <2>8. FlattenSeq(<<c>> \o ss) = c \o FlattenSeq(ss)
    BY <2>2, <2>3, FlattenCons
  <2> QED  BY <2>5, <2>6, <2>7, <2>8 DEF Q, c
<1> QED  BY <1>1, <1>2

\* A pair of surrogates is what its character is in UTF-16.
LEMMA PairIs ==
  ASSUME NEW u \in HighSurrogates, NEW v \in LowSurrogates
  PROVE  InUnits(Paired(u, v)) = <<u, v>> /\ Paired(u, v) \in Nat
<1>1. u \in Nat /\ v \in Nat /\ u >= 55296 /\ u <= 56319 /\ v >= 56320 /\ v <= 57343
  BY Surrogates
<1> DEFINE a == u - 55296
           b == v - 56320
           p == 65536 + a * 1024 + b
<1>2. a \in 0 .. 1023 /\ b \in 0 .. 1023 /\ u = 55296 + a /\ v = 56320 + b
  BY <1>1, SMT
<1>3. Paired(u, v) = p
  BY DEF Paired
<1> HIDE DEF a, b
<1>4. p \in Nat /\ ~(p < 65536) /\ p - 65536 = a * 1024 + b
  BY <1>2, SMT
<1>5. (a * 1024 + b) \div 1024 = a /\ (a * 1024 + b) % 1024 = b
  BY <1>2, SMT
<1>6. High(p) = u /\ Low(p) = v
  <2> HIDE DEF p
  <2> QED  BY <1>2, <1>4, <1>5 DEF High, Low
<1> HIDE DEF p
<1>7. InUnits(p) = <<u, v>>
  BY <1>4, <1>6, SMT DEF InUnits
<1> QED  BY <1>3, <1>4, <1>7

LEMMA TwoFirst ==
  ASSUME NEW S, NEW x \in S, NEW y \in S, NEW s \in Seq(S)
  PROVE  <<x, y>> \o s = <<x>> \o (<<y>> \o s)
<1>1. <<x>> \in Seq(S) /\ <<y>> \in Seq(S)
  OBVIOUS
<1>2. <<x>> \o <<y>> = <<x, y>>
  <2> DEFINE t == <<x>> \o <<y>>
             u == <<x, y>>
  <2>1. t \in Seq(S) /\ Len(t) = 2 /\ t[1] = x /\ t[2] = y
    OBVIOUS
  <2>2. u \in Seq(S) /\ Len(u) = 2 /\ u[1] = x /\ u[2] = y
    OBVIOUS
  <2> HIDE DEF t, u
  <2>3. \A i \in 1 .. Len(u) : t[i] = u[i]
    <3>1. \A i \in 1 .. 2 : i = 1 \/ i = 2
      OBVIOUS
    <3> QED  BY <2>1, <2>2, <3>1
  <2>4. \A a, b \in Seq(S) : Len(a) = Len(b) /\ (\A i \in 1 .. Len(b) : a[i] = b[i]) => a = b
    BY SeqEqual
  <2>5. t = u
    BY <2>1, <2>2, <2>3, <2>4
  <2> QED  BY <2>5 DEF t, u
<1>3. (<<x>> \o <<y>>) \o s = <<x>> \o (<<y>> \o s)
  <2>1. \A a, b, c \in Seq(S) : (a \o b) \o c = a \o (b \o c)
    BY ConcatAssociative
  <2> QED  BY <1>1, <2>1
<1> QED  BY <1>2, <1>3

UnitsIn(bytes, big) == [k \in 1 .. Len(bytes) \div 2 |-> Unit(bytes, k, big)]

\* The text from a unit on that is not the second of a pair becomes characters that
\* have these units.
LEMMA UnitsKept ==
  ASSUME NEW bytes \in Seq(Byte), NEW big \in BOOLEAN, Len(bytes) % 2 = 0, PairsOnly(UnitsIn(bytes, big))
  PROVE  UnitsOf(Utf16Points(bytes, big)) = UnitsIn(bytes, big)
<1> DEFINE n == Len(bytes) \div 2
           U == UnitsIn(bytes, big)
           D == 1 .. n + 1
           H == HighSurrogates
           W == LowSurrogates
<1>1. PICK f \in [1 .. n + 2 -> Seq(Scalars)] :
        /\ Utf16Points(bytes, big) = f[1]
        /\ \A k \in 1 .. n + 2 : f[k] = PointsAt(bytes, big, f, k)
  BY PointsDef
<1>2. n \in Nat /\ \A k \in 1 .. n : U[k] = Unit(bytes, k, big) /\ U[k] \in Nat /\ U[k] <= 65535
  <2>1. n \in Nat
    OBVIOUS
  <2> QED  BY <2>1, UnitType DEF UnitsIn
<1>3. U \in Seq(Nat) /\ Len(U) = n
  <2>1. U = [k \in 1 .. n |-> U[k]]
    BY DEF UnitsIn
  <2>2. n \in Nat /\ \A k \in 1 .. n : U[k] \in Nat
    BY <1>2
  <2> HIDE DEF U, n
  <2>3. [k \in 1 .. n |-> U[k]] \in Seq(Nat)
    BY <2>2
  <2>4. Len([k \in 1 .. n |-> U[k]]) = n
    BY <2>2
  <2> QED  BY <2>1, <2>3, <2>4
<1>4. \A k \in 1 .. n : /\ U[k] \in H => k < n /\ U[k + 1] \in W
                        /\ U[k] \in W => k > 1 /\ U[k - 1] \in H
  <2>1. DOMAIN U = 1 .. n
    BY DEF UnitsIn
  <2>2. PairsOnly(U)
    OBVIOUS
  <2> HIDE DEF U, n
  <2> QED  BY <1>3, <2>1, <2>2 DEF PairsOnly
<1>5. \A k \in 1 .. n + 2 : f[k] \in Seq(Nat)
  <2>1. \A P \in Seq(Scalars) : P \in Seq(Nat)
    BY DEF Scalars
  <2> QED  BY <1>1, <2>1
<1>6. f[n + 1] = <<>>
  <2>1. n + 1 \in 1 .. n + 2 /\ n + 1 > n
    BY <1>2
  <2>2. f[n + 1] = PointsAt(bytes, big, f, n + 1)
    BY <1>1, <2>1
  <2>3. Len(bytes) % 2 # 1
    OBVIOUS
  <2> QED  BY <2>1, <2>2, <2>3 DEF PointsAt
<1>7. ASSUME NEW k \in 1 .. n
      PROVE  /\ U[k] \notin H /\ U[k] \notin W => f[k] = <<U[k]>> \o f[k + 1]
             /\ U[k] \in H /\ k # n /\ U[k + 1] \in W => f[k] = <<Paired(U[k], U[k + 1])>> \o f[k + 2]
  <2>1. k \in 1 .. n + 2 /\ ~(k > n)
    BY <1>2
  <2>2. f[k] = PointsAt(bytes, big, f, k)
    BY <1>1, <2>1
  <2>3. U[k] = Unit(bytes, k, big) /\ (k # n => U[k + 1] = Unit(bytes, k + 1, big))
    <3>1. k # n => k + 1 \in 1 .. n
      BY <1>2
    <3> QED  BY <1>2, <3>1
  <2> HIDE DEF U
  <2> QED  BY <2>1, <2>2, <2>3 DEF PointsAt
<1> HIDE DEF U, H, W, n
<1> DEFINE First(k) == k = 1 \/ U[k - 1] \notin H
           Kept(k) == First(k) => UnitsOf(f[k]) = SubSeq(U, k, n)
           T == {k \in D : Kept(k)}
           rank == [k \in D |-> n + 1 - k]
<1>8. \A k \in 1 .. n : <<U[k]>> \o SubSeq(U, k + 1, n) = SubSeq(U, k, n)
  BY <1>3, FirstAndRest
<1>9. ASSUME NEW k \in D, \A j \in D : rank[j] < rank[k] => j \in T PROVE k \in T
  <2>1. \A j \in D : j > k => Kept(j)
    BY <1>2, <1>9
  <2> SUFFICES ASSUME First(k) PROVE UnitsOf(f[k]) = SubSeq(U, k, n)
    OBVIOUS
  <2>2. CASE k = n + 1
    <3>1. SubSeq(U, k, n) = <<>>
      BY <1>2, <1>3, <2>2
    <3> QED  BY <1>6, <2>2, <3>1, UnitsDef
  <2>3. CASE k \in 1 .. n /\ U[k] \notin H
    <3>1. U[k] \notin W
      <4>1. U[k] \in W => k # 1 /\ U[k - 1] \in H
        BY <1>2, <1>4, <2>3
      <4> QED  BY <4>1
    <3>2. k + 1 \in D /\ k + 1 > k /\ (k + 1) - 1 = k /\ k + 1 \in 1 .. n + 2
      BY <1>2, <2>3
    <3>3. UnitsOf(f[k + 1]) = SubSeq(U, k + 1, n)
      BY <2>1, <2>3, <3>2
    <3>4. U[k] \in Nat /\ U[k] < 65536
      <4>1. \A x \in Nat : x <= 65535 => x < 65536
        BY SMT
      <4> QED  BY <1>2, <2>3, <4>1
    <3>5. InUnits(U[k]) = <<U[k]>>
      BY <3>4, SMT DEF InUnits
    <3>6. f[k] = <<U[k]>> \o f[k + 1] /\ f[k + 1] \in Seq(Nat)
      BY <1>5, <1>7, <2>3, <3>1, <3>2
    <3>7. UnitsOf(f[k]) = InUnits(U[k]) \o UnitsOf(f[k + 1])
      <4>1. U[k] \in Nat
        BY <3>4
      <4>2. UnitsOf(<<U[k]>> \o f[k + 1]) = InUnits(U[k]) \o UnitsOf(f[k + 1])
        BY <3>6, <4>1, UnitsDef
      <4> QED  BY <3>6, <4>2
    <3> QED  BY <1>8, <2>3, <3>3, <3>5, <3>7
  <2>4. CASE k \in 1 .. n /\ U[k] \in H
    <3>1. k < n /\ U[k + 1] \in W /\ k # n /\ k + 1 \in 1 .. n
      <4>1. k < n /\ U[k + 1] \in W
        BY <1>4, <2>4
      <4> QED  BY <1>2, <2>4, <4>1
    <3>2. k + 2 \in D /\ k + 2 > k /\ (k + 2) - 1 = k + 1 /\ (k + 1) + 1 = k + 2 /\ k + 2 \in 1 .. n + 2
      BY <1>2, <2>4, <3>1
    <3>3. U[k + 1] \notin H
      <4>1. \A u \in Nat : u >= 56320 => ~(u <= 56319)
        BY SMT
      <4> QED  BY <1>2, <3>1, <4>1, Surrogates DEF H, W
    <3>4. UnitsOf(f[k + 2]) = SubSeq(U, k + 2, n)
      BY <2>1, <3>2, <3>3
    <3> DEFINE p == Paired(U[k], U[k + 1])
    <3>5. InUnits(p) = <<U[k], U[k + 1]>> /\ p \in Nat
      BY <2>4, <3>1, PairIs DEF H, W
    <3>6. f[k] = <<p>> \o f[k + 2] /\ f[k + 2] \in Seq(Nat)
      BY <1>5, <1>7, <2>4, <3>1, <3>2
    <3> HIDE DEF p
    <3>7. UnitsOf(f[k]) = InUnits(p) \o UnitsOf(f[k + 2])
      BY <3>5, <3>6, UnitsDef
    <3>8. SubSeq(U, k + 1, n) = <<U[k + 1]>> \o SubSeq(U, k + 2, n)
      BY <1>8, <3>1, <3>2
    <3>9. SubSeq(U, k, n) = <<U[k]>> \o SubSeq(U, k + 1, n)
      BY <1>8, <2>4
    <3>10. SubSeq(U, k + 2, n) \in Seq(Nat) /\ U[k] \in Nat /\ U[k + 1] \in Nat
      <4>1. k + 1 \in 0 .. Len(U) /\ Len(U) = n
        BY <1>3, <3>1
      <4> DEFINE j == k + 1
      <4> HIDE DEF j
      <4>2. SubSeq(U, j + 1, Len(U)) \in Seq(Nat)
        BY <1>3, <4>1, RestIs DEF j
      <4>3. j + 1 = k + 2
        BY <1>2, <2>4 DEF j
      <4> QED  BY <1>2, <2>4, <3>1, <4>1, <4>2, <4>3
    <3>11. <<U[k], U[k + 1]>> \o SubSeq(U, k + 2, n) = <<U[k]>> \o (<<U[k + 1]>> \o SubSeq(U, k + 2, n))
      <4> DEFINE a == U[k]
                 b == U[k + 1]
                 r == SubSeq(U, k + 2, n)
                 N == Nat
      <4>1. a \in N /\ b \in N /\ r \in Seq(N)
        BY <3>10
      <4> HIDE DEF a, b, r, N
      <4>2. <<a, b>> \o r = <<a>> \o (<<b>> \o r)
        BY <4>1, TwoFirst
      <4> QED  BY <4>2 DEF a, b, r
    <3>12. UnitsOf(f[k]) = <<U[k], U[k + 1]>> \o SubSeq(U, k + 2, n)
      BY <3>4, <3>5, <3>7
    <3> QED  BY <3>8, <3>9, <3>11, <3>12, Zenon
  <2> QED  BY <1>2, <2>2, <2>3, <2>4
<1>10. \A k \in D : k \in T
  <2>1. rank \in [D -> 0 .. n + 1] /\ n + 1 \in Nat
    BY <1>2
  <2> DEFINE m == n + 1
  <2> HIDE DEF D, T, rank, m
  <2>2. Inductive(D, m, rank, T)
    BY <1>9, <2>1 DEF Inductive, m
  <2> QED  BY <2>2, ByRank
<1>11. UnitsOf(f[1]) = SubSeq(U, 1, n)
  <2>1. 1 \in D
    BY <1>2
  <2> QED  BY <1>10, <2>1
<1>12. SubSeq(U, 1, n) = U
  BY <1>3
<1> QED  BY <1>1, <1>11, <1>12 DEF U

\* A UTF-16 mark decides, whatever the declaration names.
LEMMA MarkDecides ==
  ASSUME NEW bytes, NEW mark \in {"UTF16_LE", "UTF16_BE"}, Mark(bytes).enc = mark
  PROVE  DetectEncoding(bytes) = mark
<1>1. bytes # <<>>
  <2>1. SUFFICES ASSUME bytes = <<>> PROVE FALSE
    OBVIOUS
  <2> DEFINE found == {k \in DOMAIN Marks : Leads(Marks[k].bom, bytes)}
  <2>2. \A k \in DOMAIN Marks : Len(Marks[k].bom) > 0
    BY DEF Marks
  <2>3. Len(bytes) = 0
    BY <2>1
  <2>4. \A k \in DOMAIN Marks : Len(Marks[k].bom) \in Nat
    BY DEF Marks
  <2>5. found = {}
    BY <2>2, <2>3, <2>4 DEF Leads
  <2> HIDE DEF found
  <2>6. Mark(bytes) = [bom |-> <<>>, enc |-> "Unknown"]
    BY <2>5 DEF Mark, found
  <2> QED  BY <2>6
<1>2. mark \notin {"UTF8", "Unknown"}
  OBVIOUS
<1> DEFINE marked == Mark(bytes).enc
           declared == Declared(AfterBom(bytes))
<1>3. marked = mark
  OBVIOUS
<1> HIDE DEF declared
<1>4. bytes # <<>> /\ marked \notin {"UTF8", "Unknown"}
  BY <1>1, <1>2
<1>5. DetectEncoding(bytes) = marked
  BY <1>4 DEF DetectEncoding
<1> QED  BY <1>3, <1>5

LEMMA OtherDef ==
  /\ Other(<<>>) = <<>>
  /\ \A s \in Seq(Chars), c \in Chars :
       Other(Append(s, c)) = Other(s) \o (IF c \in {LF, CR} THEN <<>> ELSE <<c>>)
<1> DEFINE One(c) == IF c \in {LF, CR} THEN <<>> ELSE <<c>>
<1>1. Other(<<>>) = <<>>
  <2> DEFINE ss == [k \in DOMAIN <<>> |-> One(<<>>[k])]
  <2>1. ss = <<>> /\ Len(<<>>) = 0
    OBVIOUS
  <2>2. FlattenSeq(<<>>) = <<>>
    BY <2>1 DEF FlattenSeq
  <2>3. Other(<<>>) = FlattenSeq(ss)
    BY DEF Other
  <2> HIDE DEF ss
  <2> QED  BY <2>1, <2>2, <2>3
<1>2. ASSUME NEW s \in Seq(Chars), NEW c \in Chars
      PROVE  Other(Append(s, c)) = Other(s) \o One(c)
  <2> DEFINE V == Seq(Chars)
             ss == [k \in 1 .. Len(s) |-> One(s[k])]
             t == Append(s, c)
             tt == [k \in 1 .. Len(t) |-> One(t[k])]
             e == One(c)
  <2>1. \A k \in 1 .. Len(s) : s[k] \in Chars
    OBVIOUS
  <2>2. \A d \in Chars : One(d) \in V
    OBVIOUS
  <2>3. ss \in Seq(V) /\ Len(ss) = Len(s) /\ Len(s) \in Nat /\ \A k \in 1 .. Len(s) : ss[k] = One(s[k])
    <3> HIDE DEF V, One
    <3> QED  BY <2>1, <2>2
  <2>4. e \in V
    BY <2>2
  <2>5. /\ DOMAIN t = 1 .. Len(s) + 1 /\ Len(t) = Len(s) + 1 /\ t[Len(s) + 1] = c
        /\ \A k \in 1 .. Len(s) : t[k] = s[k]
    OBVIOUS
  <2> HIDE DEF One
  <2>6. Other(s) = FlattenSeq(ss)
    <3>1. DOMAIN s = 1 .. Len(s)
      OBVIOUS
    <3> QED  BY <3>1 DEF Other, One
  <2>7. Other(t) = FlattenSeq(tt)
    <3> HIDE DEF t
    <3>1. DOMAIN t = 1 .. Len(t)
      BY <2>5
    <3> QED  BY <3>1 DEF Other, One
  <2> HIDE DEF e, ss, V
  <2>8. tt = Append(ss, e)
    <3> DEFINE w == Append(ss, e)
    <3>1. w \in Seq(V) /\ Len(w) = Len(s) + 1 /\ w[Len(s) + 1] = e /\ \A k \in 1 .. Len(s) : w[k] = ss[k]
      BY <2>3, <2>4
    <3>2. w = [k \in 1 .. Len(s) + 1 |-> w[k]]
      <4>1. \A u \in Seq(V) : u = [k \in 1 .. Len(u) |-> u[k]]
        OBVIOUS
      <4> HIDE DEF w
      <4> QED  BY <3>1, <4>1
    <3> HIDE DEF t, w
    <3>3. tt = [k \in 1 .. Len(s) + 1 |-> tt[k]]
      BY <2>5
    <3>4. tt[Len(s) + 1] = e /\ \A k \in 1 .. Len(s) : tt[k] = ss[k]
      <4>1. Len(s) + 1 \in 1 .. Len(t) /\ \A k \in 1 .. Len(s) : k \in 1 .. Len(t)
        BY <2>3, <2>5
      <4> QED  BY <2>3, <2>5, <4>1 DEF e
    <3> HIDE DEF tt
    <3>5. \A k \in 1 .. Len(s) + 1 : tt[k] = w[k]
      <4>1. \A k \in 1 .. Len(s) + 1 : k \in 1 .. Len(s) \/ k = Len(s) + 1
        BY <2>3
      <4> QED  BY <3>1, <3>4, <4>1
    <3> QED  BY <3>2, <3>3, <3>5 DEF w
  <2> HIDE DEF tt, t
  <2>9. FlattenSeq(Append(ss, e)) = FlattenSeq(ss) \o e
    <3>1. ss \in Seq(Seq(Chars)) /\ e \in Seq(Chars)
      BY <2>3, <2>4 DEF V
    <3> QED  BY <3>1, FlattenAppend
  <2> QED  BY <2>6, <2>7, <2>8, <2>9 DEF e, t
<1> QED  BY <1>1, <1>2

\* w is what s becomes when its line ends are normalised.
Alike(w, s) == NoCR(w) /\ PlaceIn(w).line = PlaceIn(s).line /\ Other(w) = Other(s)

Pends(s) == s # <<>> /\ s[Len(s)] = CR

\* One character more, a line end or not.
LEMMA LineIs ==
  ASSUME NEW s \in Seq(Chars), NEW c \in Chars
  PROVE  /\ PlaceIn(s).line \in Nat /\ Append(s, c) \in Seq(Chars)
         /\ PlaceIn(Append(s, c)).line =
              IF c = CR \/ (c = LF /\ ~Pends(s)) THEN PlaceIn(s).line + 1 ELSE PlaceIn(s).line
         /\ Pends(Append(s, c)) <=> c = CR
         /\ NoCR(s) => ~Pends(s)
         /\ NoCR(s) /\ c # CR => NoCR(Append(s, c))
<1>1. PlaceIn(s).line \in Nat
  BY PlaceInType
<1>2. PlaceIn(s).last_was_cr <=> Pends(s)
  BY DEF PlaceIn, Pends
<1>3. PlaceIn(Append(s, c)).line = After(PlaceIn(s), c).line
  BY OneMore
<1>4. After(PlaceIn(s), c).line = IF EndsLine(PlaceIn(s), c) THEN PlaceIn(s).line + 1 ELSE PlaceIn(s).line
  BY DEF After
<1>5. EndsLine(PlaceIn(s), c) <=> c = CR \/ (c = LF /\ ~Pends(s))
  BY <1>2 DEF EndsLine
<1> DEFINE t == Append(s, c)
<1>6. /\ t \in Seq(Chars) /\ t # <<>> /\ Len(t) = Len(s) + 1 /\ t[Len(t)] = c /\ Len(s) \in Nat
      /\ DOMAIN t = 1 .. Len(s) + 1 /\ DOMAIN s = 1 .. Len(s) /\ \A k \in 1 .. Len(s) : t[k] = s[k]
  OBVIOUS
<1> HIDE DEF t
<1>7. Pends(t) <=> c = CR
  BY <1>6 DEF Pends
<1>8. NoCR(s) => ~Pends(s)
  <2>1. s # <<>> => Len(s) \in DOMAIN s
    BY <1>6
  <2> QED  BY <2>1 DEF NoCR, Pends
<1>9. NoCR(s) /\ c # CR => NoCR(t)
  <2>1. \A k \in 1 .. Len(s) + 1 : k \in 1 .. Len(s) \/ k = Len(t)
    BY <1>6
  <2> QED  BY <1>6, <2>1 DEF NoCR
<1>10. PlaceIn(t).line = IF c = CR \/ (c = LF /\ ~Pends(s)) THEN PlaceIn(s).line + 1 ELSE PlaceIn(s).line
  BY <1>3, <1>4, <1>5 DEF t
<1> QED  BY <1>1, <1>6, <1>7, <1>8, <1>9, <1>10 DEF t

LEMMA OtherType ==
  ASSUME NEW s \in Seq(Chars)
  PROVE  Other(s) \in Seq(Chars)
<1> DEFINE V == Seq(Chars)
           ss == [k \in 1 .. Len(s) |-> IF s[k] \in {LF, CR} THEN <<>> ELSE <<s[k]>>]
<1>1. \A k \in 1 .. Len(s) : (IF s[k] \in {LF, CR} THEN <<>> ELSE <<s[k]>>) \in V
  <2>1. \A k \in 1 .. Len(s) : s[k] \in Chars
    OBVIOUS
  <2>2. \A d \in Chars : (IF d \in {LF, CR} THEN <<>> ELSE <<d>>) \in V
    OBVIOUS
  <2> HIDE DEF V
  <2> QED  BY <2>1, <2>2
<1>2. ss \in Seq(V)
  <2>1. Len(s) \in Nat
    OBVIOUS
  <2> HIDE DEF V
  <2> QED  BY <1>1, <2>1
<1>3. Other(s) = FlattenSeq(ss)
  <2>1. DOMAIN s = 1 .. Len(s)
    OBVIOUS
  <2> QED  BY <2>1 DEF Other
<1> HIDE DEF ss
<1>4. FlattenSeq(ss) \in Seq(Chars)
  BY <1>2, FlattenType
<1> QED  BY <1>3, <1>4

\* A character that is no CR stays.
LEMMA OneAlike ==
  ASSUME NEW w \in Seq(Chars), NEW s \in Seq(Chars), Alike(w, s),
         NEW c \in Chars, c # CR, ~(Pends(s) /\ c = LF)
  PROVE  Alike(Append(w, c), Append(s, c))
<1>1. NoCR(w) /\ PlaceIn(w).line = PlaceIn(s).line /\ Other(w) = Other(s)
  BY DEF Alike
<1>2. NoCR(Append(w, c))
  BY <1>1, LineIs
<1>3. PlaceIn(Append(w, c)).line = PlaceIn(Append(s, c)).line
  <2>1. ~Pends(w)
    BY <1>1, LineIs
  <2>2. PlaceIn(Append(w, c)).line =
          IF c = CR \/ (c = LF /\ ~Pends(w)) THEN PlaceIn(w).line + 1 ELSE PlaceIn(w).line
    BY LineIs
  <2>3. PlaceIn(Append(s, c)).line =
          IF c = CR \/ (c = LF /\ ~Pends(s)) THEN PlaceIn(s).line + 1 ELSE PlaceIn(s).line
    BY LineIs
  <2> QED  BY <1>1, <2>1, <2>2, <2>3
<1>4. Other(Append(w, c)) = Other(Append(s, c))
  BY <1>1, OtherDef
<1> QED  BY <1>2, <1>3, <1>4 DEF Alike

\* A CR becomes an LF.
LEMMA ReturnAlike ==
  ASSUME NEW w \in Seq(Chars), NEW s \in Seq(Chars), Alike(w, s)
  PROVE  Alike(Append(w, LF), Append(s, CR))
<1>1. NoCR(w) /\ PlaceIn(w).line = PlaceIn(s).line /\ Other(w) = Other(s)
  BY DEF Alike
<1>2. LF \in Chars /\ CR \in Chars /\ LF # CR
  BY CallsAssumption, BlockAssumption
<1>3. NoCR(Append(w, LF)) /\ ~Pends(w)
  BY <1>1, <1>2, LineIs
<1>4. PlaceIn(Append(w, LF)).line = PlaceIn(Append(s, CR)).line
  <2>1. PlaceIn(Append(w, LF)).line = PlaceIn(w).line + 1
    BY <1>2, <1>3, LineIs
  <2>2. PlaceIn(Append(s, CR)).line = PlaceIn(s).line + 1
    BY <1>2, LineIs
  <2> QED  BY <1>1, <2>1, <2>2
<1>5. Other(Append(w, LF)) = Other(Append(s, CR))
  BY <1>1, <1>2, OtherDef
<1> QED  BY <1>3, <1>4, <1>5 DEF Alike

\* The LF of a pair goes.
LEMMA PairAlike ==
  ASSUME NEW w \in Seq(Chars), NEW s \in Seq(Chars), Alike(w, s), Pends(s)
  PROVE  Alike(w, Append(s, LF))
<1>1. NoCR(w) /\ PlaceIn(w).line = PlaceIn(s).line /\ Other(w) = Other(s)
  BY DEF Alike
<1>2. LF \in Chars /\ CR \in Chars /\ LF # CR
  BY CallsAssumption, BlockAssumption
<1>3. PlaceIn(Append(s, LF)).line = PlaceIn(s).line
  BY <1>2, LineIs
<1>4. Other(Append(s, LF)) = Other(s)
  <2>1. Other(Append(s, LF)) = Other(s) \o <<>>
    BY <1>2, OtherDef
  <2>2. Other(s) \in Seq(Chars)
    BY OtherType
  <2>3. \A q \in Seq(Chars) : q \o <<>> = q
    OBVIOUS
  <2> QED  BY <2>1, <2>2, <2>3
<1> QED  BY <1>1, <1>3, <1>4 DEF Alike

\* What comes before the rest is written first.
LEMMA Written ==
  ASSUME NEW w \in Seq(Chars), NEW c \in Chars, NEW q \in Seq(Chars)
  PROVE  w \o (<<c>> \o q) = Append(w, c) \o q /\ Append(w, c) \in Seq(Chars)
<1>1. Append(w, c) = w \o <<c>> /\ <<c>> \in Seq(Chars) /\ Append(w, c) \in Seq(Chars)
  OBVIOUS
<1>2. (w \o <<c>>) \o q = w \o (<<c>> \o q)
  BY <1>1, ConcatAssociative
<1> QED  BY <1>1, <1>2, Zenon

LEMMA NormalisedAlike ==
  ASSUME NEW s \in Seq(Chars)
  PROVE  Alike(NormalizeLineEndings(s, LF, CR), s)
<1> DEFINE L == Len(s)
           D == 1 .. L + 1
           Before(i) == SubSeq(s, 1, i - 1)
           whole == NormalizeLineEndings(s, LF, CR)
<1>1. PICK f \in [1 .. L + 2 -> Seq(Chars)] :
        whole = f[1] /\ \A i \in 1 .. L + 2 : f[i] = NormalisedAt(s, LF, CR, f, i)
  <2>1. LF \in Chars
    BY CallsAssumption
  <2> QED  BY <2>1, NormalisedDef
<1>2. L \in Nat /\ LF \in Chars /\ CR \in Chars /\ LF # CR /\ \A i \in 1 .. L : s[i] \in Chars
  BY CallsAssumption, BlockAssumption
<1> HIDE DEF whole
<1> DEFINE Good(i, w) == /\ w \in Seq(Chars) /\ whole = w \o f[i] /\ Alike(w, Before(i))
                         /\ i <= L => ~(Pends(Before(i)) /\ s[i] = LF)
           T == {i \in D : \E w : Good(i, w)}
<1>3. ASSUME NEW i \in D
      PROVE  Before(i) \in Seq(Chars) /\ (i <= L => Before(i + 1) = Append(Before(i), s[i]))
  <2>1. Before(i) \in Seq(Chars)
    <3>1. \A j \in 1 .. i - 1 : j \in 1 .. L
      BY <1>2
    <3>2. i - 1 \in Int
      BY <1>2
    <3> DEFINE m == i - 1
    <3> HIDE DEF m
    <3>3. \A j \in 1 .. m : s[j] \in Chars
      BY <1>2, <3>1 DEF m
    <3>4. SubSeq(s, 1, m) \in Seq(Chars)
      BY <3>2, <3>3, SubSeqProperties DEF m
    <3> QED  BY <3>4 DEF m
  <2>2. ASSUME i <= L PROVE Before(i + 1) = Append(Before(i), s[i])
    <3>1. (i + 1) - 1 = i /\ i \in 1 .. L
      BY <1>2, <2>2
    <3>2. \A t \in Seq(Chars) : \A j \in 1 .. Len(t) : SubSeq(t, 1, j) = Append(SubSeq(t, 1, j - 1), t[j])
      BY SubSeqRecursiveSecond
    <3> QED  BY <3>1, <3>2
  <2> QED  BY <2>1, <2>2
<1>4. 1 \in T
  <2>1. 1 \in D /\ Before(1) = <<>>
    BY <1>2
  <2>2. Alike(<<>>, <<>>)
    BY DEF Alike, NoCR
  <2>3. whole = <<>> \o f[1]
    <3>1. f[1] \in Seq(Chars)
      BY <1>1, <1>2
    <3>2. \A q \in Seq(Chars) : <<>> \o q = q
      OBVIOUS
    <3> QED  BY <1>1, <3>1, <3>2
  <2>4. <<>> \in Seq(Chars) /\ ~Pends(<<>>)
    BY DEF Pends
  <2>5. Good(1, <<>>)
    BY <2>1, <2>2, <2>3, <2>4
  <2> QED  BY <2>1, <2>5
<1>6. ASSUME NEW i \in T, i <= L PROVE \E j \in T : j > i
  <2>1. PICK w : Good(i, w)
    OBVIOUS
  <2>2. i \in 1 .. L /\ i \in D /\ i \in 1 .. L + 2 /\ ~(i > L) /\ i + 1 \in D /\ i + 1 \in 1 .. L + 2
        /\ s[i] \in Chars /\ i + 1 > i
    BY <1>2, <1>6
  <2>3. f[i] = NormalisedAt(s, LF, CR, f, i)
    BY <1>1, <2>2
  <2> DEFINE b == Before(i)
  <2>4. /\ b \in Seq(Chars) /\ w \in Seq(Chars) /\ whole = w \o f[i] /\ Alike(w, b) /\ ~(Pends(b) /\ s[i] = LF)
        /\ Before(i + 1) = Append(b, s[i])
    BY <1>3, <1>6, <2>1, <2>2
  <2>5. CASE s[i] # CR
    <3>1. f[i] = <<s[i]>> \o f[i + 1] /\ f[i + 1] \in Seq(Chars)
      BY <1>1, <2>2, <2>3, <2>5 DEF NormalisedAt
    <3> HIDE DEF b, Before
    <3>2. whole = Append(w, s[i]) \o f[i + 1] /\ Append(w, s[i]) \in Seq(Chars)
      <4> DEFINE c == s[i]
                 q == f[i + 1]
                 r == f[i]
      <4>1. w \in Seq(Chars) /\ c \in Chars /\ q \in Seq(Chars) /\ whole = w \o r /\ r = <<c>> \o q
        BY <2>2, <2>4, <3>1
      <4> HIDE DEF c, q, r
      <4>2. w \o (<<c>> \o q) = Append(w, c) \o q /\ Append(w, c) \in Seq(Chars)
        BY <4>1, Written
      <4>3. whole = Append(w, c) \o q
        BY <4>1, <4>2, Zenon
      <4> QED  BY <4>2, <4>3 DEF c, q
    <3>3. Alike(Append(w, s[i]), Before(i + 1))
      BY <2>2, <2>4, <2>5, OneAlike
    <3>4. ~Pends(Before(i + 1))
      BY <2>2, <2>4, <2>5, LineIs
    <3>5. Good(i + 1, Append(w, s[i]))
      BY <3>2, <3>3, <3>4
    <3> QED  BY <2>2, <3>5
  <2>6. CASE s[i] = CR /\ i < L /\ s[i + 1] = LF
    <3>1. i + 2 \in D /\ i + 2 \in 1 .. L + 2 /\ i + 2 > i /\ i + 1 <= L /\ (i + 1) + 1 = i + 2
      BY <1>2, <2>2, <2>6
    <3>2. f[i] = <<LF>> \o f[i + 2] /\ f[i + 2] \in Seq(Chars)
      BY <1>1, <2>2, <2>3, <2>6, <3>1 DEF NormalisedAt
    <3>3. Before(i + 2) = Append(Before(i + 1), LF)
      BY <1>3, <2>2, <2>6, <3>1
    <3> HIDE DEF b, Before
    <3>4. whole = Append(w, LF) \o f[i + 2] /\ Append(w, LF) \in Seq(Chars)
      <4> DEFINE c == LF
                 q == f[i + 2]
                 r == f[i]
      <4>1. w \in Seq(Chars) /\ c \in Chars /\ q \in Seq(Chars) /\ whole = w \o r /\ r = <<c>> \o q
        BY <1>2, <2>4, <3>2
      <4> HIDE DEF c, q, r
      <4>2. w \o (<<c>> \o q) = Append(w, c) \o q /\ Append(w, c) \in Seq(Chars)
        BY <4>1, Written
      <4>3. whole = Append(w, c) \o q
        BY <4>1, <4>2, Zenon
      <4> QED  BY <4>2, <4>3 DEF c, q
    <3>5. Append(b, CR) \in Seq(Chars) /\ Pends(Append(b, CR)) /\ Before(i + 1) = Append(b, CR)
      BY <1>2, <2>4, <2>6, LineIs
    <3>6. Alike(Append(w, LF), Append(b, CR))
      BY <2>4, ReturnAlike
    <3>7. Alike(Append(w, LF), Before(i + 2))
      BY <3>3, <3>4, <3>5, <3>6, PairAlike
    <3>8. ~Pends(Before(i + 2))
      <4>1. \A q \in Seq(Chars) : ~Pends(Append(q, LF))
        BY <1>2, LineIs
      <4> QED  BY <3>3, <3>5, <4>1
    <3>9. Good(i + 2, Append(w, LF))
      BY <3>4, <3>7, <3>8
    <3> QED  BY <3>1, <3>9
  <2>7. CASE s[i] = CR /\ ~(i < L /\ s[i + 1] = LF)
    <3>1. f[i] = <<LF>> \o f[i + 1] /\ f[i + 1] \in Seq(Chars)
      BY <1>1, <2>2, <2>3, <2>7 DEF NormalisedAt
    <3> HIDE DEF b, Before
    <3>2. whole = Append(w, LF) \o f[i + 1] /\ Append(w, LF) \in Seq(Chars)
      <4> DEFINE c == LF
                 q == f[i + 1]
                 r == f[i]
      <4>1. w \in Seq(Chars) /\ c \in Chars /\ q \in Seq(Chars) /\ whole = w \o r /\ r = <<c>> \o q
        BY <1>2, <2>4, <3>1
      <4> HIDE DEF c, q, r
      <4>2. w \o (<<c>> \o q) = Append(w, c) \o q /\ Append(w, c) \in Seq(Chars)
        BY <4>1, Written
      <4>3. whole = Append(w, c) \o q
        BY <4>1, <4>2, Zenon
      <4> QED  BY <4>2, <4>3 DEF c, q
    <3>3. Alike(Append(w, LF), Before(i + 1))
      BY <2>4, <2>7, ReturnAlike
    <3>4. i + 1 <= L => s[i + 1] # LF
      BY <1>2, <2>2, <2>7
    <3>5. Good(i + 1, Append(w, LF))
      BY <3>2, <3>3, <3>4
    <3> QED  BY <2>2, <3>5
  <2> QED  BY <2>5, <2>6, <2>7
<1> HIDE DEF T
<1>7. T \subseteq D
  BY DEF T
<1>8. L + 1 \in T
  <2> DEFINE S == {k \in 0 .. L : \E i \in T : i > k}
  <2>1. 0 \in S
    BY <1>2, <1>4
  <2>2. ASSUME NEW k \in 0 .. L - 1, k \in S PROVE k + 1 \in S
    <3>1. PICK i \in T : i > k
      BY <2>2
    <3>2. i \in 1 .. L + 1
      BY <1>7
    <3>3. CASE i > k + 1
      BY <1>2, <3>1, <3>3
    <3>4. CASE ~(i > k + 1)
      <4>1. i = k + 1 /\ i <= L
        BY <1>2, <3>1, <3>2, <3>4
      <4>2. PICK j \in T : j > i
        BY <1>6, <4>1
      <4> QED  BY <1>2, <4>1, <4>2
    <3> QED  BY <3>3, <3>4
  <2>3. \A k \in 0 .. L : k \in S
    <3> HIDE DEF S
    <3> QED  BY <1>2, <2>1, <2>2, CountsTo
  <2>4. PICK i \in T : i > L
    BY <1>2, <2>3
  <2>5. i = L + 1
    BY <1>2, <1>7, <2>4
  <2> QED  BY <2>4, <2>5
<1>9. PICK w : Good(L + 1, w)
  BY <1>8 DEF T
<1>10. f[L + 1] = <<>>
  <2>1. L + 1 \in 1 .. L + 2 /\ L + 1 > L
    BY <1>2
  <2>2. f[L + 1] = NormalisedAt(s, LF, CR, f, L + 1)
    BY <1>1, <2>1
  <2> QED  BY <2>1, <2>2 DEF NormalisedAt
<1>11. whole = w
  <2>1. \A q \in Seq(Chars) : q \o <<>> = q
    OBVIOUS
  <2> QED  BY <1>9, <1>10, <2>1
<1>12. Before(L + 1) = s
  <2>1. (L + 1) - 1 = L
    BY <1>2
  <2> QED  BY <2>1
<1> QED  BY <1>9, <1>11, <1>12 DEF whole

\* What becomes of a text in each encoding.
LEMMA LatinKept ==
  ASSUME NEW s \in Seq(Byte)
  PROVE  Points(TranscodeToUtf8(s, "ISO_8859_1")) = s
<1>1. Byte \subseteq Scalars
  BY SMT DEF Byte, Scalars, Scalar
<1>2. s \in Seq(Scalars)
  <2>1. s = [i \in 1 .. Len(s) |-> s[i]] /\ Len(s) \in Nat /\ \A i \in 1 .. Len(s) : s[i] \in Byte
    OBVIOUS
  <2> HIDE DEF Byte, Scalars
  <2>2. [i \in 1 .. Len(s) |-> s[i]] \in Seq(Scalars)
    BY <1>1, <2>1
  <2> QED  BY <2>1, <2>2
<1>3. TranscodeToUtf8(s, "ISO_8859_1") = Encoded(s)
  BY DEF TranscodeToUtf8
<1> QED  BY <1>2, <1>3, EncodedRead

LEMMA Utf16Kept ==
  ASSUME NEW s \in Seq(Byte), NEW enc \in {"UTF16_LE", "UTF16_BE"}, NEW t, t = TranscodeToUtf8(s, enc)
  PROVE  /\ FirstIllFormed(t) = -1
         /\ Len(AfterBom(s)) % 2 = 0 /\ PairsOnly(UnitsIn(AfterBom(s), enc = "UTF16_BE")) =>
              UnitsOf(Points(t)) = UnitsIn(AfterBom(s), enc = "UTF16_BE")
<1> DEFINE body == AfterBom(s)
           big  == enc = "UTF16_BE"
           P    == Utf16Points(body, big)
<1>1. body \in Seq(Byte) /\ big \in BOOLEAN
  BY AfterBomType
<1>2. t = Encoded(P)
  <2>1. CASE enc = "UTF16_LE"
    <3>1. big = FALSE
      BY <2>1
    <3> HIDE DEF big
    <3> QED  BY <2>1, <3>1 DEF TranscodeToUtf8
  <2>2. CASE enc = "UTF16_BE"
    <3>1. big = TRUE
      BY <2>2
    <3> HIDE DEF big
    <3> QED  BY <2>2, <3>1 DEF TranscodeToUtf8
  <2> QED  BY <2>1, <2>2
<1> HIDE DEF body, big
<1>3. P \in Seq(Scalars)
  <2>1. PICK f \in [1 .. Len(body) \div 2 + 2 -> Seq(Scalars)] : P = f[1]
    BY <1>1, PointsDef
  <2>2. 1 \in 1 .. Len(body) \div 2 + 2
    BY <1>1
  <2> QED  BY <2>1, <2>2
<1> HIDE DEF P
<1>4. t \in Seq(Byte) /\ Points(t) = P /\ Len(t) \in CharacterEnds(t)
  BY <1>2, <1>3, EncodedRead
<1>5. FirstIllFormed(t) = -1
  BY <1>4, NoneIllFormed
<1>6. ASSUME Len(body) % 2 = 0, PairsOnly(UnitsIn(body, big)) PROVE UnitsOf(Points(t)) = UnitsIn(body, big)
  <2>1. UnitsOf(Utf16Points(body, big)) = UnitsIn(body, big)
    BY <1>1, <1>6, UnitsKept
  <2> QED  BY <1>4, <2>1 DEF P
<1> QED  BY <1>5, <1>6 DEF body, big

\* What a text from Latin-1 or UTF-16 becomes has the same characters, and is well-formed
\* whatever bytes it has; a UTF-16 mark decides; normalised, it has the same lines and
\* characters without a CR (transcode_to_utf8, detect_encoding, normalize_line_endings).
THEOREM TextCorrect == Spec => []TextIsTheSources
<1>1. ASSUME TextInv, text.at # "none"
      PROVE  /\ text.enc = "ISO_8859_1" => Points(text.original) = text.source
             /\ text.enc \in {"UTF16_LE", "UTF16_BE"} =>
                  /\ FirstIllFormed(text.original) = -1
                  /\ Len(AfterBom(text.source)) % 2 = 0 /\ PairsOnly(SourceUnits) =>
                       UnitsOf(Points(text.original)) = SourceUnits
             /\ text.enc \in {"UTF8", "ASCII"} => text.original \in {text.source, AfterBom(text.source)}
             /\ \A mark \in {"UTF16_LE", "UTF16_BE"} : Mark(text.source).enc = mark => text.enc = mark
             /\ text.at = "normalised" =>
                  /\ CR \notin ToSet(text.bytes)
                  /\ PlaceIn(text.bytes).line = PlaceIn(text.original).line
                  /\ Other(text.bytes) = Other(text.original)
  <2>1. /\ text.source \in Seq(Byte) /\ text.original \in Seq(Byte) /\ text.bytes \in Seq(Chars)
        /\ text.at \in {"none", "refused", "utf8", "validated", "normalised"} /\ text.enc \in Encodings
    BY <1>1 DEF TextInv, TextType
  <2>2. Prepared(text)
    BY <1>1 DEF TextInv
  <2>3. text.enc = DetectEncoding(text.source)
    BY <1>1, <2>2 DEF Prepared
  <2>4. text.enc \notin {"UTF32_LE", "UTF32_BE"} => text.original = TranscodeToUtf8(text.source, text.enc)
    BY <1>1, <2>1, <2>2 DEF Prepared, Transcodable
  <2>5. text.enc = "ISO_8859_1" => Points(text.original) = text.source
    BY <2>1, <2>4, LatinKept
  <2>6. SourceUnits = UnitsIn(AfterBom(text.source), text.enc = "UTF16_BE")
    BY DEF SourceUnits, UnitsIn
  <2>7. ASSUME text.enc \in {"UTF16_LE", "UTF16_BE"}
        PROVE  /\ FirstIllFormed(text.original) = -1
               /\ Len(AfterBom(text.source)) % 2 = 0 /\ PairsOnly(SourceUnits) =>
                    UnitsOf(Points(text.original)) = SourceUnits
    <3>1. text.original = TranscodeToUtf8(text.source, text.enc)
      BY <2>4, <2>7
    <3> QED  BY <2>1, <2>6, <2>7, <3>1, Utf16Kept
  <2>8. text.enc \in {"UTF8", "ASCII"} => text.original = AfterBom(text.source)
    BY <2>4 DEF TranscodeToUtf8
  <2>9. \A mark \in {"UTF16_LE", "UTF16_BE"} : Mark(text.source).enc = mark => text.enc = mark
    BY <2>3, MarkDecides
  <2>10. ASSUME text.at = "normalised"
         PROVE  /\ CR \notin ToSet(text.bytes)
                /\ PlaceIn(text.bytes).line = PlaceIn(text.original).line
                /\ Other(text.bytes) = Other(text.original)
    <3>1. text.bytes = NormalizeLineEndings(text.original, LF, CR) /\ text.original \in Seq(Chars)
      BY <2>1, <2>2, <2>10, ByteChars DEF Prepared
    <3>2. Alike(text.bytes, text.original)
      BY <3>1, NormalisedAlike
    <3>3. CR \notin ToSet(text.bytes)
      BY <3>2 DEF Alike, NoCR, ToSet
    <3> QED  BY <3>2, <3>3 DEF Alike
  <2> QED  BY <2>5, <2>7, <2>8, <2>9, <2>10
<1>2. TextInv => TextIsTheSources
  BY <1>1 DEF TextIsTheSources
<1> QED  BY <1>2, TextInvInit, TextInvNext, PTL DEF Spec

=============================================================================
