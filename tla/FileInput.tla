----------------------------- MODULE FileInput -----------------------------
(***************************************************************************)
(* MmapReader (src/mmap_reader.cpp, POSIX): readers open files, load       *)
(* buffers, are closed, moved and destroyed, while others write to the     *)
(* files.  A call of open() is taken apart at its system calls.            *)
(*                                                                         *)
(* Memory is a set of regions, each mapped or on the heap.  Left out:      *)
(* running out of memory, a buffer that lies in the reader's own memory,   *)
(* and moving a reader to itself, which does nothing.                      *)
(***************************************************************************)
EXTENDS Integers, Sequences, FiniteSets

CONSTANTS
  Readers,     \* the variables that may hold an MmapReader
  Files,       \* the files
  Contents,    \* what a file may hold: sequences of bytes
  Buffers,     \* what load_buffer, load_string and load_stdin are given
  Regions,     \* addresses
  None,        \* nullptr
  Threshold,   \* MMAP_THRESHOLD: 4096
  MaxChanges   \* bound on the writes to files

ASSUME FilesAssumption ==
  /\ Contents \subseteq Seq(0 .. 255) /\ Buffers \subseteq Seq(0 .. 255)
  /\ Threshold \in Nat /\ MaxChanges \in Nat
  /\ None \notin Regions /\ None \notin Readers /\ None \notin Files

VARIABLES
  disk,      \* what the files hold
  changes,   \* how often one was written to
  alive,     \* the readers that exist
  readers,   \* their members
  mem,       \* the regions that are allocated or mapped
  call,      \* the call of open() that is under way, if any
  expect     \* what each reader should show, where that is certain

fileVars == <<disk, changes, alive, readers, mem, call, expect>>

\* MmapReader(); also what close() leaves.
Closed == [data |-> None, size |-> 0, is_mmap |-> FALSE, is_open |-> FALSE, buffer |-> None]

\* One assignment to a member each.
Sized(x, n)      == [x EXCEPT !.size = n]       \* size_
Showing(x, p)    == [x EXCEPT !.data = p]       \* data_
Buffered(x, p)   == [x EXCEPT !.buffer = p]     \* buffer_
Mapped(x)        == [x EXCEPT !.is_mmap = TRUE]
Opened(x)        == [x EXCEPT !.is_open = TRUE]

NoOpen == [reader |-> None, file |-> None, at |-> "none"]

Unsure       == [known |-> FALSE, bytes |-> <<>>]
Sure(bytes)  == [known |-> TRUE,  bytes |-> bytes]

FilesInit ==
  /\ disk \in [Files -> Contents] /\ changes = 0
  /\ alive = {} /\ readers = [r \in Readers |-> Closed]
  /\ mem = <<>> /\ call = NoOpen
  /\ expect = [r \in Readers |-> Unsure]

\* The client makes one call after another.
Free(r) == call = NoOpen /\ r \in alive

-----------------------------------------------------------------------------
(* What the members own                                                    *)

\* What close() unmaps and deletes.
Owned(x) == (IF x.is_mmap /\ x.data # None THEN {x.data} ELSE {}) \cup ({x.buffer} \ {None})

Without(gone) == [p \in DOMAIN mem \ gone |-> mem[p]]
Heap(n, bytes) == [kind |-> "heap", size |-> n, bytes |-> bytes, of |-> None]
MapOf(f, n)    == [kind |-> "map",  size |-> n, bytes |-> <<>>,  of |-> f]

With(m, p, region) == [q \in DOMAIN m \cup {p} |-> IF q = p THEN region ELSE m[q]]

\* data()
Span(r) ==
  LET x == readers[r] IN
  CASE x.data = None -> <<>>
    [] x.data # None /\ mem[x.data].kind = "map" -> SubSeq(disk[mem[x.data].of], 1, x.size)
    [] OTHER -> SubSeq(mem[x.data].bytes, 1, x.size)

-----------------------------------------------------------------------------
(* open()                                                                  *)

\* open() closes the reader; the system opens the file, or open() throws.
Open(r, f) ==
  /\ Free(r)
  /\ readers' = [readers EXCEPT ![r] = Closed]
  /\ mem' = Without(Owned(readers[r]))
  /\ \/ call' = [reader |-> r, file |-> f, at |-> "stat"]
     \/ UNCHANGED call
  /\ expect' = [expect EXCEPT ![r] = IF call' = NoOpen THEN Unsure ELSE Sure(disk[f])]
  /\ UNCHANGED <<disk, changes, alive>>

\* The descriptor is closed and open() throws: what it assigned so far stays.
Throws ==
  /\ call' = NoOpen
  /\ expect' = [expect EXCEPT ![call.reader] = Unsure]
  /\ UNCHANGED <<disk, changes, alive, mem>>

Goes(at) == call' = [call EXCEPT !.at = at] /\ UNCHANGED <<disk, changes, alive, expect>>

Returns == call' = NoOpen /\ UNCHANGED <<disk, changes, alive, expect>>

StatFails == call.at = "stat" /\ Throws /\ UNCHANGED readers

Stat ==
  /\ call.at = "stat"
  /\ LET r == call.reader
         n == Len(disk[call.file])
     IN  \/ /\ n = 0
            /\ readers' = [readers EXCEPT ![r] = Opened(Sized(@, n))]
            /\ Returns /\ UNCHANGED mem
         \/ /\ n > 0 /\ n < Threshold
            /\ \E p \in Regions \ DOMAIN mem :
                 /\ readers' = [readers EXCEPT ![r] = Buffered(Sized(@, n), p)]
                 /\ mem' = With(mem, p, Heap(n, <<>>))
            /\ Goes("read")
         \/ /\ n > 0 /\ n >= Threshold
            /\ readers' = [readers EXCEPT ![r] = Sized(@, n)]
            /\ Goes("map") /\ UNCHANGED mem

Buffer == readers[call.reader].buffer
Got    == Len(mem[Buffer].bytes)     \* total
Wanted == readers[call.reader].size

\* ... to what was read before.
Filled(old, new) == old \o new

\* read() returns some bytes, no more than are asked for and the file has.
Read ==
  /\ call.at = "read" /\ Got < Wanted
  /\ \E n \in 1 .. Wanted - Got :
       /\ Got + n <= Len(disk[call.file])
       /\ LET more == SubSeq(disk[call.file], Got + 1, Got + n) IN
          mem' = With(mem, Buffer, Heap(mem[Buffer].size, Filled(mem[Buffer].bytes, more)))
  /\ UNCHANGED <<disk, changes, alive, readers, call, expect>>

ReadFails == call.at = "read" /\ Got < Wanted /\ Throws /\ UNCHANGED readers

\* Mutant: the size stays what fstat said.
AsStated == Wanted

SizeRead == Got

\* All is read, or the file ends before.
ReadAll ==
  /\ call.at = "read"
  /\ Got < Wanted => Got >= Len(disk[call.file])
  /\ readers' = [readers EXCEPT ![call.reader] = Opened(Showing(Sized(@, SizeRead), Buffer))]
  /\ Returns /\ UNCHANGED mem

Map ==
  /\ call.at = "map"
  /\ \E p \in Regions \ DOMAIN mem :
       /\ mem' = With(mem, p, MapOf(call.file, Wanted))
       /\ readers' = [readers EXCEPT ![call.reader] = Opened(Mapped(Showing(@, p)))]
  /\ Returns

MapFails == call.at = "map" /\ Throws /\ UNCHANGED readers

-----------------------------------------------------------------------------
(* The other calls                                                         *)

Create(r) ==
  /\ call = NoOpen /\ r \notin alive /\ alive' = alive \cup {r}
  /\ readers' = [readers EXCEPT ![r] = Closed]
  /\ expect' = [expect EXCEPT ![r] = Unsure]
  /\ UNCHANGED <<disk, changes, mem, call>>

\* load_buffer copies; load_string and load_stdin call it.
LoadBuffer(r, bytes) ==
  /\ Free(r)
  /\ LET kept == Without(Owned(readers[r])) IN
     \/ /\ bytes = <<>>
        /\ readers' = [readers EXCEPT ![r] = Opened(Closed)]
        /\ mem' = kept
     \/ /\ bytes # <<>>
        /\ \E p \in Regions \ DOMAIN kept :
             /\ readers' = [readers EXCEPT ![r] = Opened(Sized(Showing(Buffered(Closed, p), p), Len(bytes)))]
             /\ mem' = With(kept, p, Heap(Len(bytes), bytes))
  /\ expect' = [expect EXCEPT ![r] = Sure(bytes)]
  /\ UNCHANGED <<disk, changes, alive, call>>

Close(r) ==
  /\ Free(r)
  /\ readers' = [readers EXCEPT ![r] = Closed]
  /\ mem' = Without(Owned(readers[r]))
  /\ expect' = [expect EXCEPT ![r] = Unsure]
  /\ UNCHANGED <<disk, changes, alive, call>>

Destroy(r) ==
  /\ Free(r) /\ alive' = alive \ {r}
  /\ readers' = [readers EXCEPT ![r] = Closed]
  /\ mem' = Without(Owned(readers[r]))
  /\ expect' = [expect EXCEPT ![r] = Unsure]
  /\ UNCHANGED <<disk, changes, call>>

\* Mutant: only what the unique_ptr gives up itself.
OnlyBufferLeft(x) == [x EXCEPT !.buffer = None]

\* What a move leaves of its source.
LeftBehind(x) == Closed

Takes(to, from) ==
  /\ readers' = [readers EXCEPT ![to] = readers[from], ![from] = LeftBehind(readers[from])]
  /\ expect' = [expect EXCEPT ![to] = expect[from], ![from] = Unsure]
  /\ UNCHANGED <<disk, changes, call>>

MoveConstruct(to, from) ==
  /\ Free(from) /\ to \notin alive /\ alive' = alive \cup {to}
  /\ Takes(to, from) /\ UNCHANGED mem

MoveAssign(to, from) ==
  /\ Free(from) /\ to \in alive /\ to # from
  /\ mem' = Without(Owned(readers[to]))
  /\ Takes(to, from) /\ UNCHANGED alive

\* Another program writes to a file, at any time: what a mapping shows, and what
\* a read in progress gets, is no longer certain.
Touched(r, f) ==
  \/ call.reader = r /\ call.file = f
  \/ readers[r].is_mmap /\ mem[readers[r].data].of = f

Change(f) ==
  /\ changes < MaxChanges /\ changes' = changes + 1
  /\ \E bytes \in Contents \ {disk[f]} : disk' = [disk EXCEPT ![f] = bytes]
  /\ expect' = [r \in Readers |-> IF Touched(r, f) THEN Unsure ELSE expect[r]]
  /\ UNCHANGED <<alive, readers, mem, call>>

OpenStep == StatFails \/ Stat \/ Read \/ ReadFails \/ ReadAll \/ Map \/ MapFails

FilesNext ==
  \/ OpenStep
  \/ \E r \in Readers :
       \/ Create(r) \/ Close(r) \/ Destroy(r)
       \/ \E f \in Files : Open(r, f)
       \/ \E bytes \in Buffers : LoadBuffer(r, bytes)
       \/ \E from \in Readers : MoveConstruct(r, from) \/ MoveAssign(r, from)
  \/ \E f \in Files : Change(f)

FilesSpec == FilesInit /\ [][FilesNext]_fileVars

-----------------------------------------------------------------------------

\* Every region that is mapped or allocated belongs to one reader that exists:
\* no move, failed open() or close() loses one, gives it to two, or unmaps fewer
\* bytes than were mapped (MmapReader's move operations and close()).
MemoryOwnedOnce ==
  /\ DOMAIN mem = UNION {Owned(readers[r]) : r \in alive}
  /\ \A r, s \in Readers : r # s => Owned(readers[r]) \cap Owned(readers[s]) = {}
  /\ \A r \in Readers : LET x == readers[r] IN
       /\ x.is_mmap => mem[x.data].kind = "map" /\ mem[x.data].size = x.size /\ x.buffer = None
       /\ x.buffer # None => mem[x.buffer].kind = "heap"

\* The span of an open reader lies in a region of its own that is there; of a buffer
\* it shows all that was read and nothing else, even if the file became shorter; and
\* it is all of what was loaded, or of the file unless that was written to since
\* open() began, in however many pieces the system delivered it (open(), load_buffer()).
SpanIsLoaded ==
  \A r \in Readers : readers[r].is_open =>
    /\ readers[r].data # None => readers[r].data \in Owned(readers[r])
    /\ readers[r].data = None => readers[r].size = 0
    /\ readers[r].data # None /\ ~readers[r].is_mmap =>
         readers[r].size = Len(mem[readers[r].data].bytes)
    /\ expect[r].known => Span(r) = expect[r].bytes

=============================================================================
