------------------------------ MODULE DomPools ------------------------------
(***************************************************************************)
(* NodePool and StringPool (include/parshred/dom_pool.hpp), which a        *)
(* DomParseResult (include/parshred/dom_parser.hpp) owns: several results  *)
(* are made, filled, reset, moved and destroyed.                           *)
(*                                                                         *)
(* A node is a page and a place on it.  Left out: reserve, which changes   *)
(* no page, and moving a result to itself.                                 *)
(***************************************************************************)
EXTENDS Integers, Sequences, FiniteSets

CONSTANTS
  Results,        \* the variables that may hold a DomParseResult
  NodePages,      \* the memory there is for pages of nodes
  StringPages,    \* and for pages of characters
  NodesPerPage,   \* NODES_PER_PAGE: 512
  PageSize,       \* StringPool::PAGE_SIZE: 64 KB
  Slack,          \* what a page for a long string has in addition: 64
  Lengths,        \* the lengths of strings
  None            \* nullptr

ASSUME PoolsAssumption ==
  /\ NodesPerPage \in Nat \ {0} /\ PageSize \in Nat \ {0} /\ Slack \in Nat
  /\ Lengths \subseteq Nat \ {0}
  /\ None \notin NodePages \cup StringPages

VARIABLES
  alive,      \* the results that exist
  pools,      \* their NodePools
  strings,    \* their StringPools
  heap,       \* the pages of nodes that are allocated
  capacity,   \* the pages of characters that are, and their sizes
  dirty,      \* nodes that do not hold zeros
  handed,     \* the nodes a result's pool has handed out
  views       \* the strings a result's pool has stored

poolsVars == <<alive, pools, strings, heap, capacity, dirty, handed, views>>

Slots == 0 .. NodesPerPage - 1
NodesOf(page) == {page} \X Slots

NoNodes   == [pages |-> <<>>, page |-> None, idx |-> 0, offset |-> NodesPerPage, total |-> 0]
NoStrings == [pages |-> {}, page |-> None, offset |-> PageSize]

PoolsInit ==
  /\ alive = {}
  /\ pools = [r \in Results |-> NoNodes] /\ strings = [r \in Results |-> NoStrings]
  /\ heap = {} /\ capacity = <<>> /\ dirty = {}
  /\ handed = [r \in Results |-> {}] /\ views = [r \in Results |-> {}]

Create(r) ==
  /\ r \notin alive /\ alive' = alive \cup {r}
  /\ UNCHANGED <<pools, strings, heap, capacity, dirty, handed, views>>

-----------------------------------------------------------------------------
(* NodePool                                                                *)

\* A pool that begins its page number idx.
AtPage(pages, idx, total) ==
  [pages |-> pages, page |-> pages[idx + 1], idx |-> idx, offset |-> 0, total |-> total]

\* The next node of a pool that has one on its page.  The parser writes to it;
\* used are the nodes written to before.
HandOut(r, pool, used) ==
  /\ pools' = [pools EXCEPT ![r] = [pool EXCEPT !.offset = @ + 1, !.total = @ + 1]]
  /\ handed' = [handed EXCEPT ![r] = @ \cup {<<pool.page, pool.offset>>}]
  /\ dirty' = used \cup {<<pool.page, pool.offset>>}
  /\ UNCHANGED <<alive, strings, capacity, views>>

PageFull(r) == pools[r].offset >= NodesPerPage
HasNext(r)  == pools[r].idx + 1 < Len(pools[r].pages)

Allocate(r) ==
  /\ r \in alive /\ ~PageFull(r)
  /\ HandOut(r, pools[r], dirty) /\ UNCHANGED heap

\* Mutant: the current page once more.
CurrentAgain(pool) == [AtPage(pool.pages, pool.idx + 1, pool.total) EXCEPT !.page = pool.page]

Advanced(pool) == AtPage(pool.pages, pool.idx + 1, pool.total)

\* grow(): the next page is there since before a reset.
AllocateOnNext(r) ==
  /\ r \in alive /\ PageFull(r) /\ HasNext(r)
  /\ HandOut(r, Advanced(pools[r]), dirty) /\ UNCHANGED heap

Added(pool, page) == AtPage(Append(pool.pages, page), Len(pool.pages), pool.total)

\* grow(): a page is added, all zeros.
AllocateOnNew(r) ==
  /\ r \in alive /\ PageFull(r) /\ ~HasNext(r)
  /\ \E page \in NodePages \ heap :
       /\ heap' = heap \cup {page}
       /\ HandOut(r, Added(pools[r], page), dirty \ NodesOf(page))

PagesOf(r) == {pools[r].pages[i] : i \in DOMAIN pools[r].pages}

\* Mutant: only the current page is set to zero.
CurrentCleared(r) == dirty \ NodesOf(pools[r].page)

Cleared(r) == dirty \ UNION {NodesOf(page) : page \in PagesOf(r)}

FromStart(pool) == AtPage(pool.pages, 0, 0)

Reset(r) ==
  /\ r \in alive /\ pools[r].pages # <<>>
  /\ pools' = [pools EXCEPT ![r] = FromStart(@)]
  /\ handed' = [handed EXCEPT ![r] = {}]
  /\ dirty' = Cleared(r)
  /\ UNCHANGED <<alive, strings, heap, capacity, views>>

-----------------------------------------------------------------------------
(* StringPool                                                              *)

\* Mutant: a page has its size for the longest string, too.
SizeAlways(n) == PageSize

SizeFor(n) == IF PageSize > n + Slack THEN PageSize ELSE n + Slack

\* Its current page is another's.
MovedFrom(r) == strings[r].page # None /\ strings[r].page \notin strings[r].pages

Keep(r, pool, n) ==
  /\ strings' = [strings EXCEPT ![r] = [pool EXCEPT !.offset = @ + n]]
  /\ views' = [views EXCEPT ![r] = @ \cup {[page |-> pool.page, from |-> pool.offset, len |-> n]}]
  /\ UNCHANGED <<alive, pools, heap, dirty, handed>>

Store(r, n) ==
  /\ r \in alive /\ ~MovedFrom(r) /\ strings[r].offset + n <= PageSize
  /\ Keep(r, strings[r], n) /\ UNCHANGED capacity

StoreOnNew(r, n) ==
  /\ r \in alive /\ ~MovedFrom(r) /\ strings[r].offset + n > PageSize
  /\ \E page \in StringPages \ DOMAIN capacity :
       /\ capacity' = [p \in DOMAIN capacity \cup {page} |->
                         IF p = page THEN SizeFor(n) ELSE capacity[p]]
       /\ Keep(r, [pages |-> strings[r].pages \cup {page}, page |-> page, offset |-> 0], n)

-----------------------------------------------------------------------------
(* Moves and the end of a result                                           *)

\* What a move leaves of a NodePool, and of a StringPool, whose move is the default.
Emptied(pool)      == NoNodes
LeftOfStrings(pool) == [pages |-> {}, page |-> pool.page, offset |-> pool.offset]

Moved(from, to) ==
  /\ pools' = [pools EXCEPT ![from] = Emptied(pools[from]), ![to] = pools[from]]
  /\ strings' = [strings EXCEPT ![from] = LeftOfStrings(strings[from]), ![to] = strings[from]]
  /\ handed' = [handed EXCEPT ![from] = {}, ![to] = handed[from]]
  /\ views' = [views EXCEPT ![from] = {}, ![to] = views[from]]
  /\ UNCHANGED <<capacity, dirty>>

MoveConstruct(from, to) ==
  /\ from \in alive /\ to \notin alive
  /\ alive' = alive \cup {to}
  /\ Moved(from, to) /\ UNCHANGED heap

\* The pages of characters of the target stay allocated: nobody frees them.
MoveAssign(from, to) ==
  /\ from \in alive /\ to \in alive /\ from # to
  /\ heap' = heap \ PagesOf(to)
  /\ Moved(from, to) /\ UNCHANGED alive

Destroy(r) ==
  /\ r \in alive /\ alive' = alive \ {r}
  /\ heap' = heap \ PagesOf(r)
  /\ capacity' = [p \in DOMAIN capacity \ strings[r].pages |-> capacity[p]]
  /\ pools' = [pools EXCEPT ![r] = NoNodes] /\ strings' = [strings EXCEPT ![r] = NoStrings]
  /\ handed' = [handed EXCEPT ![r] = {}] /\ views' = [views EXCEPT ![r] = {}]
  /\ UNCHANGED dirty

PoolsNext ==
  \/ \E r \in Results : \/ Create(r) \/ Allocate(r) \/ AllocateOnNext(r) \/ AllocateOnNew(r)
                        \/ Reset(r) \/ Destroy(r)
                        \/ \E n \in Lengths : Store(r, n) \/ StoreOnNew(r, n)
                        \/ \E to \in Results : MoveConstruct(r, to) \/ MoveAssign(r, to)

PoolsSpec == PoolsInit /\ [][PoolsNext]_poolsVars

-----------------------------------------------------------------------------

NodePoolType ==
  [pages : Seq(NodePages), page : NodePages \cup {None}, idx : Nat,
   offset : 0 .. NodesPerPage, total : Nat]
StringPoolType ==
  [pages : SUBSET StringPages, page : StringPages \cup {None}, offset : Nat]
View == [page : StringPages, from : Nat, len : Lengths]

\* Types.  A pool with room on its page has a page, which allocate() and store()
\* take for granted.
PoolsTypeOK ==
  /\ alive \subseteq Results /\ heap \subseteq NodePages
  /\ pools \in [Results -> NodePoolType] /\ strings \in [Results -> StringPoolType]
  /\ DOMAIN capacity \subseteq StringPages /\ capacity \in [DOMAIN capacity -> Nat]
  /\ dirty \subseteq NodePages \X Slots
  /\ handed \in [Results -> SUBSET (NodePages \X Slots)] /\ views \in [Results -> SUBSET View]
  /\ \A r \in Results :
       /\ pools[r].page = None => PageFull(r)
       /\ strings[r].page = None => strings[r].offset >= PageSize

\* The XmlNodes of all results are distinct, as long as the results exist: the
\* nodes allocate() has returned since the last reset are as many as size()
\* says, on pages that are not freed and are those of no other pool, whatever
\* was reset, moved and destroyed before (dom_pool.hpp: allocate, grow, the
\* moves).
NodesOnce ==
  \A r \in Results :
    /\ Cardinality(handed[r]) = pools[r].total
    /\ PagesOf(r) \subseteq heap
    /\ \A node \in handed[r] : node[1] \in PagesOf(r)
    /\ \A q \in Results \ {r} : PagesOf(r) \cap PagesOf(q) = {}

\* The nodes a pool has still to hand out on the pages it has.
Ahead(r) ==
  {<<pools[r].page, k>> : k \in pools[r].offset .. NodesPerPage - 1}
  \cup UNION {NodesOf(pools[r].pages[i]) : i \in pools[r].idx + 2 .. Len(pools[r].pages)}

\* allocate() promises zeros ("Zero-initialized"): no node ahead was written
\* to, in this pass or in one before a reset, of this pool or of a pool whose
\* freed page it got.
FreeIsZeroed == \A r \in alive : Ahead(r) \cap dirty = {}

Overlap(v, w) == v.page = w.page /\ v.from < w.from + w.len /\ w.from < v.from + v.len

\* What store() returned stays readable and is never written over as long as
\* the result that has it exists, wherever it was moved: it lies within a page
\* that is the result's own, and overlaps with no other view (dom_pool.hpp:
\* store, grow, the defaulted moves).
ViewsKept ==
  \A r \in alive : \A v \in views[r] :
    /\ v.page \in strings[r].pages \cap DOMAIN capacity
    /\ v.from + v.len <= capacity[v.page]
    /\ \A q \in alive : \A w \in views[q] : Overlap(v, w) => v = w /\ q = r

=============================================================================
