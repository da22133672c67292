----------------------------- MODULE DomBuilder -----------------------------
(***************************************************************************)
(* DomBuilder and the tree modification of include/parshred/writer.hpp: a  *)
(* FastDom is built call by call, handed out by build(), and then children *)
(* and attributes are removed from it.                                     *)
(*                                                                         *)
(* Names and texts are sequences of characters; nodes[i].at is the number  *)
(* of the call that made node i.  Names and texts lie in the values buffer *)
(* at an offset.                                                           *)
(***************************************************************************)
EXTENDS NodeLinks, SequencesExt

CONSTANTS
  Scripts,      \* the sequences of calls made on a builder
  MaxLen,       \* the largest value_len: 65535
  MaxRemovals   \* bound on the removals from a document

Call == [op   : {"start", "end", "add", "attr", "text", "comment"},
         name : Seq(STRING), text : Seq(STRING)]

\* What has no name or no text is called without one.
IsScript(calls) ==
  /\ calls \in Seq(Call)
  /\ \A k \in 1 .. Len(calls) :
       /\ calls[k].op \in {"end", "text", "comment"} => calls[k].name = <<>>
       /\ calls[k].op \in {"start", "end", "add"}    => calls[k].text = <<>>

ASSUME BuilderAssumption ==
  (\A calls \in Scripts : IsScript(calls)) /\ MaxLen \in Nat /\ MaxRemovals \in Nat

VARIABLES
  script, done,          \* the calls, and how many were made
  phase,                 \* building, or built: build() has returned
  nodes, values,         \* nodes_ and values_, later those of the FastDom
  names, name_offsets,   \* names_ and name_offsets_
  stack,                 \* stack_: the open elements with their last children
  root,                  \* root_idx of the FastDom
  removals               \* how many removals there were

vars == <<script, done, phase, nodes, values, names, name_offsets, stack, root, removals>>

NoSpan == [at |-> 0, len |-> 0]

Init ==
  /\ script \in Scripts /\ done = 0 /\ phase = "building"
  /\ nodes = FirstNodes([name |-> NoSpan, value |-> NoSpan])
  /\ values = <<>> /\ names = <<>> /\ name_offsets = <<>>
  /\ stack = <<[node |-> Document, last |-> Null]>>
  /\ root = Null /\ removals = 0

-----------------------------------------------------------------------------
(* Building.                                                               *)

Top  == stack[Len(stack)]
Size == Cardinality(DOMAIN nodes)    \* the index alloc_node returns
Arg  == script[done + 1]

\* value_len saturates.
Clamped(n) == IF n > MaxLen THEN MaxLen ELSE n

\* A new node for the call that is made: the name gets its place in build().
Made(type) ==
  NewNode(type, done + 1,
          [name  |-> [at |-> 0, len |-> Len(Arg.name)],
           value |-> [at |-> Len(values), len |-> Clamped(Len(Arg.text))]])

SetName ==
  /\ names' = Append(names, Arg.name)
  /\ name_offsets' = Append(name_offsets, Len(FlattenSeq(names)))

SetValue == values' = values \o Arg.text

LastLinked == [stack EXCEPT ![Len(stack)].last = Size]

LinkChild(type) ==
  nodes' = Chained(Grown(nodes, Size, Made(type)), Top.node, "first_child", Top.last, Size)

Calling(op) ==
  /\ phase = "building" /\ done < Len(script) /\ Arg.op = op
  /\ done' = done + 1
  /\ UNCHANGED <<script, phase, root, removals>>

StartElement ==
  /\ Calling("start") /\ SetName /\ LinkChild("element")
  /\ stack' = Append(LastLinked, [node |-> Size, last |-> Null])
  /\ UNCHANGED values

AddElement ==
  /\ Calling("add") /\ SetName /\ LinkChild("element")
  /\ stack' = LastLinked
  /\ UNCHANGED values

\* The document node is never popped.
Popped == IF Len(stack) > 1 THEN Front(stack) ELSE stack

EndElement ==
  /\ Calling("end")
  /\ stack' = Popped
  /\ UNCHANGED <<nodes, values, names, name_offsets>>

\* Mutant: the second attribute takes the place of the first.
FirstReplaced(elem) == Null

LastAttr(elem) ==
  IF nodes[elem].first_attr = Null THEN Null ELSE Last(AttrsOn(nodes, elem))

AddAttribute ==
  /\ Calling("attr") /\ Len(stack) > 1
  /\ SetName /\ SetValue
  /\ nodes' = Chained(Grown(nodes, Size, Made("attribute")),
                      Top.node, "first_attr", LastAttr(Top.node), Size)
  /\ UNCHANGED stack

\* Outside of the root an attribute is ignored.
AttributeOfNothing ==
  /\ Calling("attr") /\ Len(stack) = 1
  /\ UNCHANGED <<nodes, values, names, name_offsets, stack>>

AddCharacters(op) ==
  /\ Calling(op) /\ SetValue /\ LinkChild(op)
  /\ stack' = LastLinked
  /\ UNCHANGED <<names, name_offsets>>

AddText    == AddCharacters("text")
AddComment == AddCharacters("comment")

\* build() gives the k-th node with a name the k-th of the names' places.
NameIndex(i) == Cardinality({j \in 0 .. i : nodes[j].val.name.len > 0})

\* Mutant: the places are counted from the start of the buffer.
NamesFirst == 0

NamesStart == Len(values)

Repointed(node, i) ==
  IF node.val.name.len > 0 /\ NameIndex(i) <= Len(name_offsets)
  THEN [node EXCEPT !.val.name.at = NamesStart + name_offsets[NameIndex(i)]]
  ELSE node

\* The elements of s that are in S.
Only(s, S) ==
  LET kept[i \in 0 .. Len(s)] ==
        IF i = 0 THEN <<>> ELSE IF s[i] \in S THEN Append(kept[i - 1], s[i]) ELSE kept[i - 1]
  IN  kept[Len(s)]

FirstElement ==
  LET elements == Only(Kids(nodes, Document), {k \in DOMAIN nodes : nodes[k].type = "element"})
  IN  IF elements = <<>> THEN Null ELSE elements[1]

Build ==
  /\ phase = "building" /\ done = Len(script)
  /\ phase' = "built"
  /\ values' = values \o FlattenSeq(names)
  /\ nodes' = [i \in DOMAIN nodes |-> Repointed(nodes[i], i)]
  /\ root' = FirstElement
  /\ UNCHANGED <<script, done, names, name_offsets, stack, removals>>

-----------------------------------------------------------------------------
(* Removal.                                                                *)

Read(span)  == SubSeq(values, span.at + 1, span.at + span.len)
NameOf(i)   == Read(nodes[i].val.name)
ValueOf(i)  == Read(nodes[i].val.value)

\* Mutant: the first link is set whichever member goes.
UnlinkedFirst(owner, first, k) == [nodes EXCEPT ![owner][first] = nodes[k].next_sibling]

\* The chain at nodes[owner][first] without its member k; as it was without one.
Unlinked(owner, first, k) ==
  LET chain == Chain(nodes, nodes[owner][first])
      place == {p \in DOMAIN chain : chain[p] = k}
  IN  IF place = {} THEN nodes
      ELSE IF 1 \in place THEN [nodes EXCEPT ![owner][first] = nodes[k].next_sibling]
      ELSE LET p == CHOOSE p \in place : TRUE
           IN  [nodes EXCEPT ![chain[p - 1]].next_sibling = nodes[k].next_sibling]

Removing ==
  /\ phase = "built" /\ removals < MaxRemovals /\ removals' = removals + 1
  /\ UNCHANGED <<script, done, phase, values, names, name_offsets, stack, root>>

RemoveChild(parent, child) ==
  /\ Removing
  /\ nodes' = Unlinked(parent, "first_child", child)

\* The first attribute of that name goes.
RemoveAttribute(elem, name) ==
  /\ Removing
  /\ LET named == Only(AttrsOn(nodes, elem), {a \in DOMAIN nodes : NameOf(a) = name})
     IN  nodes' = IF named = <<>> THEN nodes ELSE Unlinked(elem, "first_attr", named[1])

Owners == {i \in DOMAIN nodes : nodes[i].type \in {"document", "element"}}

Next ==
  \/ StartElement \/ AddElement \/ EndElement \/ AddAttribute \/ AttributeOfNothing
  \/ AddText \/ AddComment \/ Build
  \/ \E parent \in Owners, child \in DOMAIN nodes \ {Null} : RemoveChild(parent, child)
  \/ \E elem \in Owners, name \in Range(names) : RemoveAttribute(elem, name)

Spec == Init /\ [][Next]_vars

-----------------------------------------------------------------------------

\* How many elements are open after n calls; one end_element too many closes none.
OpenAfter(calls, n) ==
  LET open[k \in 0 .. Len(calls)] ==
        IF k = 0 THEN 0
        ELSE CASE calls[k].op = "start" -> open[k - 1] + 1
               [] calls[k].op = "end" /\ open[k - 1] > 0 -> open[k - 1] - 1
               [] OTHER -> open[k - 1]
  IN  open[n]

\* The call that opened the element innermost at call k; 0 is the document.
OwnerCall(calls, k) ==
  LET depth == OpenAfter(calls, k - 1)
  IN  Max({0} \cup {s \in 1 .. k - 1 : /\ calls[s].op = "start" /\ depth > 0
                                       /\ OpenAfter(calls, s) = depth})

\* The calls of these kinds that are for that element.
CallsOf(calls, owner, ops) ==
  {k \in 1 .. Len(calls) : calls[k].op \in ops /\ OwnerCall(calls, k) = owner}

CallsFor(owner, ops) == Only([k \in 1 .. done |-> k], CallsOf(script, owner, ops))

MadeBy(chain) == [k \in DOMAIN chain |-> nodes[chain[k]].at]

\* Until something is removed, the children of a node are what was added while
\* its element was the innermost open one, in the order of the calls, and so are
\* its attributes, whatever was added in between (link_child, add_attribute).
TreeIsAsCalled ==
  removals = 0 =>
    \A i \in Owners :
      LET at == nodes[i].at IN
      /\ MadeBy(Kids(nodes, i)) = CallsFor(at, {"start", "add", "text", "comment"})
      /\ MadeBy(AttrsOn(nodes, i)) = IF i = Document THEN <<>> ELSE CallsFor(at, {"attr"})

AllNamed == <<>> \notin Range(names)

\* In the built document, every node has the name and the text it was given, the
\* text cut to MaxLen: build() moves all names behind all values and finds each
\* again by counting the nodes that have one.  An empty name is miscounted.
ContentKept ==
  phase = "built" /\ AllNamed =>
    \A i \in DOMAIN nodes \ {Null, Document} :
      LET call == script[nodes[i].at] IN
      /\ nodes[i].type \in {"element", "attribute"} => NameOf(i) = call.name
      /\ nodes[i].type \in {"attribute", "text", "comment"} =>
           ValueOf(i) = SubSeq(call.text, 1, Clamped(Len(call.text)))

Without(chain, k) == Only(chain, DOMAIN nodes \ {k})

OthersAsBefore(owner) ==
  \A i \in Owners \ {owner} :
    Kids(nodes', i) = Kids(nodes, i) /\ AttrsOn(nodes', i) = AttrsOn(nodes, i)

ChildTakenOut(parent, child) ==
  /\ OthersAsBefore(parent)
  /\ Kids(nodes', parent)    = Without(Kids(nodes, parent), child)
  /\ AttrsOn(nodes', parent) = AttrsOn(nodes, parent)

AttributeTakenOut(elem, name) ==
  LET attrs == AttrsOn(nodes, elem) IN
  /\ OthersAsBefore(elem)
  /\ Kids(nodes', elem) = Kids(nodes, elem)
  /\ \/ /\ AttrsOn(nodes', elem) = attrs
        /\ \A a \in Range(attrs) : NameOf(a) # name
     \/ \E k \in DOMAIN attrs :
          /\ AttrsOn(nodes', elem) = Without(attrs, attrs[k])
          /\ NameOf(attrs[k]) = name /\ \A j \in 1 .. k - 1 : NameOf(attrs[j]) # name

\* remove_child takes the named child out of the named parent and nothing else,
\* and a node that is no child of it not at all; remove_attribute takes out the
\* first attribute of that name.  The order of the others stays.
RemovesExactly ==
  [][/\ \A parent \in Owners, child \in DOMAIN nodes \ {Null} :
          RemoveChild(parent, child) => ChildTakenOut(parent, child)
     /\ \A elem \in Owners, name \in Range(names) :
          RemoveAttribute(elem, name) => AttributeTakenOut(elem, name)]_vars

=============================================================================
