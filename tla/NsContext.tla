----------------------------- MODULE NsContext -----------------------------
(***************************************************************************)
(* NsContext (include/parshred/namespace.hpp): the stack of namespace      *)
(* bindings that a handler keeps while the parser reports start and end    *)
(* tags.  A qualified name is a record of prefix and local part.           *)
(***************************************************************************)
EXTENDS Integers, Sequences

CONSTANTS
  NsPrefixes, Locals, \* the parts of names
  Uris,               \* namespace URIs
  NoPrefix,           \* the empty prefix
  Xml, XmlUri,        \* the prefix that is always bound
  Unbound             \* what resolve() returns for an unbound prefix: an empty URI

ASSUME NamespaceAssumption ==
  {NoPrefix, Xml} \subseteq NsPrefixes /\ {XmlUri, Unbound} \subseteq Uris

VARIABLES
  ns,      \* bindings_ and scope_starts_
  scopes   \* what was declared in each open element, the document's scope first

nsVars == <<ns, scopes>>

QName   == [prefix : NsPrefixes, local : Locals]
Binding == [prefix : NsPrefixes, uri : Uris]

XmlBinding == [prefix |-> Xml, uri |-> XmlUri]

\* NsContext(), reset()
Fresh == [bindings |-> <<XmlBinding>>, starts |-> <<0>>]

NsInit == ns = Fresh /\ scopes = << <<XmlBinding>> >>

-----------------------------------------------------------------------------

ScopePushed(c) == [c EXCEPT !.starts = Append(@, Len(c.bindings))]

\* The document's own scope stays, whatever end tags come.
ScopePopped(c) ==
  IF Len(c.starts) > 1
  THEN [bindings |-> SubSeq(c.bindings, 1, c.starts[Len(c.starts)]),
        starts   |-> SubSeq(c.starts, 1, Len(c.starts) - 1)]
  ELSE c

WithBindings(c, decls) == [c EXCEPT !.bindings = @ \o decls]

\* Mutant: the outermost binding is found first.
EarliestOf(c, prefix) ==
  CHOOSE k \in DOMAIN c.bindings :
    c.bindings[k].prefix = prefix /\ \A l \in 1 .. k - 1 : c.bindings[l].prefix # prefix

\* The most recent binding of a prefix.
LatestOf(c, prefix) ==
  CHOOSE k \in DOMAIN c.bindings :
    /\ c.bindings[k].prefix = prefix
    /\ \A l \in DOMAIN c.bindings : l > k => c.bindings[l].prefix # prefix

Bound(c, prefix) == \E k \in DOMAIN c.bindings : c.bindings[k].prefix = prefix

Resolve(c, prefix) ==
  IF Bound(c, prefix) THEN c.bindings[LatestOf(c, prefix)].uri ELSE Unbound

\* resolve_name: a name without a prefix, an attribute's too, gets the default.
ResolveName(c, name) == [name |-> name, uri |-> Resolve(c, name.prefix)]

-----------------------------------------------------------------------------

\* process_element_ns, of a start tag with these declarations among its
\* attributes; the name itself is resolved after them.
StartElement(decls) ==
  /\ ns' = WithBindings(ScopePushed(ns), decls)
  /\ scopes' = Append(scopes, decls)

\* A handler's on_end_element: pop_scope.
EndElement ==
  /\ ns' = ScopePopped(ns)
  /\ scopes' = IF Len(scopes) > 1 THEN SubSeq(scopes, 1, Len(scopes) - 1) ELSE scopes

\* declare, and process_declarations: into the innermost scope.
Declare(binding) ==
  /\ ns' = WithBindings(ns, <<binding>>)
  /\ scopes' = [scopes EXCEPT ![Len(scopes)] = Append(@, binding)]

Reset == ns' = Fresh /\ scopes' = << <<XmlBinding>> >>

NsNext ==
  \/ \E decls \in Seq(Binding) : StartElement(decls)
  \/ EndElement
  \/ \E binding \in Binding : Declare(binding)
  \/ Reset

NsSpec == NsInit /\ [][NsNext]_nsVars

-----------------------------------------------------------------------------

Binds(scope, prefix) == \E j \in DOMAIN scope : scope[j].prefix = prefix

\* Binding j of the open element i is the one in force for its prefix.
InForce(i, j) ==
  /\ \A k \in DOMAIN scopes[i] : k > j => scopes[i][k].prefix # scopes[i][j].prefix
  /\ \A k \in DOMAIN scopes : k > i => ~Binds(scopes[k], scopes[i][j].prefix)

\* A prefix resolves to its last declaration on the innermost open element that
\* declares it, and to nothing if none does, after any sequence of start and end
\* tags, unbalanced ones included (push_scope, pop_scope, declare, resolve).
InnermostBinding ==
  /\ \A i \in DOMAIN scopes : \A j \in DOMAIN scopes[i] :
       InForce(i, j) => Resolve(ns, scopes[i][j].prefix) = scopes[i][j].uri
  /\ \A prefix \in NsPrefixes :
       (\A i \in DOMAIN scopes : ~Binds(scopes[i], prefix)) => Resolve(ns, prefix) = Unbound

=============================================================================
