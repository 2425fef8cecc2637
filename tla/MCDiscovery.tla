---------------------------- MODULE MCDiscovery ----------------------------
EXTENDS Discovery

CONSTANTS root, composition, a, b, c, d, log, schema, plain, slash, query

MCPaths == {root, composition, a, b, c, d, log, schema}
MCForeign == {schema}
MCFiltered == {log}
MCForms == {plain, slash, query}

To(p, f) == [path |-> p, form |-> f]

\* A cycle, several spellings, and d both on a long and on a short chain.
Cyclic ==
    [p \in MCPaths |->
        CASE p = root -> <<To(root, slash), To(a, plain), To(composition, plain), To(b, slash)>>
          [] p = a -> <<To(a, plain), To(b, plain), To(b, query), To(log, plain)>>
          [] p = b -> <<To(c, slash), To(a, slash), To(schema, plain)>>
          [] p = c -> <<To(d, plain), To(root, plain)>>
          [] p = d -> <<To(d, query), To(c, plain)>>
          [] p \in {composition, log, schema} -> <<>>]

\* d is first met below the bound and linked from the root as well.
ShortAndLong ==
    [p \in MCPaths |->
        CASE p = root -> <<To(a, plain), To(c, plain), To(d, plain)>>
          [] p = a -> <<To(b, plain)>>
          [] p = b -> <<To(c, query), To(log, plain)>>
          [] p = c -> <<To(d, plain)>>
          [] p \in {d, composition, log, schema} -> <<>>]

\* Every tree in which the root, a and b refer to any of a, b and c.
InOrder(targets) ==
    LET chosen == SelectSeq(<<a, b, c>>, LAMBDA p : p \in targets)
    IN  [k \in 1..Len(chosen) |-> To(chosen[k], plain)]

Arbitrary ==
    {[p \in MCPaths |->
        CASE p \in {root, a, b} -> InOrder(f[p])
          [] p = c -> <<To(d, plain)>>
          [] p \notin {root, a, b, c} -> <<>>] :
        f \in [{root, a, b} -> SUBSET {a, b, c}]}

MCTrees == {Cyclic, ShortAndLong} \union Arbitrary
=============================================================================
