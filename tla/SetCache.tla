------------------------------ MODULE SetCache ------------------------------
(***************************************************************************)
(* The set-name cache of src/lib/types.c: the singly linked list setlist   *)
(* of the sets this process has created, consulted by adt_type_get before  *)
(* it asks the kernel for a set's header.  The list is a sequence of set  *)
(* names in list order.  Every set in the build has the one registered     *)
(* type hash:domain, so the type pointer an entry carries is left out.     *)
(* Each operator returns the list after the call; the return code is not   *)
(* used by the only caller, callback_error in session.c.                   *)
(***************************************************************************)
EXTENDS Naturals, Sequences, SequencesExt

CONSTANT NoSet      \* the NULL name dset_cache_del is called with by "destroy"

FirstIndex(cache, name) == SelectInSeq(cache, LAMBDA n : n = name)

\* dset_cache_add: an empty list gets the node as its head; otherwise the
\* duplicate loop walks while s->next != NULL, so it compares every node
\* but the last, and the new node is linked after the last one.
dset_cache_add(cache, name) ==
    IF cache = <<>> THEN <<name>>
    ELSE IF \E i \in 1..(Len(cache) - 1) : cache[i] = name THEN cache
    ELSE Append(cache, name)

\* dset_cache_del: a NULL name frees the whole list; otherwise the first
\* node with the name is unlinked.
dset_cache_del(cache, name) ==
    IF name = NoSet THEN <<>>
    ELSE RemoveFirst(cache, name)

\* dset_cache_rename: the first node named from is renamed to.
dset_cache_rename(cache, from, to) ==
    IF FirstIndex(cache, from) = 0 THEN cache
    ELSE ReplaceAt(cache, FirstIndex(cache, from), to)

\* dset_cache_swap: the first nodes named from and to exchange their names
\* when both are found; otherwise the list is left as it is.
dset_cache_swap(cache, from, to) ==
    LET a == FirstIndex(cache, from)
        b == FirstIndex(cache, to)
    IN IF a = 0 \/ b = 0 THEN cache
       ELSE [cache EXCEPT ![a] = to, ![b] = from]

\* The lookup loop of adt_type_get: is the set known without a HEADER query?
CacheHit(cache, name) == FirstIndex(cache, name) # 0
=============================================================================
