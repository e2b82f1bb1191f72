----------------------------- MODULE KernelSets -----------------------------
(***************************************************************************)
(* The kernel side of the domain-set subsystem, as far as the userspace    *)
(* library depends on it.  The kernel set code is not part of this        *)
(* repository (only the ematch em_dset.c is), so these operators are       *)
(* written from spec.md (sections 4.4, 4.6 and scenarios 3 and 6) and from *)
(* the error codes the library decodes in src/lib/errcode.c.               *)
(*                                                                         *)
(* A kernel state is a record: ex, the names of the existing sets, and     *)
(* mem, the members of every set.  Every request returns the new state and *)
(* an outcome: "ok" (an ACK) or the errno the library decodes.             *)
(***************************************************************************)
EXTENDS Naturals, Sequences

CONSTANTS
    Sets,       \* set names
    Elems,      \* domain elements
    NoSet,      \* "no set name given" (destroy/flush all)
    NoElem      \* "no element" in lines that carry none

\* The outcomes of a request, named after the errno the library decodes.
\*   ENOENT      "The set with the given name does not exist"
\*   EEXIST      "Set cannot be created: set with the same name already exists"
\*   SETNAME2    DSET_ERR_EXIST_SETNAME2 (rename/swap second name)
\*   ELEM_EXIST  DSET_ERR_EXIST (element already added / not added; TEST miss)
Outcomes == {"ok", "ENOENT", "EEXIST", "SETNAME2", "ELEM_EXIST"}

KState == [ex : SUBSET Sets, mem : [Sets -> SUBSET Elems]]

EmptyMembers == [s \in Sets |-> {}]

Res(k, err) == [k |-> k, err |-> err]

KCreate(k, s, excl) ==
    IF s \in k.ex
    THEN Res(k, IF excl THEN "EEXIST" ELSE "ok")
    ELSE Res([k EXCEPT !.ex = @ \cup {s}, !.mem[s] = {}], "ok")

KDestroy(k, s) ==
    IF s = NoSet THEN Res([ex |-> {}, mem |-> EmptyMembers], "ok")
    ELSE IF s \notin k.ex THEN Res(k, "ENOENT")
    ELSE Res([k EXCEPT !.ex = @ \ {s}, !.mem[s] = {}], "ok")

KFlush(k, s) ==
    IF s = NoSet THEN Res([k EXCEPT !.mem = EmptyMembers], "ok")
    ELSE IF s \notin k.ex THEN Res(k, "ENOENT")
    ELSE Res([k EXCEPT !.mem[s] = {}], "ok")

KRename(k, s, t) ==
    IF s \notin k.ex THEN Res(k, "ENOENT")
    ELSE IF t \in k.ex THEN Res(k, "SETNAME2")
    ELSE Res([ex |-> (k.ex \ {s}) \cup {t},
              mem |-> [k.mem EXCEPT ![t] = k.mem[s], ![s] = {}]], "ok")

KSwap(k, s, t) ==
    IF s \notin k.ex THEN Res(k, "ENOENT")
    ELSE IF t \notin k.ex THEN Res(k, "SETNAME2")
    ELSE Res([k EXCEPT !.mem = [@ EXCEPT ![s] = k.mem[t], ![t] = k.mem[s]]], "ok")

\* One element of an ADD or DEL; without the exclusive flag (-exist) an
\* element already added, or not added, is silently accepted (scenario 3).
KAddElem(k, s, e, excl) ==
    IF e \in k.mem[s]
    THEN Res(k, IF excl THEN "ELEM_EXIST" ELSE "ok")
    ELSE Res([k EXCEPT !.mem[s] = @ \cup {e}], "ok")

KDelElem(k, s, e, excl) ==
    IF e \notin k.mem[s]
    THEN Res(k, IF excl THEN "ELEM_EXIST" ELSE "ok")
    ELSE Res([k EXCEPT !.mem[s] = @ \ {e}], "ok")

KAdtElem(k, cmd, s, e, excl) ==
    IF cmd = "add" THEN KAddElem(k, s, e, excl) ELSE KDelElem(k, s, e, excl)

\* TEST answers with an ACK when the element is in the set and with
\* DSET_ERR_EXIST when it is not.
KTest(k, s, e) ==
    IF s \notin k.ex THEN Res(k, "ENOENT")
    ELSE Res(k, IF e \in k.mem[s] THEN "ok" ELSE "ELEM_EXIST")

(***************************************************************************)
(* An aggregated ADD/DEL message: the set must exist (checked once for the *)
(* message, so the error carries no line number), then the members of the  *)
(* ADT group are applied in order and the first failing one stops the     *)
(* message; its line number travels back in the error (spec section 5).    *)
(***************************************************************************)
RECURSIVE KAdtMembers(_, _, _, _, _)
KAdtMembers(k, cmd, s, excl, lines) ==
    IF lines = <<>> THEN [k |-> k, err |-> "ok", line |-> 0]
    ELSE LET r == KAdtElem(k, cmd, s, Head(lines).elem, excl)
         IN IF r.err # "ok"
            THEN [k |-> r.k, err |-> r.err, line |-> Head(lines).no]
            ELSE KAdtMembers(r.k, cmd, s, excl, Tail(lines))

KAdtMsg(k, cmd, s, excl, lines) ==
    IF s \notin k.ex THEN [k |-> k, err |-> "ENOENT", line |-> 0]
    ELSE KAdtMembers(k, cmd, s, excl, lines)

\* A message that carries exactly one command line l.
KSingle(k, l, excl) ==
    CASE l.cmd = "create"  -> KCreate(k, l.set, excl)
      [] l.cmd = "destroy" -> KDestroy(k, l.set)
      [] l.cmd = "flush"   -> KFlush(k, l.set)
      [] l.cmd = "rename"  -> KRename(k, l.set, l.set2)
      [] l.cmd = "swap"    -> KSwap(k, l.set, l.set2)
      [] l.cmd = "test"    -> KTest(k, l.set, l.elem)
      [] l.cmd \in {"add", "del"} ->
            LET r == KAdtMsg(k, l.cmd, l.set, excl, <<l>>)
            IN Res(r.k, r.err)
=============================================================================
