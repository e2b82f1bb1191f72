---------------------------- MODULE TypeRegistry ----------------------------
(***************************************************************************)
(* The userspace set-type registry of libdset (src/lib/types.c): the      *)
(* singly linked list `typelist' that dset_type_add fills and that         *)
(* dset_type_higher_rev walks.  The list is a sequence of descriptors,     *)
(* position 1 being the head; a descriptor is abstracted to its            *)
(* (name, revision) pair, since the family of every registered type is     *)
(* the same and the argument menus do not take part in the ordering.       *)
(* Every registration is a distinct descriptor structure, as every         *)
(* dset_type_add call of a set-type module passes its own static struct.   *)
(***************************************************************************)
EXTENDS Integers, Sequences, SequencesExt

CONSTANTS
    Names,          \* set-type names
    LongNames,      \* names of DSET_MAXNAMELEN characters or more
    Revisions,      \* revisions a set-type module may carry
    MaxCalls,       \* bound on the number of dset_type_add calls
    AscendingLoad   \* TRUE: each name's revisions are registered lowest first

ASSUME LongNames \subseteq Names /\ MaxCalls \in Nat /\ AscendingLoad \in BOOLEAN

VARIABLES
    typelist,   \* the registry, head first
    ret,        \* the value the last dset_type_add returned
    calls       \* number of dset_type_add calls so far

vars == <<typelist, ret, calls>>

EINVAL == 22
EEXIST == 17
NoCall == 1   \* ret before any call: no return value yet

Descriptor == [name : Names, revision : Revisions]

(* The result of dset_type_add: the return value and the new list.       *)
Done(r, l) == [ret |-> r, list |-> l]

(* Mutant: the revision test at the node itself also accepts an equal    *)
(* revision, so a duplicate is inserted instead of refused.              *)
RECURSIVE AddWalkLe(_, _, _)
AddWalkLe(l, d, i) ==
    IF i > Len(l) THEN Done(0, <<d>> \o l)
    ELSE IF l[i].name = d.name /\ l[i].revision <= d.revision
         THEN Done(0, InsertAt(l, i, d))
    ELSE IF i < Len(l) /\ l[i+1].name = d.name /\ l[i+1].revision = d.revision
         THEN Done(-EEXIST, l)
    ELSE IF i < Len(l) /\ l[i+1].name = d.name /\ l[i+1].revision < d.revision
         THEN Done(0, InsertAt(l, i+1, d))
    ELSE AddWalkLe(l, d, i+1)

(* Mutant: only the successor t->next is compared, never the node itself. *)
RECURSIVE AddWalkNoHeadCheck(_, _, _)
AddWalkNoHeadCheck(l, d, i) ==
    IF i > Len(l) THEN Done(0, <<d>> \o l)
    ELSE IF i < Len(l) /\ l[i+1].name = d.name /\ l[i+1].revision = d.revision
         THEN Done(-EEXIST, l)
    ELSE IF i < Len(l) /\ l[i+1].name = d.name /\ l[i+1].revision < d.revision
         THEN Done(0, InsertAt(l, i+1, d))
    ELSE AddWalkNoHeadCheck(l, d, i+1)

(* The insertion walk of dset_type_add (types.c 525-556): at every node t  *)
(* it first compares the new descriptor with t, then with t->next, and     *)
(* inserts before the first same-name node of a lower revision; a walk     *)
(* that meets none prepends the descriptor to the head of the list.        *)
RECURSIVE AddWalk(_, _, _)
AddWalk(l, d, i) ==
    IF i > Len(l) THEN Done(0, <<d>> \o l)
    ELSE IF l[i].name = d.name /\ l[i].revision = d.revision
         THEN Done(-EEXIST, l)
    ELSE IF l[i].name = d.name /\ l[i].revision < d.revision
         THEN Done(0, InsertAt(l, i, d))
    ELSE IF i < Len(l) /\ l[i+1].name = d.name /\ l[i+1].revision = d.revision
         THEN Done(-EEXIST, l)
    ELSE IF i < Len(l) /\ l[i+1].name = d.name /\ l[i+1].revision < d.revision
         THEN Done(0, InsertAt(l, i+1, d))
    ELSE AddWalk(l, d, i+1)

(* Mutant: a too long name is refused with the positive errno.          *)
DsetTypeAddPositiveErr(l, d) ==
    IF d.name \in LongNames THEN Done(EINVAL, l)
    ELSE AddWalk(l, d, 1)

(* dset_type_add: a name too long for the kernel is refused with EINVAL;  *)
(* otherwise the descriptor goes through the insertion walk.  (The loop    *)
(* that ORs every menu argument into cmd[].full only derives the menu      *)
(* masks of the descriptor itself.)                                        *)
dset_type_add(l, d) ==
    IF d.name \in LongNames THEN Done(-EINVAL, l)
    ELSE AddWalk(l, d, 1)

(* Mutant: the walk follows the next pointer instead of finding the     *)
(* node whose next pointer is the given descriptor.                      *)
HigherRevFollowsNext(l, i) ==
    IF \E j \in 1..Len(l) : l[j].name = l[i].name /\ j = i + 1 THEN i + 1 ELSE i

(* dset_type_higher_rev: the descriptor whose next pointer is the given   *)
(* one and that carries the same name, or the given one if none does.     *)
(* Descriptors are addressed by their position in the list.               *)
dset_type_higher_rev(l, i) ==
    IF \E j \in 1..Len(l) : l[j].name = l[i].name /\ j + 1 = i THEN i - 1 ELSE i

(* The registrations the loader may issue: with AscendingLoad, a name's   *)
(* revisions come in non-decreasing order, as dset_types_init registers    *)
(* the static types; otherwise in any order, as the dlopen loop of        *)
(* dset_load_types runs module constructors in reverse file-name order.   *)
Loadable(d) ==
    AscendingLoad =>
        \A i \in 1..Len(typelist) :
            typelist[i].name = d.name => typelist[i].revision <= d.revision

Init ==
    /\ typelist = << >>
    /\ ret = NoCall
    /\ calls = 0

(* One set-type module registers its descriptor.                           *)
Register(d) ==
    /\ calls < MaxCalls
    /\ Loadable(d)
    /\ LET r == dset_type_add(typelist, d)
       IN /\ typelist' = r.list
          /\ ret' = r.ret
    /\ calls' = calls + 1

Next == \E d \in Descriptor : Register(d)

Spec == Init /\ [][Next]_vars

-----------------------------------------------------------------------------
(* The registry holds descriptors and every call returned 0, -EEXIST or  *)
(* -EINVAL.                                                               *)
TypeOK ==
    /\ typelist \in Seq(Descriptor)
    /\ Len(typelist) <= calls
    /\ ret \in {NoCall, 0, -EEXIST, -EINVAL}
    /\ calls \in 0..MaxCalls

(* Spec 4.1 and 8: descriptors of the same name are ordered by strictly    *)
(* decreasing revision, when each name's revisions are registered lowest   *)
(* first (AscendingLoad, the order of this build's dset_types_init); a     *)
(* registration in another order breaks it (types.c:556).                  *)
(* create_type_get takes the first surviving match as the highest one.     *)
DescendingPerName ==
    \A i, j \in 1..Len(typelist) :
        i < j /\ typelist[i].name = typelist[j].name
            => typelist[i].revision > typelist[j].revision

(* Spec 8: a (name, revision) pair is registered at most once: every      *)
(* second dset_type_add of a registered pair returns -EEXIST.             *)
DuplicatesRejected ==
    \A i, j \in 1..Len(typelist) :
        i # j => typelist[i] # typelist[j]

(* The keyword lookahead of parse_commandline (dset.c 720-739) climbs     *)
(* dset_type_higher_rev: from every descriptor it must reach the next     *)
(* higher registered revision of the same name, or stop if there is none. *)
NextHigher(i) ==
    LET higher == {j \in 1..Len(typelist) :
                     typelist[j].name = typelist[i].name
                     /\ typelist[j].revision > typelist[i].revision}
    IN IF higher = {} THEN i
       ELSE CHOOSE j \in higher :
              \A k \in higher : typelist[j].revision <= typelist[k].revision

HigherRevIsNext ==
    \A i \in 1..Len(typelist) : dset_type_higher_rev(typelist, i) = NextHigher(i)

=============================================================================
