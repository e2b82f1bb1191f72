---------------------------- MODULE KernelReplay ----------------------------
(***************************************************************************)
(* What a restore promises (spec.md sections 4.4 and 5): the kernel sees   *)
(* the command lines in the order they were issued, each one once, and    *)
(* the effect of a batch of lines is that of applying the lines one after  *)
(* the other, each with its own set name, element and -exist choice, up    *)
(* to the first line the kernel rejects.  How lines are grouped into       *)
(* messages is not visible at this level.                                  *)
(*                                                                         *)
(* log is the sequence of lines the kernel has been handed.  A line is a   *)
(* record [no, cmd, set, set2, elem, excl]: its restore line number, the   *)
(* command, its arguments and whether it asks for exclusive semantics (no  *)
(* -exist in effect).                                                       *)
(***************************************************************************)
EXTENDS Naturals, Sequences, SequencesExt

CONSTANTS Sets, Elems, NoSet, NoElem

VARIABLES kernel, log

K == INSTANCE KernelSets

\* The kernel state after applying the lines one by one, stopping at the
\* first one that is not acknowledged.
RECURSIVE Replay(_, _)
Replay(k, lines) ==
    IF lines = <<>> THEN k
    ELSE LET r == K!KSingle(k, Head(lines), Head(lines).excl)
         IN IF r.err # "ok" THEN r.k ELSE Replay(r.k, Tail(lines))

LastNo(s) == IF s = <<>> THEN 0 ELSE s[Len(s)].no

\* Line numbers only grow: no line is handed over twice or out of order.
Increasing(s) == \A i \in 1..(Len(s) - 1) : s[i].no < s[i + 1].no

Init ==
    /\ kernel \in K!KState
    /\ \A s \in Sets \ kernel.ex : kernel.mem[s] = {}
    /\ log = <<>>

\* The kernel is handed a non-empty batch of lines, later than every line
\* it has seen, and ends in the state of their one-by-one replay.
Process ==
    /\ IsStrictPrefix(log, log')
    /\ LET batch == SubSeq(log', Len(log) + 1, Len(log'))
       IN /\ Increasing(batch)
          /\ batch[1].no > LastNo(log)
          /\ kernel' = Replay(kernel, batch)

Spec == Init /\ [][Process]_<<kernel, log>>
=============================================================================
