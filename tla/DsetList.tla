------------------------------ MODULE DsetList ------------------------------
(***************************************************************************)
(* "list" and "flush" commands of an interactive dset session ("dset -"), *)
(* from the request to the printed output.                                 *)
(*                                                                         *)
(*  - src/lib/session.c: dset_cmd and dset_commit, the callback table      *)
(*    (callback_data, callback_done, callback_error), the list printer     *)
(*    (callback_list, list_create, list_adt, print_set_done) and the       *)
(*    output buffer (safe_snprintf, handle_snprintf_error, realloc_outbuf, *)
(*    call_outfn) with the sorted-line list and its pool;                 *)
(*  - src/lib/mnl.c: dset_mnl_query, its send, its recv loop and the       *)
(*    sequence check of mnl_cb_run2;                                       *)
(*  - src/lib/dset.c: the interactive loop, where an error is reported and *)
(*    the next line is read.                                               *)
(*                                                                         *)
(* The kernel end of the netlink socket (its receive queue, the dump       *)
(* that is continued on every recvmsg, EBUSY for a second dump) and the    *)
(* set contents are written from the netlink contract; these definitions   *)
(* are marked as modelled from the specification.                          *)
(*                                                                         *)
(* Abstraction of the output buffer: a slot holds one printed line (a set  *)
(* header or a member) or a NUL byte, and a string is the run of slots up  *)
(* to the next NUL.  Offsets are slot numbers, counted from 0 as in C.     *)
(* print_outfn, which writes to the output stream, may fail on any call.   *)
(***************************************************************************)
EXTENDS Naturals, Sequences, SequencesExt, FiniteSets, TLC

CONSTANTS
    Sets, NoSet,
    Members,        \* member strings, ordered as strcmp orders them
    MaxCmds,        \* commands read in one session
    MaxPrintFail,   \* failing print_outfn calls in one session
    FailWindow,     \* the print_outfn calls of one step that may fail
    OutLen,         \* initial output buffer size, in slots
    OutGrow,        \* realloc_outbuf increment, in slots
    ChunkCap        \* members that fit in one dump message

ASSUME /\ Members \subseteq Nat \ {0}
       /\ OutLen >= 2 /\ OutGrow >= 1 /\ ChunkCap >= 1

VARIABLES
    kmem,     \* kernel sets: [ex, mem]
    dump,     \* the kernel's dump on this socket: [run, seq, rest]
    sockq,    \* socket receive queue: skbs [seq, msgs]
    seq,      \* handle->seq
    phase,    \* "idle" (at the prompt), "recv", "proc" (inside query), "exit"
    cmd,      \* session->cmd
    skb,      \* the skb mnl_cb_run2 is working through
    sortEnv,  \* DSET_ENV_SORTED, sticky in the session like every envopt
    S,        \* session output state, and the current command's output
    cmds,     \* commands read so far
    fails,    \* print_outfn failures so far
    cur,      \* history: the current command
    hist      \* history: every finished command

vars == <<kmem, dump, sockq, seq, phase, cmd, skb, sortEnv, S, cmds, fails,
          cur, hist>>

-----------------------------------------------------------------------------
(* Output buffer slots and strings                                         *)

Slot == [k : {"nul", "hdr", "mem"}, s : Sets \cup {NoSet}, m : Members \cup {0}]
NUL == [k |-> "nul", s |-> NoSet, m |-> 0]
Hdr(set) == [k |-> "hdr", s |-> set, m |-> 0]
Mem(e) == [k |-> "mem", s |-> NoSet, m |-> e]

\* The string starting at slot i: the slots up to the next NUL.
StrAt(buf, i) ==
    LET j == SelectInSubSeq(buf, i, Len(buf), LAMBDA x : x = NUL)
    IN IF j = 0 THEN SubSeq(buf, i, Len(buf)) ELSE SubSeq(buf, i, j - 1)

\* strcmp: NUL below every character, members in their order, headers
\* ("Name: ...") above them.
Key(x) == CASE x.k = "nul" -> 0
            [] x.k = "mem" -> x.m
            [] x.k = "hdr" -> Max(Members) + 1

RECURSIVE StrLess(_, _)
StrLess(a, b) ==
    IF b = <<>> THEN FALSE
    ELSE IF a = <<>> THEN TRUE
    ELSE IF Key(Head(a)) # Key(Head(b)) THEN Key(Head(a)) < Key(Head(b))
    ELSE StrLess(Tail(a), Tail(b))
-----------------------------------------------------------------------------
(* The printer.  Every operator below takes and returns the session's     *)
(* output state W, a record of session->outbuf, outbuflen, pos, the       *)
(* sorted list (the offsets of its entries), the pool and the number of   *)
(* entries ever allocated, saved_setname, sort, printed_set, and out, the *)
(* text print_outfn has written for the current command.  Within one step *)
(* W also counts the print_outfn calls (calls); call number failAt fails  *)
(* (perr), and jmp records a longjmp(printf_failure) in flight.           *)

\* The value of x, handed to Op: each step of the printer works on the
\* state the previous step left, evaluated once.
Then(x, Op(_)) == CHOOSE y \in {Op(v) : v \in {x}} : TRUE

\* session->print_outfn (default_print_outfn: vfprintf to the stream).
print_outfn(W, str) ==
    IF W.calls + 1 = W.failAt
    THEN [W EXCEPT !.calls = @ + 1, !.perr = TRUE]
    ELSE [W EXCEPT !.calls = @ + 1, !.perr = FALSE, !.out = @ \o str]

\* call_outfn: print outbuf as "%s", then empty it whatever the result.
call_outfn(W) ==
    LET V == print_outfn(W, StrAt(W.outbuf, 1))
    IN [V EXCEPT !.outbuf[1] = NUL, !.pos = 0]

realloc_outbuf(W) ==
    [W EXCEPT !.outbuf = @ \o [i \in 1..OutGrow |-> NUL],
              !.outlen = @ + OutGrow]

\* A write that fits: the line at pos and its terminating NUL after it.
Put(W, x) ==
    [W EXCEPT !.outbuf = [@ EXCEPT ![W.pos + 1] = x, ![W.pos + 2] = NUL],
              !.pos = @ + 1]

\* Fault of handle_snprintf_error: "ret + pos > outbuflen", so a line that
\* leaves no room for its NUL counts as fitting.
SafeSnprintfNoNulRoom(W, x) ==
    IF W.jmp THEN W
    ELSE IF W.pos + 1 <= W.outlen THEN Put(W, x)
    ELSE IF W.sort THEN Put(realloc_outbuf(W), x)
    ELSE Then(call_outfn([W EXCEPT !.outbuf[W.pos + 1] = NUL]),
              LAMBDA V : IF V.perr THEN [V EXCEPT !.jmp = TRUE] ELSE Put(V, x))

\* safe_snprintf and safe_dprintf of one line, with handle_snprintf_error:
\* if the line and its NUL do not fit, a sorted listing grows the buffer,
\* any other flushes it through call_outfn and longjmps if that fails;
\* the retry always fits.
safe_snprintf(W, x) ==
    IF W.jmp THEN W
    ELSE IF W.pos + 1 < W.outlen THEN Put(W, x)
    ELSE IF W.sort THEN Put(realloc_outbuf(W), x)
    ELSE Then(call_outfn([W EXCEPT !.outbuf[W.pos + 1] = NUL]),
              LAMBDA V : IF V.perr THEN [V EXCEPT !.jmp = TRUE] ELSE Put(V, x))

\* list_create: the set header; printed_set counts it and sort is decided
\* afterwards (a hash:* type, and the only type is hash:domain).
list_create(W, set) ==
    Then(safe_snprintf(W, Hdr(set)),
         LAMBDA V : IF V.jmp THEN V
                    ELSE [V EXCEPT !.printed = @ + 1, !.sort = sortEnv])

\* Faults of list_adt: the sorted line is written over the previous
\* line's NUL, or every entry is newly allocated and the pool never used.
ListAdtNoSkip(W, e) ==
    IF W.jmp THEN W
    ELSE Then((IF W.sort /\ W.outlen <= W.pos + 1 THEN realloc_outbuf(W) ELSE W),
              LAMBDA A : Then(safe_snprintf(A, Mem(e)),
                  LAMBDA B : IF B.jmp \/ ~W.sort THEN B
                             ELSE [B EXCEPT !.alloc = @ + (IF B.pool > 0 THEN 0 ELSE 1),
                                            !.pool = IF @ > 0 THEN @ - 1 ELSE 0,
                                            !.sorted = Append(@, A.pos)]))

ListAdtNoPool(W, e) ==
    IF W.jmp THEN W
    ELSE Then((IF W.sort THEN [(IF W.outlen <= W.pos + 1 THEN realloc_outbuf(W) ELSE W)
                                EXCEPT !.pos = @ + 1]
               ELSE W),
              LAMBDA A : Then(safe_snprintf(A, Mem(e)),
                  LAMBDA B : IF B.jmp \/ ~W.sort THEN B
                             ELSE [B EXCEPT !.alloc = @ + 1, !.sorted = Append(@, A.pos)]))

\* list_adt: one member line.  Sorting skips the previous line's NUL so
\* that the line is a string of its own, then files its offset in the
\* sorted list with an entry taken from the pool or newly allocated.
list_adt(W, e) ==
    LET File(A) ==
          Then(safe_snprintf(A, Mem(e)),
               LAMBDA B : IF B.jmp \/ ~W.sort THEN B
                          ELSE IF B.pool > 0
                          THEN [B EXCEPT !.pool = @ - 1, !.sorted = Append(@, A.pos)]
                          ELSE [B EXCEPT !.alloc = @ + 1, !.sorted = Append(@, A.pos)])
    IN IF W.jmp THEN W
       ELSE IF ~W.sort THEN File(W)
       ELSE Then([(IF W.outlen <= W.pos + 1 THEN realloc_outbuf(W) ELSE W)
                    EXCEPT !.pos = @ + 1], File)

RECURSIVE list_members(_, _)
list_members(W, es) ==
    IF es = <<>> THEN W
    ELSE Then(list_adt(W, Head(es)), LAMBDA V : list_members(V, Tail(es)))

\* print_outfn of each string in turn, stopping at the first failure.
RECURSIVE PrintEach(_, _)
PrintEach(W, strs) ==
    IF strs = <<>> THEN W
    ELSE Then(print_outfn(W, Head(strs)),
              LAMBDA V : IF V.perr THEN V ELSE PrintEach(V, Tail(strs)))

\* bystrcmp and list_sort: the strings of the sorted entries, in order.
SortedLines(W) ==
    SortSeq([i \in DOMAIN W.sorted |-> StrAt(W.outbuf, W.sorted[i] + 1)],
            StrLess)

\* print_set_done: a sorted set prints the buffer (the header), then its
\* sorted lines, and moves the entries to the pool; an error returns at
\* once.  Then the buffer is flushed.  Result: [w, err].
print_set_done(W) ==
    LET Lines(H) ==
          IF H.perr THEN [w |-> H, err |-> TRUE]
          ELSE Then(PrintEach(H, SortedLines(H)),
                    LAMBDA P : IF P.perr THEN [w |-> P, err |-> TRUE]
                               ELSE [w |-> [P EXCEPT !.pool = @ + Len(P.sorted),
                                                     !.sorted = <<>>],
                                     err |-> FALSE])
        Flushed(A) ==
          IF A.err THEN A
          ELSE Then(call_outfn(A.w), LAMBDA V : [w |-> V, err |-> V.perr])
    IN Then(IF ~W.sort THEN [w |-> W, err |-> FALSE]
            ELSE Then(call_outfn(W), Lines), Flushed)

\* callback_list for one dump message m = [set, data, adt]: a new set name
\* finishes the previous set (print_set_done, its result ignored); DATA
\* prints the header and saves the name; each ADT member is printed; an
\* unsorted message is flushed at its end.  A longjmp lands in the setjmp
\* at the top, which clears saved_setname and printed_set.  Result: [w, r].
callback_list(W, m) ==
    LET Header(A) ==
          IF ~m.data THEN A
          ELSE Then(list_create(A, m.set),
                    LAMBDA C : IF C.jmp THEN C ELSE [C EXCEPT !.saved = m.set])
        Result(D) ==
          IF D.jmp
          THEN [w |-> [D EXCEPT !.jmp = FALSE, !.saved = NoSet, !.printed = 0],
                r |-> "error"]
          ELSE IF m.adt # <<>> /\ D.sort THEN [w |-> D, r |-> "ok"]
          ELSE Then(call_outfn(D),
                    LAMBDA V : [w |-> V, r |-> IF V.perr THEN "error" ELSE "ok"])
        Prev == IF m.set = W.saved \/ W.saved = NoSet THEN W
                ELSE print_set_done(W).w
    IN Then(Then(Then(Prev, Header), LAMBDA B : list_members(B, m.adt)), Result)

\* Fault: callback_done answers MNL_CB_OK, as a data callback does.
CallbackDoneOk(W) ==
    Then(print_set_done(W),
         LAMBDA R : [w |-> R.w, r |-> IF R.err THEN "error" ELSE "ok"])

\* callback_done: the dump is over, the last set is finished.
callback_done(W) ==
    Then(print_set_done(W),
         LAMBDA R : [w |-> R.w, r |-> IF R.err THEN "error" ELSE "stop"])
-----------------------------------------------------------------------------
(* Kernel side of the socket (modelled from the netlink contract)         *)

Msg == [type : {"data", "done", "error"}, set : Sets \cup {NoSet},
        data : BOOLEAN, adt : Seq(Members), err : {"ok", "ENOENT", "EBUSY"}]
DataMsg(set, first, es) ==
    [type |-> "data", set |-> set, data |-> first, adt |-> es, err |-> "ok"]
Done == [type |-> "done", set |-> NoSet, data |-> FALSE, adt |-> <<>>, err |-> "ok"]
Answer(e) == [type |-> "error", set |-> NoSet, data |-> FALSE, adt |-> <<>>, err |-> e]

\* The ways to cut a member sequence into messages of at most ChunkCap.
RECURSIVE Pieces(_)
Pieces(es) ==
    IF es = <<>> THEN {<<>>}
    ELSE UNION {{<<SubSeq(es, 1, n)>> \o p : p \in Pieces(SubSeq(es, n + 1, Len(es)))} :
                n \in 1..Min({ChunkCap, Len(es)})}

\* One set's messages: the first carries DATA (the header) and maybe the
\* first members, the others carry members only.
SetMessages(set, es) ==
    LET Msgs(p) == [i \in DOMAIN p |-> DataMsg(set, i = 1, p[i])]
    IN {Msgs(<<<<>>>> \o p) : p \in Pieces(es)} \cup
       {Msgs(p) : p \in Pieces(es) \ {<<>>}}

\* A dump: the sets in index order, each set's members in hash order.
RECURSIVE DumpsOf(_, _)
DumpsOf(k, order) ==
    IF order = <<>> THEN {<<>>}
    ELSE {d1 \o d2 : d1 \in UNION {SetMessages(Head(order), es) :
                                     es \in SetToSeqs(k.mem[Head(order)])},
                     d2 \in DumpsOf(k, Tail(order))}

Dumps(k) == UNION {DumpsOf(k, order) : order \in SetToSeqs(k.ex)}

\* netlink_dump: the next skb of a running dump.  The last message may
\* share its skb with NLMSG_DONE (join) or be followed by a DONE skb.
netlink_dump(d, join) ==
    IF d.rest = <<>>
    THEN [msgs |-> <<Done>>, dump |-> [d EXCEPT !.run = FALSE]]
    ELSE IF Len(d.rest) = 1 /\ join
    THEN [msgs |-> <<Head(d.rest), Done>>,
          dump |-> [d EXCEPT !.run = FALSE, !.rest = <<>>]]
    ELSE [msgs |-> <<Head(d.rest)>>, dump |-> [d EXCEPT !.rest = Tail(d.rest)]]
-----------------------------------------------------------------------------
(* Reference listing                                                       *)

\* What "list" must print for a dump d: for each set its header, then its
\* members, in strcmp order when sorting, else in the order they came.
RECURSIVE Listing(_, _)
Listing(d, srt) ==
    IF d = <<>> THEN <<>>
    ELSE LET nxt == SelectInSubSeq(d, 2, Len(d), LAMBDA x : x.data)
             last == IF nxt = 0 THEN Len(d) ELSE nxt - 1
             es == FlattenSeq([i \in 1..last |-> d[i].adt])
             ord == IF srt THEN SortSeq(es, <) ELSE es
         IN <<Hdr(Head(d).set)>> \o [i \in DOMAIN ord |-> Mem(ord[i])]
            \o Listing(SubSeq(d, last + 1, Len(d)), srt)

\* The kernel handles a LIST request inside sendmsg: a dump already
\* running on the socket refuses it with EBUSY, otherwise the dump starts
\* and its first skb is queued.  The command's expected listing is kept.
KernelDumpStart(q) ==
    \/ /\ dump.run
       /\ sockq' = Append(sockq, [seq |-> q, msgs |-> <<Answer("EBUSY")>>])
       /\ cur' = [cmd |-> "list", expect |-> <<>>, pfail |-> FALSE]
       /\ UNCHANGED dump
    \/ /\ ~dump.run
       /\ \E d \in Dumps(kmem), join \in BOOLEAN :
            LET nd == netlink_dump([run |-> TRUE, seq |-> q, rest |-> d], join)
            IN /\ dump' = nd.dump
               /\ sockq' = Append(sockq, [seq |-> q, msgs |-> nd.msgs])
               /\ cur' = [cmd |-> "list", expect |-> Listing(d, sortEnv'),
                          pfail |-> FALSE]

\* FLUSH: an ACK, or ENOENT for a set that does not exist.
KernelFlush(q, set) ==
    /\ IF set \in kmem.ex
       THEN /\ kmem' = [kmem EXCEPT !.mem[set] = {}]
            /\ sockq' = Append(sockq, [seq |-> q, msgs |-> <<Answer("ok")>>])
       ELSE /\ sockq' = Append(sockq, [seq |-> q, msgs |-> <<Answer("ENOENT")>>])
            /\ UNCHANGED kmem
    /\ UNCHANGED dump

\* recvmsg hands over the head skb; a running dump then fills the next one.
KernelRecvmsg ==
    /\ sockq # <<>>
    /\ skb' = Head(sockq)
    /\ \E join \in BOOLEAN :
         IF dump.run
         THEN LET nd == netlink_dump(dump, join)
              IN /\ dump' = nd.dump
                 /\ sockq' = Append(Tail(sockq), [seq |-> dump.seq, msgs |-> nd.msgs])
         ELSE /\ sockq' = Tail(sockq)
              /\ UNCHANGED dump
-----------------------------------------------------------------------------
(* The session                                                             *)

EmptyOut == [outbuf |-> [i \in 1..OutLen |-> NUL], outlen |-> OutLen, pos |-> 0,
             sorted |-> <<>>, pool |-> 0, alloc |-> 0, saved |-> NoSet,
             sort |-> FALSE, printed |-> 0, out |-> <<>>,
             calls |-> 0, failAt |-> 0, perr |-> FALSE, jmp |-> FALSE]

\* dset_session_init (calloc'd session and output buffer) and an empty
\* socket; the kernel holds any sets.
Init ==
    /\ kmem \in [ex : SUBSET Sets, mem : [Sets -> SUBSET Members]]
    /\ \A x \in Sets \ kmem.ex : kmem.mem[x] = {}
    /\ dump = [run |-> FALSE, seq |-> 0, rest |-> <<>>]
    /\ sockq = <<>>
    /\ seq = 0
    /\ phase = "idle"
    /\ cmd = "none"
    /\ skb = [seq |-> 0, msgs |-> <<>>]
    /\ sortEnv = FALSE
    /\ S = EmptyOut
    /\ cmds = 0
    /\ fails = 0
    /\ cur = [cmd |-> "none", expect |-> <<>>, pfail |-> FALSE]
    /\ hist = <<>>

\* Did a print_outfn call of this step fail?
PrintFailed(W) == W.failAt # 0 /\ W.calls >= W.failAt

\* The print_outfn call that fails in a step, if any.
FailChoices == {0} \cup (IF fails < MaxPrintFail THEN 1..FailWindow ELSE {})

Start(f) == [S EXCEPT !.calls = 0, !.failAt = f, !.perr = FALSE, !.jmp = FALSE]
Settle(W) == [W EXCEPT !.calls = 0, !.failAt = 0, !.perr = FALSE, !.jmp = FALSE]

\* The query returns: dset_commit resets saved_setname and printed_set,
\* dset_cmd returns, and in interactive mode default_standard_error reports
\* a failure and the prompt comes back.
Finish(W, ok, cause) ==
    /\ S' = [Settle(W) EXCEPT !.saved = NoSet, !.printed = 0]
    /\ phase' = "idle"
    /\ fails' = fails + (IF PrintFailed(W) THEN 1 ELSE 0)
    /\ hist' = Append(hist, [cmd |-> cur.cmd, ok |-> ok, out |-> W.out,
                             expect |-> cur.expect, cause |-> cause,
                             pfail |-> cur.pfail \/ PrintFailed(W)])
    /\ UNCHANGED cur

\* "[-sorted] list": dset_cmd commits nothing pending, builds the LIST
\* request and dset_commit queries with the next sequence number.
List(srt) ==
    /\ phase = "idle" /\ cmds < MaxCmds
    /\ sortEnv' = (sortEnv \/ srt)
    /\ seq' = seq + 1 /\ cmds' = cmds + 1
    /\ cmd' = "list" /\ phase' = "recv"
    /\ S' = [S EXCEPT !.out = <<>>]
    /\ KernelDumpStart(seq + 1)
    /\ UNCHANGED <<kmem, skb, fails, hist>>

\* "flush SET".
Flush(set) ==
    /\ phase = "idle" /\ cmds < MaxCmds
    /\ seq' = seq + 1 /\ cmds' = cmds + 1
    /\ cmd' = "flush" /\ phase' = "recv"
    /\ S' = [S EXCEPT !.out = <<>>]
    /\ cur' = [cmd |-> "flush", expect |-> <<>>, pfail |-> FALSE]
    /\ KernelFlush(seq + 1, set)
    /\ UNCHANGED <<skb, sortEnv, fails, hist>>

\* dset_mnl_query's recv: blocks until the socket has an skb.
Recv ==
    /\ phase = "recv"
    /\ KernelRecvmsg
    /\ phase' = "proc"
    /\ UNCHANGED <<kmem, seq, cmd, sortEnv, S, cmds, fails, cur, hist>>

\* mnl_cb_run2 on the next message of the skb: a message of another
\* sequence number ends the query with EPROTO; otherwise the callback of
\* its type runs.  MNL_CB_OK goes on with the skb, then with the next recv.
Proc ==
    /\ phase = "proc"
    /\ LET m == Head(skb.msgs)
           Go(W) == /\ IF Len(skb.msgs) = 1
                       THEN phase' = "recv" /\ UNCHANGED skb
                       ELSE phase' = "proc" /\ skb' = [skb EXCEPT !.msgs = Tail(@)]
                    /\ S' = Settle(W)
                    /\ fails' = fails + (IF PrintFailed(W) THEN 1 ELSE 0)
                    /\ cur' = [cur EXCEPT !.pfail = @ \/ PrintFailed(W)]
                    /\ UNCHANGED hist
           \* A callback's verdict: MNL_CB_ERROR and MNL_CB_STOP end the query.
           Dispatch(R) ==
               CASE R.r = "error" -> Finish(R.w, FALSE, "print") /\ UNCHANGED skb
                 [] R.r = "stop"  -> Finish(R.w, TRUE, "ok") /\ UNCHANGED skb
                 [] R.r = "ok"    -> Go(R.w)
       IN \/ /\ skb.seq # seq
             /\ Finish(S, FALSE, "stale")
             /\ UNCHANGED skb
          \/ /\ skb.seq = seq /\ m.type = "data"
             /\ \E f \in FailChoices :
                  \E R \in {callback_list(Start(f), m)} : Dispatch(R)
          \/ /\ skb.seq = seq /\ m.type = "done"
             /\ \E f \in FailChoices :
                  \E R \in {callback_done(Start(f))} : Dispatch(R)
          \/ /\ skb.seq = seq /\ m.type = "error"
             /\ Finish(S, m.err = "ok", CASE m.err = "ok" -> "ok"
                                          [] m.err = "ENOENT" -> "refused"
                                          [] m.err = "EBUSY" -> "busy")
             /\ UNCHANGED skb
    /\ UNCHANGED <<kmem, dump, sockq, seq, cmd, sortEnv, cmds>>

\* End of input at the prompt (or "quit"): the process exits.
Quit ==
    /\ phase = "idle"
    /\ phase' = "exit"
    /\ UNCHANGED <<kmem, dump, sockq, seq, cmd, skb, sortEnv, S, cmds, fails,
                   cur, hist>>

Next ==
    \/ \E srt \in BOOLEAN : List(srt)
    \/ \E set \in Sets : Flush(set)
    \/ Recv \/ Proc \/ Quit

\* The process runs whenever it is not blocked in recv: the kernel answers
\* a request inside sendmsg and fills the next dump skb inside recvmsg.
Spec == Init /\ [][Next]_vars /\ WF_vars(Recv) /\ WF_vars(Proc)
-----------------------------------------------------------------------------
(* Properties                                                              *)

TypeOK ==
    /\ kmem \in [ex : SUBSET Sets, mem : [Sets -> SUBSET Members]]
    /\ dump.run \in BOOLEAN /\ dump.rest \in Seq(Msg)
    /\ \A i \in DOMAIN sockq : sockq[i].msgs \in Seq(Msg)
    /\ phase \in {"idle", "recv", "proc", "exit"}
    /\ cmd \in {"none", "list", "flush"}
    /\ sortEnv \in BOOLEAN
    /\ S.outbuf \in Seq(Slot) /\ Len(S.outbuf) = S.outlen
    /\ S.pos \in 0..(S.outlen - 1)
    /\ S.sorted \in Seq(0..(S.outlen - 1))
    /\ S.saved \in Sets \cup {NoSet}
    /\ S.out \in Seq(Slot)
    /\ fails \in 0..MaxPrintFail

\* As long as no output write has failed in the session, every list that
\* succeeds prints exactly the listing of the dump (headers, then members,
\* sorted under -sorted), and a list in progress has printed a prefix of it:
\* nothing is lost or repeated across dump messages, buffer flushes and
\* growth, the sentinel NULs and the sorted list (callback_list,
\* list_adt, print_set_done).
ListingExactWhileHealthy ==
    fails = 0 =>
        /\ \A i \in DOMAIN hist :
              hist[i].cmd = "list" /\ hist[i].ok => hist[i].out = hist[i].expect
        /\ phase \in {"recv", "proc"} /\ cmd = "list" =>
              IsPrefix(S.out, cur.expect)

\* As long as no output write has failed, the sorted-line entries are
\* recycled through the pool: the session never holds more of them than
\* the largest set has members (list_adt, print_set_done).
SortedPoolBounded ==
    fails = 0 => S.alloc <= Cardinality(Members)

\* Every command read at the prompt comes back to the prompt: the query
\* loop of dset_mnl_query always receives the answer it stops on.
EveryCommandEnds == phase \in {"recv", "proc"} ~> phase = "idle"

\* A list that reports success printed exactly the listing (spec section
\* 4.4: a printing failure aborts the command).
SuccessMeansListing ==
    \A i \in DOMAIN hist :
        hist[i].cmd = "list" /\ hist[i].ok => hist[i].out = hist[i].expect

\* A list whose own printing never failed prints exactly its listing, even
\* after an earlier command of the session failed (spec section 5: the
\* interactive driver catches an error and continues).
OwnListingExact ==
    \A i \in DOMAIN hist :
        hist[i].cmd = "list" /\ hist[i].ok /\ ~hist[i].pfail =>
            hist[i].out = hist[i].expect

\* A command fails only for a reason of its own: the kernel refused it, or
\* writing its output failed; an earlier failed command leaves the
\* session usable (spec section 5).
FailsForOwnReason ==
    \A i \in DOMAIN hist : ~hist[i].ok => hist[i].cause \in {"refused", "print"}
=============================================================================
