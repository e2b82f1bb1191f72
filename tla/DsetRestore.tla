---------------------------- MODULE DsetRestore ----------------------------
(***************************************************************************)
(* A "dset restore" run: the batch driver of src/lib/dset.c reading a      *)
(* restore stream line by line (dset_parse_stream, dset_parse_argv), the   *)
(* session of src/lib/session.c turning each line into kernel messages     *)
(* (dset_cmd, may_aggregate_ad, build_msg, dset_commit, callback_error),   *)
(* the set-name cache of src/lib/types.c, and the batch error handler      *)
(* (default_standard_error, default_custom_error).                         *)
(*                                                                         *)
(* One step is one input line: the program is single threaded and the     *)
(* netlink query is synchronous, so a line runs to completion (including   *)
(* the kernel's answer and the callbacks) before the next line is read.    *)
(* Element text, type parsing and message bytes are abstracted: a message  *)
(* is its command, set, exclusive flag and the lines it carries, and the   *)
(* page-sized send buffer holds at most BufCap ADT members.                *)
(***************************************************************************)
EXTENDS Naturals, Sequences, SequencesExt, FiniteSets

CONSTANTS
    Sets, Elems, NoSet, NoElem,
    MaxLine,    \* bound on the number of input lines read
    BufCap,     \* ADT members that fit in one send buffer
    LineExist   \* the values a line's own "-exist" option may take

ASSUME BufCap >= 1 /\ MaxLine >= 1 /\ LineExist \subseteq BOOLEAN

VARIABLES
    kernel,     \* the kernel's sets (KernelSets)
    cache,      \* types.c setlist, as a sequence of names
    buf,        \* session->buffer: the message being aggregated
    nestid,     \* session->nestid: open nested attributes in buf
    scmd,       \* session->cmd: the last public command
    saved,      \* session->saved_setname
    exist,      \* DSET_ENV_EXIST in session->envopts
    line,       \* dset->restore_line
    eof,        \* fgets has returned NULL
    status,     \* "running", or how the process exited: "ok" (0), "fail"
    issued,     \* history: lines handed to dset_cmd and built, in order
    delivered,  \* history: lines the kernel was sent, in order
    rejected    \* history: [line, err] for every line the kernel refused

vars == <<kernel, cache, buf, nestid, scmd, saved, exist, line, eof, status,
          issued, delivered, rejected>>

K == INSTANCE KernelSets
C == INSTANCE SetCache

AdtCmds == {"add", "del"}
Cmds == AdtCmds \cup {"create", "destroy", "flush", "rename", "swap", "test"}

Line == [no : 1..MaxLine, cmd : Cmds, set : Sets \cup {NoSet},
         set2 : Sets \cup {NoSet}, elem : Elems \cup {NoElem}, excl : BOOLEAN]

MkLine(c, s, s2, e, ex) ==
    [no |-> line + 1, cmd |-> c, set |-> s, set2 |-> s2, elem |-> e,
     excl |-> ~(exist \/ ex)]

\* nlmsg_len == 0: no message is being built.
EmptyBuf == [cmd |-> "none", set |-> NoSet, excl |-> FALSE, lines |-> <<>>]

-----------------------------------------------------------------------------
(* Session operations                                                      *)

\* Faults of may_aggregate_ad: the set name or the command left unchecked.
MayAggregateAnySet(c, s) == line + 1 # 0 /\ c \in AdtCmds /\ c = scmd
MayAggregateAnyCmd(c, s) == line + 1 # 0 /\ c \in AdtCmds /\ s = saved

\* may_aggregate_ad: restore mode (lineno != 0), an ADD or DEL, the same
\* command as the last one and the set name saved by the last ADD/DEL.
may_aggregate_ad(c, s) ==
    /\ line + 1 # 0
    /\ c \in AdtCmds
    /\ c = scmd
    /\ s = saved

\* Faults of the BUFFER_FULL test: one member too many, one too few.
HasRoomOneMore == Len(buf.lines) <= BufCap
HasRoomOneLess == Len(buf.lines) < BufCap - 1

\* build_msg with aggregate set: open_nested(DATA) and addattr_adt both
\* fail once the member would not fit with the error trailer (BUFFER_FULL).
HasRoom == Len(buf.lines) < BufCap

\* The kernel's answer to a message: an ADT message is one set, one
\* exclusive flag for all members; any other message carries one line.
KMsg(k, b) ==
    IF b.cmd \in AdtCmds
    THEN K!KAdtMsg(k, b.cmd, b.set, b.excl, b.lines)
    ELSE LET r == K!KSingle(k, b.lines[1], b.excl)
         IN [k |-> r.k, err |-> r.err, line |-> 0]

\* dset_commit: nothing to do on an empty buffer; otherwise close the open
\* nests, query the kernel, and the caller resets the buffer state.
dset_commit(k, b) ==
    IF b.lines = <<>> THEN [k |-> k, err |-> "ok", line |-> 0, sent |-> <<>>]
    ELSE LET r == KMsg(k, b)
         IN [k |-> r.k, err |-> r.err, line |-> r.line, sent |-> b.lines]

\* The lines a kernel error is about: the LINENO of the failing member, or
\* every line of the message when the error carries none.
Refused(err, errline, lines) ==
    IF err = "ok" THEN {}
    ELSE {[line |-> lines[i], err |-> err] :
            i \in {j \in DOMAIN lines : errline = 0 \/ lines[j].no = errline}}

\* callback_error on an ACK: the cache side effects of the command.
AckCache(c, l) ==
    CASE l.cmd = "create"  -> C!dset_cache_add(c, l.set)
      [] l.cmd = "destroy" -> C!dset_cache_del(c, l.set)
      [] l.cmd = "rename"  -> C!dset_cache_rename(c, l.set, l.set2)
      [] l.cmd = "swap"    -> C!dset_cache_swap(c, l.set, l.set2)
      [] OTHER             -> c

\* The report a command leaves and its fate in batch mode
\* (dset_parse_argv line 1276, default_standard_error): a warning exits 0,
\* a notice or an error exits with failure, no report goes on reading.
\* Fault: DSET_ERR_EXIST taken as benign for every command, as it is for TEST.
FailedButExist(err) == err \notin {"ok", "ELEM_EXIST"}

Failed(err) == err # "ok"

AfterCommand(l, err, ignoredOpt) ==
    IF l.cmd = "test" THEN IF err = "ok" THEN "ok" ELSE "fail"
    ELSE IF Failed(err) THEN "fail"
    ELSE IF ignoredOpt THEN "ok"
    ELSE "running"

-----------------------------------------------------------------------------
(* Actions                                                                 *)

Init ==
    /\ kernel \in K!KState
    /\ \A s \in Sets \ kernel.ex : kernel.mem[s] = {}
    /\ cache = <<>>
    /\ buf = EmptyBuf
    /\ nestid = 0
    /\ scmd = "none"
    /\ saved = NoSet
    /\ exist \in BOOLEAN        \* "dset -exist restore" or "dset restore"
    /\ line = 0
    /\ eof = FALSE
    /\ status = "running"
    /\ issued = <<>>
    /\ delivered = <<>>
    /\ rejected = {}

ReadLine(ex) ==
    /\ status = "running"
    /\ line < MaxLine
    /\ line' = line + 1
    /\ exist' = (exist \/ ex)
    /\ eof' = FALSE

\* A line flushes the pending buffer first and the kernel refuses it:
\* dset_commit returns -1 and the batch error handler exits.
FlushFails(r) ==
    /\ Failed(r.err)
    /\ kernel' = r.k
    /\ delivered' = delivered \o r.sent
    /\ rejected' = rejected \cup Refused(r.err, r.line, buf.lines)
    /\ status' = "fail"
    /\ buf' = EmptyBuf /\ nestid' = 0 /\ saved' = NoSet
    /\ UNCHANGED <<cache, scmd, issued>>

\* adt_type_get: an ADD, DEL or TEST finds its set in the cache or, failing
\* that, by a HEADER query to the kernel.
TypeKnown(s) == C!CacheHit(cache, s) \/ s \in kernel.ex

\* "add|del|test SET ELEM" on a set neither cached nor in the kernel: the
\* HEADER query fails and the error ends the run before dset_cmd.
UnknownSet(s, ex) ==
    /\ ReadLine(ex)
    /\ ~TypeKnown(s)
    /\ status' = "fail"
    /\ UNCHANGED <<kernel, cache, buf, nestid, scmd, saved, issued,
                   delivered, rejected>>

\* The member joins the ADT group of the message being aggregated.
AdtAppend(c, s, e, ex) ==
    /\ ReadLine(ex)
    /\ TypeKnown(s)
    /\ may_aggregate_ad(c, s) /\ HasRoom
    /\ buf' = [buf EXCEPT !.lines = Append(@, MkLine(c, s, NoSet, e, ex))]
    /\ issued' = Append(issued, MkLine(c, s, NoSet, e, ex))
    /\ UNCHANGED <<kernel, cache, nestid, scmd, saved, status, delivered,
                   rejected>>

\* Not aggregatable, or the buffer is full: dset_commit first, then a new
\* message with the setname, LINENO and an ADT nest left open.
AdtNewMessage(c, s, e, ex) ==
    /\ ReadLine(ex)
    /\ TypeKnown(s)
    /\ ~may_aggregate_ad(c, s) \/ ~HasRoom
    /\ LET r == dset_commit(kernel, buf)
           l == MkLine(c, s, NoSet, e, ex)
       IN \/ FlushFails(r)
          \/ /\ ~Failed(r.err)
             /\ kernel' = r.k
             /\ delivered' = delivered \o r.sent
             /\ buf' = [cmd |-> c, set |-> s, excl |-> l.excl, lines |-> <<l>>]
             /\ nestid' = 1
             /\ scmd' = c
             /\ saved' = s
             /\ issued' = Append(issued, l)
             /\ rejected' = rejected \cup Refused(r.err, r.line, buf.lines)
             /\ UNCHANGED <<cache, status>>

\* Any other command: flush, build its message, commit it at once and run
\* the ACK or error callback.  ignoredOpt is a deprecated create option
\* (probes, resize, gc) that dset_parse_ignored reports as a warning.
SingleCommand(l, ex, ignoredOpt) ==
    /\ ReadLine(ex)
    /\ LET r1 == dset_commit(kernel, buf)
           r2 == K!KSingle(r1.k, l, l.excl)
       IN \/ FlushFails(r1)
          \/ /\ ~Failed(r1.err)
             /\ kernel' = r2.k
             /\ delivered' = delivered \o r1.sent \o <<l>>
             /\ issued' = Append(issued, l)
             /\ rejected' = rejected \cup Refused(r1.err, r1.line, buf.lines)
                  \cup (IF l.cmd = "test" /\ r2.err = "ELEM_EXIST" THEN {}
                       ELSE Refused(r2.err, 0, <<l>>))
             /\ cache' = IF r2.err = "ok" THEN AckCache(cache, l) ELSE cache
             /\ status' = AfterCommand(l, r2.err, ignoredOpt)
             /\ buf' = EmptyBuf /\ nestid' = 0 /\ saved' = NoSet
             /\ scmd' = l.cmd

Create(s, ex, ign) == SingleCommand(MkLine("create", s, NoSet, NoElem, ex), ex, ign)
Destroy(s, ex) == SingleCommand(MkLine("destroy", s, NoSet, NoElem, ex), ex, FALSE)
Flush(s, ex) == SingleCommand(MkLine("flush", s, NoSet, NoElem, ex), ex, FALSE)
Rename(s, t, ex) == SingleCommand(MkLine("rename", s, t, NoElem, ex), ex, FALSE)
Swap(s, t, ex) == SingleCommand(MkLine("swap", s, t, NoElem, ex), ex, FALSE)
Test(s, e, ex) ==
    /\ TypeKnown(s)
    /\ SingleCommand(MkLine("test", s, NoSet, e, ex), ex, FALSE)

\* A blank or "#" line: only restore_line moves.
SkipLine ==
    /\ ReadLine(FALSE)
    /\ UNCHANGED <<kernel, cache, buf, nestid, scmd, saved, status, issued,
                   delivered, rejected>>

\* A line the parser rejects before dset_cmd (unknown command or keyword,
\* malformed element): the error handler exits, the buffer is never sent.
BadLine(ex) ==
    /\ ReadLine(ex)
    /\ status' = "fail"
    /\ UNCHANGED <<kernel, cache, buf, nestid, scmd, saved, issued,
                   delivered, rejected>>

\* Commits the buffer and ends the run as an explicit COMMIT line does,
\* or as end of input does with the implicit commit.
CommitBuffer(endStatus) ==
    LET r == dset_commit(kernel, buf)
    IN \/ FlushFails(r)
       \/ /\ ~Failed(r.err)
          /\ kernel' = r.k
          /\ delivered' = delivered \o r.sent
          /\ buf' = EmptyBuf /\ nestid' = 0 /\ saved' = NoSet
          /\ rejected' = rejected \cup Refused(r.err, r.line, buf.lines)
          /\ status' = endStatus
          /\ UNCHANGED <<cache, scmd, issued>>

\* A bare "COMMIT" line.
CommitLine ==
    /\ ReadLine(FALSE)
    /\ CommitBuffer("running")

\* A line that ends the process with status 0 from inside dset_parse_argv:
\* custom_error(DSET_NO_PROBLEM) calls dset_fini and exit(0), and
\* dset_session_fini does not commit, so the send buffer is dropped.
ExitWithoutCommit ==
    /\ ReadLine(FALSE)
    /\ status' = "ok"
    /\ UNCHANGED <<kernel, cache, buf, nestid, scmd, saved, issued,
                   delivered, rejected>>

\* A "quit" line.
QuitLine == ExitWithoutCommit

\* A "-" line: the nested interactive loop on stdin, which here is already
\* at its end (the rest of the stream, or an empty stdin), then exit 0.
DashLine == ExitWithoutCommit

\* Fault: the process ends at EOF without the implicit commit.
EofWithoutCommit ==
    /\ status = "running"
    /\ eof' = TRUE
    /\ status' = "ok"
    /\ UNCHANGED <<kernel, cache, buf, nestid, scmd, saved, exist, line,
                   issued, delivered, rejected>>

\* fgets returns NULL: the implicit COMMIT at EOF, then main returns 0.
Eof ==
    /\ status = "running"
    /\ eof' = TRUE
    /\ UNCHANGED <<line, exist>>
    /\ CommitBuffer("ok")

\* The process has exited.
Terminated ==
    /\ status # "running"
    /\ UNCHANGED vars

Next ==
    \/ \E c \in AdtCmds, s \in Sets, e \in Elems, ex \in LineExist :
          AdtAppend(c, s, e, ex) \/ AdtNewMessage(c, s, e, ex)
    \/ \E s \in Sets, ex \in LineExist : UnknownSet(s, ex)
    \/ \E s \in Sets, ex \in LineExist, ign \in BOOLEAN : Create(s, ex, ign)
    \/ \E s \in Sets \cup {NoSet}, ex \in LineExist : Destroy(s, ex) \/ Flush(s, ex)
    \/ \E s, t \in Sets, ex \in LineExist : Rename(s, t, ex) \/ Swap(s, t, ex)
    \/ \E s \in Sets, e \in Elems, ex \in LineExist : Test(s, e, ex)
    \/ \E ex \in LineExist : BadLine(ex)
    \/ SkipLine \/ CommitLine \/ QuitLine \/ DashLine \/ Eof \/ Terminated

Spec == Init /\ [][Next]_vars

-----------------------------------------------------------------------------
(* Properties                                                              *)

TypeOK ==
    /\ kernel \in K!KState
    /\ cache \in Seq(Sets)
    /\ buf.cmd \in AdtCmds \cup {"none"} /\ buf.set \in Sets \cup {NoSet}
    /\ buf.lines \in Seq(Line) /\ Len(buf.lines) <= BufCap
    /\ nestid \in 0..1
    /\ scmd \in Cmds \cup {"none"}
    /\ saved \in Sets \cup {NoSet}
    /\ exist \in BOOLEAN /\ eof \in BOOLEAN
    /\ line \in 0..MaxLine
    /\ status \in {"running", "ok", "fail"}
    /\ issued \in Seq(Line) /\ delivered \in Seq(Line)
    /\ rejected \subseteq [line : Line, err : K!Outcomes]

\* Every line handed to dset_cmd reaches the kernel once and in issue
\* order, or is still waiting in the send buffer (spec section 5); a run
\* that reaches the end of its input and exits with status 0 has sent
\* everything (spec section 6: end of file flushes implicitly).  A quit or
\* "-" line exits 0 with the buffer unsent: the spec names only the EOF
\* flush, and that loss is recorded as a finding, not hidden here.
InOrderOnce ==
    /\ delivered \o buf.lines = issued
    /\ status = "ok" /\ eof => buf.lines = <<>>

\* The aggregated message holds one run: every buffered member has the
\* message's command and set name (may_aggregate_ad).
OneRunPerMessage ==
    \A i \in DOMAIN buf.lines :
        buf.lines[i].cmd = buf.cmd /\ buf.lines[i].set = buf.set

\* A run of same-set ADD/DEL lines is split into a new message only when
\* the send buffer is full (spec section 8: one ADT group per run).
SplitOnlyWhenFull ==
    [][ /\ buf.lines # <<>>
        /\ Len(issued') = Len(issued) + 1
        /\ Last(issued').cmd = buf.cmd /\ Last(issued').set = buf.set
        /\ delivered' # delivered
        => Len(buf.lines) = BufCap ]_vars

\* A run that exits with status 0 had no line refused by the kernel: every
\* kernel error ends a batch run with a failure status.
ExitHonest == status = "ok" => rejected = {}

\* Whatever messages the lines were packed into, the kernel ends up as if
\* the lines had been applied one by one, in order (KernelReplay).
KR == INSTANCE KernelReplay WITH log <- delivered
ReplayRefinement == KR!Spec

\* The cache names only sets that exist: callback_error adds a created set
\* and deletes a destroyed one ("Delete destroyed sets from the cache").
CacheSound == \A i \in 1..Len(cache) : cache[i] \in kernel.ex

\* A line under -exist is never refused because its element is already
\* added or not added (spec scenario 3, fill_hdr clearing NLM_F_EXCL).
ExistHonoured == \A r \in rejected : r.err = "ELEM_EXIST" => r.line.excl

=============================================================================
