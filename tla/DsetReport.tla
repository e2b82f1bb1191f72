----------------------------- MODULE DsetReport -----------------------------
(***************************************************************************)
(* The report buffer and what becomes of it: how the library reports      *)
(* warnings, notices and errors into session->report (session.c), how a   *)
(* kernel errno is turned into a message (errcode.c), how the ignored      *)
(* legacy options warn (parse.c, data.c), how the protocol handshake and  *)
(* the TYPE and HEADER private queries negotiate with the kernel           *)
(* (session.c, types.c), and how the CLI's error handlers print the report *)
(* and pick the exit status (dset.c).                                      *)
(*                                                                         *)
(* One step is one command line: "create", "add", "test", "destroy",      *)
(* "version", or the end of the interactive input.  A command line runs  *)
(* to completion inside the process before the next is read, so each is   *)
(* one action, composed from the library calls it makes in their order.   *)
(* The session is a record Z threaded through those calls; a call that    *)
(* can fail returns [z |-> Z', ret |-> r] with r < 0 on failure.          *)
(*                                                                         *)
(* A message is a record naming what it says (its kind), never its text; *)
(* the report buffer is the sequence of messages appended since it was    *)
(* last emptied.  The 1024-byte truncation of the buffer and the "Error   *)
(* in line N" prefix of restore mode are left out: lineno is 0 outside    *)
(* restore, and the messages of one command line fit.                      *)
(***************************************************************************)
EXTENDS Integers, Sequences, FiniteSets, SequencesExt

CONSTANTS
    Names,          \* set names given on command lines
    NoSet,          \* the NULL set name of "destroy" without an argument
    IgnoredOpts,    \* the legacy create options: probes, resize, gc
    MaxOpts,        \* most ignored options on one create line
    TypeRevision,   \* the revision dset_hash_domain.c registers
    KernelRevs,     \* hash:domain revisions a kernel may support
    ProtoMin,       \* DSET_PROTOCOL_MIN
    ProtoMax,       \* DSET_PROTOCOL_MAX
    KernelProtos,   \* protocol versions a kernel may speak
    KernelErrnos,   \* errnos the kernel may refuse a command with
    MaxLines        \* bound on the command lines of one session

ASSUME TypeRevision \in KernelRevs /\ ProtoMin <= ProtoMax

VARIABLES
    kproto,         \* the kernel's protocol window <<min, max>>
    ktype,          \* the kernel's hash:domain revision window, or NoTypeModule
    interactive,    \* dset->interactive: "dset -" rather than one command
    ses,            \* the session record Z, see SessionType
    status,         \* Running, or the process's exit status
    lines           \* command lines read so far

vars == <<kproto, ktype, interactive, ses, status, lines>>

Cache == INSTANCE SetCache

(* enum dset_err_type, session.h *)
NO_ERROR == 0
WARNING  == 1
NOTICE   == 2
ERROR    == 3

(* enum dset_exit_status, dset.h *)
NO_PROBLEM      == 0
OTHER_PROBLEM   == 1
PARAMETER_PROBLEM == 2
VERSION_PROBLEM == 3
SESSION_PROBLEM == 4

NoType == -1            \* a NULL struct dset_type pointer
Running == -1           \* status of a process that has not exited
NoTypeModule == <<>>    \* a kernel without the hash:domain module
NoRefusal == [cmd |-> "NONE", code |-> "NONE"]

-----------------------------------------------------------------------------
(* The kernel's errnos by the range they fall in (errcode.c compares     *)
(* against DSET_ERR_PRIVATE and DSET_ERR_TYPE_SPECIFIC): system errnos   *)
(* lie below the private base, the type-specific ones above their base.  *)
SystemErrnos == {"ENOENT", "EMSGSIZE", "EEXIST", "EPERM"}
TypeSpecificErrnos == {"ERR_HASH_FULL", "ERR_HASH_ELEM", "ERR_INVALID_PROTO",
                       "ERR_MISSING_PROTO", "ERR_HASH_RANGE_UNSUPPORTED",
                       "ERR_HASH_RANGE", "ERR_TYPE_SPECIFIC_OTHER"}

Row(code, cmd) == [code |-> code, cmd |-> cmd]

\* core_errcode_table; cmd "NONE" is the 0 that matches every command.
core_errcode_table == <<
    Row("ENOENT", "NONE"), Row("EMSGSIZE", "NONE"),
    Row("ERR_PROTOCOL", "NONE"), Row("EEXIST", "CREATE"),
    Row("ERR_FIND_TYPE", "NONE"), Row("ERR_MAX_SETS", "NONE"),
    Row("ERR_INVALID_FAMILY", "NONE"), Row("ERR_BUSY", "DESTROY"),
    Row("ERR_EXIST_SETNAME2", "RENAME"), Row("ERR_REFERENCED", "RENAME"),
    Row("ERR_EXIST_SETNAME2", "SWAP"), Row("ERR_TYPE_MISMATCH", "SWAP"),
    Row("ERR_TIMEOUT", "NONE"), Row("ERR_COUNTER", "NONE"),
    Row("ERR_COMMENT", "NONE"), Row("ERR_SKBINFO", "NONE"),
    Row("ERR_EXIST", "ADD"), Row("ERR_EXIST", "DEL"),
    Row("EEXIST", "TYPE") >>

\* hash_errcode_table: every row is generic.
hash_errcode_table == <<
    Row("ERR_HASH_FULL", "NONE"), Row("ERR_HASH_ELEM", "NONE"),
    Row("ERR_INVALID_PROTO", "NONE"), Row("ERR_MISSING_PROTO", "NONE"),
    Row("ERR_HASH_RANGE_UNSUPPORTED", "NONE"), Row("ERR_HASH_RANGE", "NONE") >>

ErrcodeTable(t) == IF t = "hash" THEN hash_errcode_table ELSE core_errcode_table

\* Mutant: the command test of the loop dropped, the first row with the
\* errno is taken.
RECURSIVE ScanTableAnyCmd(_, _, _, _, _)
ScanTableAnyCmd(T, i, code, cmd, generic) ==
    IF i > Len(T) THEN generic
    ELSE IF T[i].code = code THEN i
    ELSE ScanTableAnyCmd(T, i + 1, code, cmd, generic)

\* The loop of dset_errcode over one table from row i: a command-specific
\* row is returned at once, a generic row is remembered and the scan goes
\* on; 0 when no row matched.
RECURSIVE ScanTable(_, _, _, _, _)
ScanTable(T, i, code, cmd, generic) ==
    IF i > Len(T) THEN generic
    ELSE IF T[i].code = code /\ T[i].cmd \in {cmd, "NONE"}
         THEN IF T[i].cmd = "NONE" THEN ScanTable(T, i + 1, code, cmd, i)
              ELSE i
         ELSE ScanTable(T, i + 1, code, cmd, generic)

\* dset_errcode: the message the report gets for errno code refused to
\* cmd.  The hash table is tried first when the code is type-specific
\* and a type is saved (the build's one type is hash:domain), then the
\* core table; an unmatched code falls back to strerror or "Undecoded".
dset_errcode(cmd, code, saved_type) ==
    LET first == IF code \in TypeSpecificErrnos /\ saved_type
                 THEN "hash" ELSE "core"
        Hit(t) == ScanTable(ErrcodeTable(t), 1, code, cmd, 0)
    IN IF Hit(first) # 0 THEN [k |-> "table", t |-> first, i |-> Hit(first)]
       ELSE IF Hit("core") # 0 THEN [k |-> "table", t |-> "core", i |-> Hit("core")]
       ELSE IF code \in SystemErrnos THEN [k |-> "strerror", e |-> code]
       ELSE [k |-> "undecoded", e |-> code]

-----------------------------------------------------------------------------
(* The session record.  err_type and report are session->err_type and    *)
(* session->report; ignored is the ignored bitmap of the data blob;      *)
(* version_checked and protocol are the handshake's result; kernel_check *)
(* is the registered type's kernel-check tri-state; cache is the set-name *)
(* cache (SetCache); saved_type is session->saved_type (NULL or the one   *)
(* type); quiet is DSET_ENV_QUIET.  The rest is history kept for the      *)
(* properties: peak is the highest severity reported since the buffer   *)
(* was last emptied, out what was printed to stderr, sent the public     *)
(* messages handed to the kernel on this line, handled what               *)
(* default_standard_error saw on this line, refusal the kernel's refusal  *)
(* on this line.                                                          *)
Severities == NO_ERROR..ERROR
Msgs == [k : {"proto_fail", "proto_warn", "unknown_type", "upgrade_dset",
              "upgrade_kernel", "incompat", "in_set", "not_in_set",
              "internal"}]
        \cup [k : {"ignored"}, o : IgnoredOpts]
        \cup [k : {"table"}, t : {"core", "hash"}, i : Nat]
        \cup [k : {"strerror", "undecoded"}, e : STRING]

SessionType ==
    [err_type : Severities, report : Seq(Msgs), peak : Severities,
     ignored : SUBSET IgnoredOpts, version_checked : BOOLEAN,
     protocol : ProtoMin..ProtoMax, kernel_check : {"unknown", "ok", "mismatch"},
     cache : Seq(Names), saved_type : BOOLEAN, quiet : BOOLEAN,
     out : Seq([sev : Severities, msgs : Seq(Msgs)]),
     sent : SUBSET [cmd : STRING, protocol : Nat, rev : Int],
     handled : Seq([t : Severities, peak : Severities, msgs : Seq(Msgs)]),
     refusal : [cmd : STRING, code : STRING]]

\* dset_data_reset: the blob is zeroed, its ignored bits with it.
dset_data_reset(Z) == [Z EXCEPT !.ignored = {}]

\* dset_session_report: a lower, non-empty severity in the buffer is
\* dropped before a higher one is written; the message is appended; the
\* new type is stored whatever it was; an error resets the data blob.
dset_session_report(Z, type, m) ==
    LET kept == IF Z.err_type > NO_ERROR /\ Z.err_type < type
                THEN <<>> ELSE Z.report
        R == [Z EXCEPT !.report = Append(kept, m), !.err_type = type,
                       !.peak = IF type > @ THEN type ELSE @]
    IN IF type = ERROR THEN dset_data_reset(R) ELSE R

dset_err(Z, m)    == dset_session_report(Z, ERROR, m)
dset_warn(Z, m)   == dset_session_report(Z, WARNING, m)
dset_notice(Z, m) == dset_session_report(Z, NOTICE, m)

\* dset_session_report_reset
dset_session_report_reset(Z) ==
    [Z EXCEPT !.report = <<>>, !.err_type = NO_ERROR, !.peak = NO_ERROR]

\* dset_data_ignored: test and set the option's ignored bit.
dset_data_ignored(Z, opt) ==
    [was |-> opt \in Z.ignored, z |-> [Z EXCEPT !.ignored = @ \cup {opt}]]

\* dset_parse_ignored: warn unless the bit was already set.
dset_parse_ignored(Z, opt) ==
    LET D == dset_data_ignored(Z, opt)
    IN IF D.was THEN D.z ELSE dset_warn(D.z, [k |-> "ignored", o |-> opt])

Ok(Z)   == [z |-> Z, ret |-> 0]
Fail(Z) == [z |-> Z, ret |-> -1]

-----------------------------------------------------------------------------
(* Talking to the kernel.  The kernel's code is not in the repository;   *)
(* its answers are the windows fixed in Init and the choices the actions *)
(* enumerate.                                                              *)

\* Mutant: the session adopts the kernel's maximum.
CallbackVersionNoMin(Z) ==
    LET kmin == kproto[1]
        kmax == kproto[2]
        W == IF ~Z.quiet /\ kmax # ProtoMax
             THEN dset_warn(Z, [k |-> "proto_warn"]) ELSE Z
    IN IF kmin > ProtoMax \/ kmax < ProtoMin
       THEN Fail(dset_err(Z, [k |-> "proto_fail"]))
       ELSE Ok([W EXCEPT !.protocol = kmax, !.version_checked = TRUE])

\* Mutant: version_checked is set before the window is checked.
CallbackVersionCheckedEarly(Z) ==
    LET kmin == kproto[1]
        kmax == kproto[2]
        C == [Z EXCEPT !.version_checked = TRUE]
        W == IF ~Z.quiet /\ kmax # ProtoMax
             THEN dset_warn(C, [k |-> "proto_warn"]) ELSE C
    IN IF kmin > ProtoMax \/ kmax < ProtoMin
       THEN Fail(dset_err(C, [k |-> "proto_fail"]))
       ELSE Ok([W EXCEPT !.protocol = IF kmax < ProtoMax THEN kmax ELSE ProtoMax])

\* callback_version: a disjoint window fails; a kernel maximum other than
\* ours warns unless quiet; the session adopts the lower maximum.
callback_version(Z) ==
    LET kmin == kproto[1]
        kmax == kproto[2]
        W == IF ~Z.quiet /\ kmax # ProtoMax
             THEN dset_warn(Z, [k |-> "proto_warn"]) ELSE Z
    IN IF kmin > ProtoMax \/ kmax < ProtoMin
       THEN Fail(dset_err(Z, [k |-> "proto_fail"]))
       ELSE Ok([W EXCEPT !.protocol = IF kmax < ProtoMax THEN kmax ELSE ProtoMax,
                         !.version_checked = TRUE])

\* The protocol check at the top of dset_cmd: the PROTOCOL private message
\* once per session; a warning it left is dropped unless cmd is NONE.
CheckProtocol(Z, cmd) ==
    LET V == callback_version(Z)
    IN IF Z.version_checked THEN Ok(Z)
       ELSE IF V.ret < 0 THEN V
       ELSE Ok(IF V.z.err_type = WARNING /\ cmd # "NONE"
               THEN dset_session_report_reset(V.z) ELSE V.z)

\* decode_errmsg and dset_errcode for an errno the kernel refused cmd with.
decode_errmsg(Z, cmd, code) ==
    Fail([dset_err(Z, dset_errcode(cmd, code, Z.saved_type))
            EXCEPT !.refusal = [cmd |-> cmd, code |-> code]])

\* build_send_private_msg for TYPE and HEADER: the answer is an errno,
\* decoded by callback_error, or the attributes callback_type and
\* callback_header copy into the data blob (passed back as val).
build_send_private_msg(Z, cmd, ans) ==
    IF ans.err THEN decode_errmsg(Z, cmd, ans.code)
    ELSE [z |-> Z, ret |-> 0, val |-> ans.val]

Refused(code) == [err |-> TRUE, code |-> code]
Answered(v)   == [err |-> FALSE, val |-> v]

\* dset_cmd for a private command: protocol check, then the query.
dset_cmd_private(Z, cmd, ans) ==
    LET P == CheckProtocol(Z, cmd)
    IN IF P.ret < 0 THEN [P EXCEPT !.ret = -1]
       ELSE build_send_private_msg(P.z, cmd, ans)

-----------------------------------------------------------------------------
(* Type lookup, types.c.  The build registers one type, hash:domain at   *)
(* TypeRevision, so the registry walk is over that single revision.      *)

\* The TYPE answer of the kernel: ERR_FIND_TYPE without the type module,
\* else its revision window <<kmin, kmax>>.
KernelTypeAnswer ==
    IF ktype = NoTypeModule THEN Refused("ERR_FIND_TYPE") ELSE Answered(ktype)

\* Mutant: the revision window check left out.
CreateTypeGetNoWindowCheck(Z) ==
    LET cand == IF Z.kernel_check # "mismatch" THEN {TypeRevision} ELSE {}
        Q == dset_cmd_private(Z, "TYPE", KernelTypeAnswer)
        inwin == {r \in cand : Q.val[1] <= r /\ r <= Q.val[2]}
    IN IF cand = {} THEN [z |-> dset_err(Z, [k |-> "unknown_type"]), type |-> NoType]
       ELSE IF Z.kernel_check = "ok" THEN [z |-> Z, type |-> TypeRevision]
       ELSE IF Q.ret # 0 THEN [z |-> Q.z, type |-> NoType]
       ELSE [z |-> [Q.z EXCEPT !.kernel_check =
                        IF TypeRevision \in inwin THEN "ok" ELSE "mismatch"],
             type |-> TypeRevision]

\* create_type_get: a revision the kernel already accepted is used as is;
\* otherwise the TYPE query, the window check, and the revisions outside
\* the window are disabled.  Returns [z, type] with type NoType on failure.
create_type_get(Z) ==
    LET cand == IF Z.kernel_check # "mismatch" THEN {TypeRevision} ELSE {}
        tmin == TypeRevision
        tmax == TypeRevision
        Q == dset_cmd_private(Z, "TYPE", KernelTypeAnswer)
        kmin == Q.val[1]
        kmax == Q.val[2]
        lo == IF tmin > kmin THEN tmin ELSE kmin
        hi == IF tmax < kmax THEN tmax ELSE kmax
        inwin == {r \in cand : kmin <= r /\ r <= kmax}
    IN IF cand = {} THEN [z |-> dset_err(Z, [k |-> "unknown_type"]), type |-> NoType]
       ELSE IF Z.kernel_check = "ok" THEN [z |-> Z, type |-> tmax]
       ELSE IF Q.ret # 0 THEN [z |-> Q.z, type |-> NoType]
       ELSE IF lo > hi
            THEN [z |-> dset_err(Q.z, [k |-> IF kmin > tmax THEN "upgrade_dset"
                                               ELSE "upgrade_kernel"]),
                  type |-> NoType]
       ELSE [z |-> [Q.z EXCEPT !.kernel_check =
                        IF TypeRevision \in inwin THEN "ok" ELSE "mismatch"],
             type |-> TypeRevision]

\* adt_type_get: a cached set gives its type; otherwise the HEADER query,
\* whose answer is the revision of the set in the kernel, must name a
\* registered revision the kernel has not been found to lack.
adt_type_get(Z, name, hdr) ==
    LET Q == dset_cmd_private(Z, "HEADER", hdr)
    IN IF Cache!CacheHit(Z.cache, name) THEN [z |-> Z, type |-> TypeRevision]
       ELSE IF Q.ret # 0 THEN [z |-> Q.z, type |-> NoType]
       ELSE IF Q.val = TypeRevision /\ Q.z.kernel_check # "mismatch"
            THEN [z |-> [Q.z EXCEPT !.kernel_check = "ok"], type |-> TypeRevision]
       ELSE [z |-> dset_err(Q.z, [k |-> "incompat"]), type |-> NoType]

-----------------------------------------------------------------------------
(* A public command: dset_cmd, dset_commit and callback_error.            *)

\* callback_error for the kernel's answer ans ("ACK" or an errno) to cmd.
\* For TEST, dset_print_elem writes the element over the report buffer
\* before the warning or notice is appended.
callback_error(Z, cmd, name, ans) ==
    CASE ans = "ACK" /\ cmd = "CREATE" ->
            Ok([Z EXCEPT !.cache = Cache!dset_cache_add(@, name)])
      [] ans = "ACK" /\ cmd = "DESTROY" ->
            Ok([Z EXCEPT !.cache = Cache!dset_cache_del(@, name)])
      [] ans = "ACK" /\ cmd = "TEST" ->
            Ok(IF Z.quiet THEN Z
               ELSE dset_warn([Z EXCEPT !.report = <<>>], [k |-> "in_set"]))
      [] ans = "ACK" -> Ok(Z)
      [] cmd = "TEST" /\ ans = "ERR_EXIST" ->
            Fail(IF Z.quiet THEN Z
                 ELSE dset_notice([Z EXCEPT !.report = <<>>], [k |-> "not_in_set"]))
      [] OTHER -> decode_errmsg(Z, cmd, ans)

\* dset_commit: the query failed with nothing in the report.
dset_commit(R) ==
    IF R.ret < 0 /\ R.z.report = <<>>
    THEN Fail(dset_err(R.z, [k |-> "internal"])) ELSE R

\* dset_cmd for a public command outside restore mode: the protocol
\* check, the message built, the type saved for error decoding, the
\* commit and its answer, and the data blob reset at cleanup.
dset_cmd(Z, cmd, name, type, ans) ==
    LET P == CheckProtocol(Z, cmd)
        S == [P.z EXCEPT !.saved_type = (type # NoType),
                         !.sent = @ \cup {[cmd |-> cmd, protocol |-> P.z.protocol,
                                           rev |-> type]}]
        C == dset_commit(callback_error(S, cmd, name, ans))
    IN IF P.ret < 0 THEN Fail(P.z)
       ELSE [C EXCEPT !.z = dset_data_reset(@)]

-----------------------------------------------------------------------------
(* The CLI's error handlers, dset.c.  Each returns [z, exit] with exit   *)
(* Running when the process goes on, else the process's exit status.       *)

ToStderr(Z, sev, msgs) == [Z EXCEPT !.out = Append(@, [sev |-> sev, msgs |-> msgs])]

\* Mutant: interactive mode goes on without emptying the report.
DefaultCustomErrorNoReset(Z, st, msgs) ==
    LET quiet == ~interactive /\ Z.quiet
        P == IF st # NO_PROBLEM /\ msgs # <<>> /\ ~quiet
             THEN ToStderr(Z, ERROR, msgs) ELSE Z
    IN IF st # NO_PROBLEM /\ interactive
       THEN [z |-> P, exit |-> Running]
       ELSE [z |-> P, exit |-> IF st > VERSION_PROBLEM THEN OTHER_PROBLEM ELSE st]

\* default_custom_error: print unless quiet in batch mode; in interactive
\* mode an error empties the report and the session goes on; otherwise
\* the process exits, statuses above VERSION_PROBLEM as OTHER_PROBLEM.
default_custom_error(Z, st, msgs) ==
    LET quiet == ~interactive /\ Z.quiet
        P == IF st # NO_PROBLEM /\ msgs # <<>> /\ ~quiet
             THEN ToStderr(Z, ERROR, msgs) ELSE Z
    IN IF st # NO_PROBLEM /\ interactive
       THEN [z |-> dset_session_report_reset(P), exit |-> Running]
       ELSE [z |-> P, exit |-> IF st > VERSION_PROBLEM THEN OTHER_PROBLEM ELSE st]

\* Mutant: batch mode exits successfully after a notice too.
DefaultStandardErrorNoticeOk(Z) ==
    LET t == Z.err_type
        P == IF t \in {WARNING, NOTICE} /\ ~Z.quiet THEN ToStderr(Z, t, Z.report) ELSE Z
        H == [P EXCEPT !.handled = Append(@, [t |-> t, peak |-> Z.peak, msgs |-> Z.report])]
    IN IF t = ERROR THEN default_custom_error(H, SESSION_PROBLEM, Z.report)
       ELSE IF ~interactive
            THEN [z |-> H, exit |-> IF t <= NOTICE THEN NO_PROBLEM ELSE OTHER_PROBLEM]
       ELSE [z |-> dset_session_report_reset(H), exit |-> Running]

\* default_standard_error: warnings and notices are printed unless quiet,
\* an error goes to custom_error as a session problem; batch mode exits,
\* successfully for at most a warning; interactive mode empties the report.
default_standard_error(Z) ==
    LET t == Z.err_type
        P == IF t \in {WARNING, NOTICE} /\ ~Z.quiet THEN ToStderr(Z, t, Z.report) ELSE Z
        H == [P EXCEPT !.handled = Append(@, [t |-> t, peak |-> Z.peak, msgs |-> Z.report])]
    IN IF t = ERROR THEN default_custom_error(H, SESSION_PROBLEM, Z.report)
       ELSE IF ~interactive
            THEN [z |-> H, exit |-> IF t <= WARNING THEN NO_PROBLEM ELSE OTHER_PROBLEM]
       ELSE [z |-> dset_session_report_reset(H), exit |-> Running]

\* The tail of dset_parse_argv: a failed step, or a report left by a
\* successful one, goes to standard_error; otherwise main returns 0 in
\* batch mode.  Every early "return dset->standard_error()" of a failed
\* step comes here with ret < 0.
Conclude(R) ==
    IF R.ret < 0 \/ R.z.err_type > NO_ERROR THEN default_standard_error(R.z)
    ELSE [z |-> R.z, exit |-> IF interactive THEN Running ELSE NO_PROBLEM]

-----------------------------------------------------------------------------
(* Command lines.  q is a -quiet on the line: envopts persist for the     *)
(* rest of the session, since "reset" is not an option dset_envopt_parse  *)
(* knows.                                                                 *)

FreshLine(Z, q) ==
    [Z EXCEPT !.quiet = @ \/ q, !.sent = {}, !.handled = <<>>, !.refusal = NoRefusal]

RunLine(L) ==
    /\ ses' = L.z
    /\ status' = L.exit
    /\ lines' = lines + 1
    /\ UNCHANGED <<kproto, ktype, interactive>>

CanRead == status = Running /\ lines < MaxLines

\* "create NAME hash:domain [opts]": setname and typename parse, the type
\* is looked up, the create options parsed (only the ignored ones change
\* state), then the CREATE command.
CreateLine(name, opts, ans, q) ==
    LET Z == FreshLine(ses, q)
        T == create_type_get(Z)
        O == FoldLeft(dset_parse_ignored, T.z, opts)
    IN IF T.type = NoType THEN Conclude(Fail(T.z))
       ELSE Conclude(dset_cmd(O, "CREATE", name, T.type, ans))

\* "add NAME ELEM" and "test NAME ELEM": setname, type lookup, element,
\* then the command.
AdtLine(cmd, name, hdr, ans, q) ==
    LET Z == FreshLine(ses, q)
        T == adt_type_get(Z, name, hdr)
    IN IF T.type = NoType THEN Conclude(Fail(T.z))
       ELSE Conclude(dset_cmd(T.z, cmd, name, T.type, ans))

\* "destroy [NAME]"
DestroyLine(name, ans, q) ==
    Conclude(dset_cmd(FreshLine(ses, q), "DESTROY", name, NoType, ans))

\* "version": dset_cmd(NONE) checks the protocol only; a report goes to
\* standard_error; batch mode then exits through custom_error(NO_PROBLEM).
VersionLine(q) ==
    LET P == CheckProtocol(FreshLine(ses, q), "NONE")
        S == IF P.z.err_type # NO_ERROR THEN default_standard_error(P.z)
             ELSE [z |-> P.z, exit |-> Running]
    IN IF S.exit # Running \/ interactive THEN S
       ELSE default_custom_error(S.z, NO_PROBLEM, <<>>)

\* "quit", or the end of the interactive input: custom_error(NO_PROBLEM).
QuitLine == default_custom_error(ses, NO_PROBLEM, <<>>)

-----------------------------------------------------------------------------
Windows(S) == {w \in S \X S : w[1] <= w[2]}
OptLines == UNION {[1..n -> IgnoredOpts] : n \in 0..MaxOpts}
Answers == {"ACK"} \cup KernelErrnos
\* The HEADER answer: the set is missing, or it exists at a revision the
\* kernel's type module supports.
HeaderAnswers ==
    {Refused("ENOENT")}
      \cup (IF ktype = NoTypeModule THEN {} ELSE {Answered(r) : r \in ktype[1]..ktype[2]})

Init ==
    /\ kproto \in Windows(KernelProtos)
    /\ ktype \in {NoTypeModule} \cup Windows(KernelRevs)
    /\ interactive \in BOOLEAN
    /\ ses \in {[err_type |-> NO_ERROR, report |-> <<>>, peak |-> NO_ERROR,
                 ignored |-> {}, version_checked |-> FALSE, protocol |-> ProtoMax,
                 kernel_check |-> "unknown", cache |-> <<>>, saved_type |-> FALSE,
                 quiet |-> q, out |-> <<>>, sent |-> {}, handled |-> <<>>,
                 refusal |-> NoRefusal] : q \in BOOLEAN}
    /\ status = Running
    /\ lines = 0

Create ==
    /\ CanRead
    /\ \E name \in Names, opts \in OptLines, ans \in Answers, q \in BOOLEAN :
          RunLine(CreateLine(name, opts, ans, q))

Add ==
    /\ CanRead
    /\ \E name \in Names, hdr \in HeaderAnswers, ans \in Answers, q \in BOOLEAN :
          RunLine(AdtLine("ADD", name, hdr, ans, q))

Test ==
    /\ CanRead
    /\ \E name \in Names, hdr \in HeaderAnswers, ans \in Answers, q \in BOOLEAN :
          RunLine(AdtLine("TEST", name, hdr, ans, q))

Destroy ==
    /\ CanRead
    /\ \E name \in Names \cup {NoSet}, ans \in Answers, q \in BOOLEAN :
          RunLine(DestroyLine(name, ans, q))

Version ==
    /\ CanRead
    /\ \E q \in BOOLEAN : RunLine(VersionLine(q))

Quit ==
    /\ status = Running
    /\ RunLine(QuitLine)

Next == Create \/ Add \/ Test \/ Destroy \/ Version \/ Quit

\* No fairness: every step is a line the user types.
Spec == Init /\ [][Next]_vars

-----------------------------------------------------------------------------
(* Properties *)

TypeOK ==
    /\ kproto \in Windows(KernelProtos)
    /\ ktype \in {NoTypeModule} \cup Windows(KernelRevs)
    /\ interactive \in BOOLEAN
    /\ ses \in SessionType
    /\ status \in {Running} \cup (NO_PROBLEM..SESSION_PROBLEM)
    /\ lines \in 0..(MaxLines + 1)

\* The error translator as spec.md section 4.6 states it: for an errno at
\* or above the private base and a hash-family saved type the overlay is
\* tried first, then the core table; a command-specific row beats a
\* generic one; unknown private errnos are undecoded, system errnos get
\* their strerror text.
MatchingRows(t, cmd, code) ==
    {i \in DOMAIN ErrcodeTable(t) :
        ErrcodeTable(t)[i].code = code /\ ErrcodeTable(t)[i].cmd \in {cmd, "NONE"}}

BestRow(t, cmd, code) ==
    LET R == MatchingRows(t, cmd, code)
        S == {i \in R : ErrcodeTable(t)[i].cmd = cmd}
    IN CHOOSE i \in (IF S # {} THEN S ELSE R) : TRUE

Translation(cmd, code, hash_typed) ==
    LET order == IF hash_typed /\ code \notin SystemErrnos
                 THEN <<"hash", "core">> ELSE <<"core">>
        found == {j \in DOMAIN order : MatchingRows(order[j], cmd, code) # {}}
        j == IF 1 \in found THEN 1 ELSE 2
    IN IF found # {} THEN [k |-> "table", t |-> order[j], i |-> BestRow(order[j], cmd, code)]
       ELSE IF code \in SystemErrnos THEN [k |-> "strerror", e |-> code]
       ELSE [k |-> "undecoded", e |-> code]

\* When the kernel refuses a command with an errno (callback_error's
\* decode_errmsg path), the report the error handler gets is exactly the
\* section 4.6 translation of that errno for that command, whatever the
\* warnings reported before it on the line.
ErrorShownIsTranslation ==
    ses.refusal # NoRefusal =>
        \E i \in DOMAIN ses.handled :
            /\ ses.handled[i].t = ERROR
            /\ ses.handled[i].msgs =
                 <<Translation(ses.refusal.cmd, ses.refusal.code,
                               ses.refusal.cmd \in {"CREATE", "ADD", "TEST"})>>

\* A lower-severity report never overwrites a higher one (spec.md section
\* 7): whenever default_standard_error looks at the report, its type is
\* the highest severity reported since the buffer was last emptied, so
\* an error cannot pass for a warning.  dset_session_report stores the
\* new type unconditionally, so this rests on every command's order of
\* reports and on the handlers emptying the buffer between lines.
ReportKeepsHighest ==
    \A i \in DOMAIN ses.handled : ses.handled[i].t = ses.handled[i].peak

\* No public message reaches the kernel before the protocol handshake has
\* succeeded, and each carries the protocol the session adopted: the
\* lower of the two maxima, inside both windows (dset_cmd, callback_version).
AgreedProtocolOnly ==
    \A m \in ses.sent :
        /\ kproto[1] <= ProtoMax /\ ProtoMin <= kproto[2]
        /\ m.protocol = IF kproto[2] < ProtoMax THEN kproto[2] ELSE ProtoMax

\* Every CREATE, ADD or TEST sent names a type revision the kernel's type
\* module supports: create_type_get's window check, adt_type_get's HEADER
\* match and the cache between them never let another through.
SentRevisionSupported ==
    \A m \in ses.sent :
        m.cmd \in {"CREATE", "ADD", "TEST"} =>
            /\ ktype # NoTypeModule
            /\ ktype[1] <= m.rev /\ m.rev <= ktype[2]

\* In batch mode the process succeeds exactly when nothing worse than a
\* warning was reported (spec.md section 7: warnings exit success, notices
\* and errors exit failure), default_standard_error's exit status.
ExitBySeverity ==
    (~interactive /\ status # Running) =>
        (status = NO_PROBLEM <=> \A i \in DOMAIN ses.handled : ses.handled[i].t <= WARNING)

\* "Internal protocol error" is never shown while the kernel answers every
\* query (dset_commit reports it for a failed query with an empty report).
InternalErrorNeverShown ==
    \A i \in DOMAIN ses.out : [k |-> "internal"] \notin Range(ses.out[i].msgs)

=============================================================================
