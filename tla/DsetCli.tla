------------------------------- MODULE DsetCli -------------------------------
(***************************************************************************)
(* The dset program from main to exit: main loads the set types           *)
(* (dset_load_types, the registry of TypeRegistry), creates the library    *)
(* handle and hands its argv to dset_parse_argv, which may run one         *)
(* command, start the interactive loop on "-", or start a restore that    *)
(* reads a stream line by line (dset_parse_stream, dset_parse_line,        *)
(* build_argv).  Modelled here is the front end of dset_parse_argv: the    *)
(* environment-option pass, command recognition, the argument counts, the *)
(* restore-mode and interactive-mode checks, help's type lookup, the       *)
(* -file handling with dset_session_io_normal, and the exits of the        *)
(* default error handlers.  The kernel side of a command (dset_cmd) is     *)
(* modelled in DsetRestore, DsetList and DsetReport; here it succeeds.     *)
(*                                                                         *)
(* Words and lines are TLA+ strings, taken apart with SubSeq, because the *)
(* properties are about how they are split and matched.  The C argv array *)
(* is a sequence whose first element is argv[0].                           *)
(***************************************************************************)
EXTENDS Integers, Sequences, SequencesExt, FiniteSets

CONSTANTS
    Names, LongNames, Revisions, MaxCalls, AscendingLoad,   \* TypeRegistry
    Aliases,    \* type name -> the aliases its descriptors carry
    OsArgs,     \* words main's argv may carry after argv[0]
    Lines,      \* lines standard input or a restore file may deliver
    Existing,   \* file names that can be opened for reading
    MAX_ARGS,   \* length of the argv arrays (MAX_ARGS of dset.c)
    MaxOsArgc,  \* bound on main's argc
    MaxLines    \* bound on the number of lines read

ASSUME MAX_ARGS >= 3 /\ MaxOsArgc >= 1 /\ MaxLines \in Nat

VARIABLES
    typelist, ret, calls,   \* the type registry (TypeRegistry)
    proc,        \* the process: see Proc below
    nlines,      \* lines read so far
    last         \* what the last dset_parse_argv saw and did

cli == <<proc, nlines, last>>
vars == <<typelist, ret, calls, cli>>

R == INSTANCE TypeRegistry

Prog == "dset"
NoFile == [name |-> "", owner |-> "none", live |-> FALSE]
NoDesc == [name |-> "", revision |-> -1]
NoTok == "(none)"

\* enum dset_cmd_result / custom_error statuses
NO_PROBLEM == 0
OTHER_PROBLEM == 1
PARAMETER_PROBLEM == 2
VERSION_PROBLEM == 3
SESSION_PROBLEM == 4

-----------------------------------------------------------------------------
(* The command and environment-option tables (dset.c 53-169, 230-295).   *)
dset_commands == <<
    [cmd |-> "CREATE",  name |-> <<"create", "new", "-N">>,  has_arg |-> "MANDATORY_ARG2"],
    [cmd |-> "ADD",     name |-> <<"add", "-A">>,            has_arg |-> "MANDATORY_ARG2"],
    [cmd |-> "DEL",     name |-> <<"del", "-D">>,            has_arg |-> "MANDATORY_ARG2"],
    [cmd |-> "TEST",    name |-> <<"test", "-T">>,           has_arg |-> "MANDATORY_ARG2"],
    [cmd |-> "DESTROY", name |-> <<"destroy", "x", "-X">>,   has_arg |-> "OPTIONAL_ARG"],
    [cmd |-> "LIST",    name |-> <<"list", "-L">>,           has_arg |-> "OPTIONAL_ARG"],
    [cmd |-> "SAVE",    name |-> <<"save", "-S">>,           has_arg |-> "OPTIONAL_ARG"],
    [cmd |-> "RESTORE", name |-> <<"restore", "-R">>,        has_arg |-> "NO_ARG"],
    [cmd |-> "FLUSH",   name |-> <<"flush", "-F">>,          has_arg |-> "OPTIONAL_ARG"],
    [cmd |-> "RENAME",  name |-> <<"rename", "e", "-E">>,    has_arg |-> "MANDATORY_ARG2"],
    [cmd |-> "SWAP",    name |-> <<"swap", "w", "-W">>,      has_arg |-> "MANDATORY_ARG2"],
    [cmd |-> "HELP",    name |-> <<"help", "-h", "-H">>,     has_arg |-> "OPTIONAL_ARG"],
    [cmd |-> "VERSION", name |-> <<"version", "-v", "-V">>,  has_arg |-> "NO_ARG"],
    [cmd |-> "QUIT",    name |-> <<"quit">>,                 has_arg |-> "NO_ARG"] >>

dset_envopts == <<
    [name |-> <<"-o", "-output">>, has_arg |-> "MANDATORY_ARG", parse |-> "output",   flag |-> "OPT_MAX"],
    [name |-> <<"-s", "-sorted">>, has_arg |-> "NO_ARG",        parse |-> "envopt",   flag |-> "SORTED"],
    [name |-> <<"-q", "-quiet">>,  has_arg |-> "NO_ARG",        parse |-> "envopt",   flag |-> "QUIET"],
    [name |-> <<"-!", "-exist">>,  has_arg |-> "NO_ARG",        parse |-> "envopt",   flag |-> "EXIST"],
    [name |-> <<"-n", "-name">>,   has_arg |-> "NO_ARG",        parse |-> "envopt",   flag |-> "LIST_SETNAME"],
    [name |-> <<"-t", "-terse">>,  has_arg |-> "NO_ARG",        parse |-> "envopt",   flag |-> "LIST_HEADER"],
    [name |-> <<"-f", "-file">>,   has_arg |-> "MANDATORY_ARG", parse |-> "filename", flag |-> "OPT_MAX"] >>

EnvFlags == {"SORTED", "QUIET", "EXIST", "LIST_SETNAME", "LIST_HEADER"}
OutModes == {"plain", "xml", "save"}
Cmds == {dset_commands[k].cmd : k \in 1..Len(dset_commands)}

(* Mutant: the lone "-" is not set apart, so it prefixes "-N".            *)
MatchCmdNoDash(arg, name) ==
    LET skip == IF IsPrefix("--", arg) THEN 2 ELSE 0
    IN /\ Len(arg) > skip
       /\ \E i \in 1..Len(name) : IsPrefix(SubSeq(arg, skip + 1, Len(arg)), name[i])

(* dset_match_cmd: two leading dashes are ignored, a lone "-" or "--"     *)
(* matches nothing, and the rest matches when it is a prefix of one of    *)
(* the names (STRNEQ over the argument's length).                         *)
dset_match_cmd(arg, name) ==
    LET skip == IF IsPrefix("--", arg) THEN 2 ELSE 0
    IN /\ ~(Len(arg) <= skip \/ arg = "-")
       /\ \E i \in 1..Len(name) : IsPrefix(SubSeq(arg, skip + 1, Len(arg)), name[i])

(* dset_match_envopt: one leading dash of "--" is ignored, then the word  *)
(* must equal one of the two names.                                       *)
dset_match_envopt(arg, name) ==
    LET a == IF IsPrefix("--", arg) THEN SubSeq(arg, 2, Len(arg)) ELSE arg
    IN a = name[1] \/ a = name[2]

(* The command loop of dset_parse_argv: the first table entry that        *)
(* matches, 0 when none does.                                              *)
RECURSIVE CmdScan(_, _)
CmdScan(tok, k) ==
    IF k > Len(dset_commands) THEN 0
    ELSE IF dset_match_cmd(tok, dset_commands[k].name) THEN k
    ELSE CmdScan(tok, k + 1)

-----------------------------------------------------------------------------
(* build_argv: the line is cut at unquoted blanks, a '"' toggles quoting  *)
(* and is dropped, empty arguments are skipped.  Before every character   *)
(* the argv is checked for room; at the last character an open quote is   *)
(* an error -- but only on the paths that reach the check: a quoted blank  *)
(* as the last character "continue"s out of the loop with its argument.   *)
Blank == {" ", "\r", "\n", "\t"}
Ch(b, i) == SubSeq(b, i, i)

Store(st, more) ==
    IF ~more /\ st.quoted THEN [st EXCEPT !.err = "quote"]
    ELSE IF st.arg = "" THEN st
    ELSE [st EXCEPT !.args = Append(@, st.arg), !.arg = ""]

(* Mutant: a quoted blank ends the argument like an unquoted one.         *)
BuildCharSplitQuoted(st, c, more) ==
    CASE c = "\"" -> IF more THEN [st EXCEPT !.quoted = ~@]
                     ELSE Store([st EXCEPT !.quoted = ~@], more)
      [] c \in Blank -> Store(st, more)
      [] OTHER -> IF more THEN [st EXCEPT !.arg = @ \o c]
                  ELSE Store([st EXCEPT !.arg = @ \o c], more)

BuildChar(st, c, more) ==
    CASE c = "\"" -> IF more THEN [st EXCEPT !.quoted = ~@]
                     ELSE Store([st EXCEPT !.quoted = ~@], more)
      [] c \in Blank -> IF st.quoted THEN [st EXCEPT !.arg = @ \o c]
                        ELSE Store(st, more)
      [] OTHER -> IF more THEN [st EXCEPT !.arg = @ \o c]
                  ELSE Store([st EXCEPT !.arg = @ \o c], more)

RECURSIVE BuildFrom(_, _, _)
BuildFrom(b, i, st) ==
    IF i > Len(b) \/ st.err # "none" THEN st
    ELSE IF Len(st.args) + 2 = MAX_ARGS THEN [st EXCEPT !.err = "too_long"]
    ELSE BuildFrom(b, i + 1, BuildChar(st, Ch(b, i), i < Len(b)))

build_argv(b) ==
    BuildFrom(b, 1, [args |-> <<>>, arg |-> "", quoted |-> FALSE, err |-> "none"])

(* The leading blanks dset_parse_line and dset_parse_stream skip.         *)
RECURSIVE Trim(_)
Trim(b) == IF b # "" /\ Ch(b, 1) \in Blank THEN Trim(SubSeq(b, 2, Len(b))) ELSE b

IsComment(b) == Trim(b) = "" \/ Ch(Trim(b), 1) = "#"

-----------------------------------------------------------------------------
(* The tokens spec 4.5 asks of a line: cut at the blanks that are outside *)
(* quotes, quote characters removed, empty pieces dropped.                 *)
IsQuote(b, i) == Ch(b, i) = "\""
InQuotes(b, i) == Cardinality({j \in 1..(i - 1) : IsQuote(b, j)}) % 2 = 1
Balanced(b) == Cardinality({j \in 1..Len(b) : IsQuote(b, j)}) % 2 = 0

RECURSIVE DropQuotes(_)
DropQuotes(p) ==
    IF p = "" THEN ""
    ELSE (IF IsQuote(p, 1) THEN "" ELSE Ch(p, 1)) \o DropQuotes(SubSeq(p, 2, Len(p)))

RefTokens(b) ==
    LET cuts == SetToSortSeq({0, Len(b) + 1} \cup
                             {i \in 1..Len(b) : Ch(b, i) \in Blank /\ ~InQuotes(b, i)},
                             LAMBDA x, y : x < y)
        pieces == [k \in 1..(Len(cuts) - 1) |->
                     DropQuotes(SubSeq(b, cuts[k] + 1, cuts[k + 1] - 1))]
    IN SelectSeq(pieces, LAMBDA t : t # "")

-----------------------------------------------------------------------------
(* The process state a dset_parse_argv call reads and writes:            *)
(*   phase        "load", "argv", "stream", "interactive", "exited"       *)
(*   interactive  dset->interactive                                        *)
(*   restore_line dset->restore_line                                       *)
(*   envopts      session->envopts;  outmode  session->mode                *)
(*   filename     dset->filename, and whether the string it points to     *)
(*                is still allocated                                       *)
(*   istream, ostream  session->istream/ostream: "stdin"/"stdout" or the  *)
(*                name of the file opened                                  *)
(*   reading      the FILE dset_parse_stream reads: "stdin", "open",      *)
(*                "closed"                                                 *)
(*   exitcode     the process's exit status, once exited                   *)
(*   ub           undefined behaviour met, by kind                         *)
Cur == proc

SetCli(z) == proc' = z

SIGSEGV_STATUS == 139   \* what the shell reports for a crashed process

Exit(z, status) == [z EXCEPT !.phase = "exited", !.exitcode = status]

(* default_custom_error: in interactive mode a failure is ignored (the    *)
(* report is reset and -1 returned); otherwise, and for status 0 always,  *)
(* dset_fini and exit, statuses above VERSION_PROBLEM becoming 1.          *)
CustomError(z, status) ==
    IF status # NO_PROBLEM /\ z.interactive THEN z
    ELSE Exit(z, IF status > VERSION_PROBLEM THEN OTHER_PROBLEM ELSE status)

(* reset_argv frees the strings of the last line; dset->filename may      *)
(* point into one of them.                                                 *)
reset_argv(z) ==
    IF z.filename.owner = "line" THEN [z EXCEPT !.filename.live = FALSE] ELSE z

(* dset_session_io_normal with dset->filename: the streams that are not  *)
(* stdin/stdout are closed -- the one dset_parse_stream reads included -- *)
(* and the file is opened.  Opening for writing is taken to succeed.       *)
IoClosed(z) ==
    [z EXCEPT !.istream = "stdin", !.ostream = "stdout",
              !.reading = IF z.istream # "stdin" THEN "closed" ELSE @,
              !.ub = IF z.filename.live THEN @ ELSE @ \cup {"dangling_filename"}]

IoOpen(y, what, name) ==
    CASE what = "OUTPUT" -> [ok |-> TRUE, z |-> [y EXCEPT !.ostream = name]]
      [] name \in Existing -> [ok |-> TRUE, z |-> [y EXCEPT !.istream = name]]
      [] OTHER -> [ok |-> FALSE, z |-> y]

dset_session_io_normal(z, what) == IoOpen(IoClosed(z), what, z.filename.name)

(* dset_shift_argv(&argc, argv, i): argv[i] is dropped, argv[argc] is    *)
(* read, which lies past the array when argc is MAX_ARGS.                  *)
Shift(s, i) ==
    [s EXCEPT !.argv = RemoveAt(@, i + 1), !.oob = @ \/ Len(s.argv) >= MAX_ARGS]

(* dset_parse_output, dset_envopt_parse and dset_parse_filename.  A       *)
(* second -file is refused whether or not the first one is still valid.   *)
ParseEnvopt(s, opt, val, owner) ==
    CASE opt.parse = "output" ->
            IF val \in OutModes THEN [s EXCEPT !.z.outmode = val]
            ELSE [s EXCEPT !.err = SESSION_PROBLEM]
      [] opt.parse = "filename" ->
            IF s.z.filename # NoFile THEN [s EXCEPT !.err = PARAMETER_PROBLEM]
            ELSE [s EXCEPT !.z.filename = [name |-> val, owner |-> owner, live |-> TRUE]]
      [] OTHER -> [s EXCEPT !.z.envopts = @ \cup {opt.flag}]

(* A matched option, already shifted out: its parser runs on the option  *)
(* name or on the value that follows, which is shifted out in turn.       *)
EnvValue(v, i) == IF v.err # 0 THEN v ELSE Shift(v, i)

EnvMatched(t, opt, i, owner) ==
    CASE opt.has_arg = "NO_ARG" -> ParseEnvopt(t, opt, opt.name[1], owner)
      [] i + 1 > Len(t.argv) -> [t EXCEPT !.err = PARAMETER_PROBLEM]
      [] OTHER -> EnvValue(ParseEnvopt(t, opt, t.argv[i + 1], owner), i)

(* The first pass of dset_parse_argv: for every environment option, in   *)
(* table order, every argument from argv[1] on that names it is shifted   *)
(* out, with its value when it takes one.                                  *)
RECURSIVE EnvLoop(_, _, _, _)
EnvLoop(s, o, i, owner) ==
    IF s.err # 0 \/ o > Len(dset_envopts) THEN s
    ELSE IF i >= Len(s.argv) THEN EnvLoop(s, o + 1, 1, owner)
    ELSE IF ~dset_match_envopt(s.argv[i + 1], dset_envopts[o].name)
         THEN EnvLoop(s, o, i + 1, owner)
    ELSE EnvLoop(EnvMatched(Shift(s, i), dset_envopts[o], i, owner), o, i, owner)

(* The second pass: the first command argv[1] matches; restore, version  *)
(* and help are refused on restore lines, restore is skipped in           *)
(* interactive mode, then the command's arguments are shifted off.        *)
ShiftArg(t) == IF Len(t.argv) >= 2 THEN Shift(t, 1) ELSE t
Arg0(t) == IF Len(t.argv) >= 2 THEN t.argv[2] ELSE NoTok

CmdArgs(s, c, t) ==
    CASE s.z.restore_line # 0 /\ c.cmd \in {"RESTORE", "VERSION", "HELP"} ->
            [s EXCEPT !.cmd = c.cmd, !.err = PARAMETER_PROBLEM]
      [] s.z.interactive /\ c.cmd = "RESTORE" -> [s EXCEPT !.cmd = c.cmd, !.early = TRUE]
      [] c.has_arg = "NO_ARG" -> [t EXCEPT !.cmd = c.cmd]
      [] c.has_arg = "MANDATORY_ARG2" /\ (Len(t.argv) < 2 \/ Len(ShiftArg(t).argv) < 2) ->
            [t EXCEPT !.cmd = c.cmd, !.err = PARAMETER_PROBLEM]
      [] c.has_arg = "MANDATORY_ARG2" ->
            [Shift(ShiftArg(t), 1) EXCEPT !.cmd = c.cmd, !.arg0 = Arg0(t)]
      [] OTHER -> [ShiftArg(t) EXCEPT !.cmd = c.cmd, !.arg0 = Arg0(t)]

CmdFound(s, k) == IF k = 0 THEN s ELSE CmdArgs(s, dset_commands[k], Shift(s, 1))

CmdPass(s) == IF Len(s.argv) > 1 THEN CmdFound(s, CmdScan(s.argv[2], 1)) ELSE s

(* dset_match_typename: the name or one of the aliases of the type.       *)
dset_match_typename(name, d) == name = d.name \/ name \in Aliases[d.name]

(* Mutant: the last matching descriptor of the list is taken.             *)
TypeFindLast(l, name) ==
    LET m == {i \in 1..Len(l) : dset_match_typename(name, l[i])}
    IN IF m = {} THEN 0 ELSE CHOOSE i \in m : \A j \in m : j <= i

(* type_find: the first descriptor of the registry, head first, that     *)
(* matches; 0 when none does.                                              *)
RECURSIVE TypeFindFrom(_, _, _)
TypeFindFrom(l, name, i) ==
    IF i > Len(l) THEN 0
    ELSE IF dset_match_typename(name, l[i]) THEN i
    ELSE TypeFindFrom(l, name, i + 1)

type_find(l, name) == TypeFindFrom(l, name, 1)

Done(z) == [z |-> z, shown |-> NoDesc, rc |-> 0]

(* The third pass: no command (the interactive loop on "-"), version,    *)
(* help with its type lookup, quit.                                        *)
(* A command done outside the interactive loop ends the program.        *)
Over(z) == IF z.interactive THEN z ELSE Exit(z, NO_PROBLEM)

(* help TYPE: the type found, or an error when no type has the name.     *)
HelpType(z, j) ==
    IF j = 0 THEN Done(CustomError(z, PARAMETER_PROBLEM))
    ELSE [z |-> Over(z), shown |-> typelist[j], rc |-> 0]

ThirdPass(s) ==
    CASE s.cmd = "NONE" /\ s.z.interactive -> Done(s.z)
      [] s.cmd = "NONE" /\ Len(s.argv) > 1 /\ s.argv[2] = "-" ->
            Done([s.z EXCEPT !.interactive = TRUE, !.phase = "interactive"])
      [] s.cmd = "NONE" -> Done(CustomError(s.z, PARAMETER_PROBLEM))
      [] s.cmd = "VERSION" -> Done(Over(s.z))
      [] s.cmd = "HELP" /\ (s.z.interactive \/ "QUIET" \notin s.z.envopts)
                       /\ s.arg0 # NoTok ->
            HelpType(s.z, type_find(typelist, s.arg0))
      [] s.cmd = "HELP" -> Done(Over(s.z))
      [] s.cmd = "QUIT" -> Done(Exit(s.z, NO_PROBLEM))

(* restore(): with -file the input is opened (dset_session_io_normal     *)
(* closes and replaces the session streams) and dset_parse_stream reads   *)
(* it, otherwise standard input.  A failed open returns -1, unreported.   *)
(* Mutant: the result of dset_session_io_normal is not checked, and the   *)
(* stream loop runs on whatever the session stream is.                     *)
RestoreOpenedUnchecked(inp) ==
    Done([inp.z EXCEPT !.phase = "stream", !.reading = "open"])

RestoreOpened(inp) ==
    IF inp.ok THEN Done([inp.z EXCEPT !.phase = "stream", !.reading = "open"])
    ELSE [z |-> inp.z, shown |-> NoDesc, rc |-> -1]

restore(z) ==
    IF z.filename = NoFile THEN Done([z EXCEPT !.phase = "stream"])
    ELSE RestoreOpened(dset_session_io_normal(z, "INPUT"))

(* The fourth pass and dset_cmd: list and save open -file for writing,   *)
(* restore runs, and any argument left over is refused.  The arguments of *)
(* create and the ADT commands go to call_parser and the command to       *)
(* dset_cmd, both taken to succeed (DsetRestore, DsetReport).             *)
(* Arguments left over are refused.                                      *)
Leftover(s, z) == IF Len(s.argv) > 1 THEN CustomError(z, PARAMETER_PROBLEM) ELSE z

FourthPass(s) ==
    CASE s.cmd \in {"LIST", "SAVE"} /\ s.z.filename # NoFile ->
            Done(Leftover(s, dset_session_io_normal(s.z, "OUTPUT").z))
      [] s.cmd = "RESTORE" /\ Len(s.argv) > 1 -> Done(CustomError(s.z, PARAMETER_PROBLEM))
      [] s.cmd = "RESTORE" -> restore(s.z)
      [] s.cmd \in {"CREATE", "ADD", "DEL", "TEST"} -> Done(s.z)
      [] OTHER -> Done(Leftover(s, s.z))

(* The state after the first two passes, a read past argv[argc] marked.  *)
Marked(c) == [c EXCEPT !.z.ub = IF c.oob THEN @ \cup {"argv_overread"} ELSE @]

(* Errors of the first passes are reported; the rest goes to the third   *)
(* or the fourth pass.                                                     *)
Finish(s) ==
    CASE s.err # 0 -> Done(CustomError(s.z, s.err))
      [] s.early -> Done(s.z)
      [] s.cmd \in {"NONE", "VERSION", "HELP", "QUIT"} -> ThirdPass(s)
      [] OTHER -> FourthPass(s)

(* The parse: the process after it, the type shown, the return value,    *)
(* the command, its first argument and the command token.                 *)
Result(e, s, f) ==
    [z |-> f.z, shown |-> f.shown, rc |-> f.rc, cmd |-> s.cmd, arg0 |-> s.arg0,
     tok |-> IF e.err = 0 /\ Len(e.argv) > 1 THEN e.argv[2] ELSE NoTok]

Conclude(e, s) == Result(e, s, Finish(s))

ParseResult(e) == Conclude(e, Marked(IF e.err = 0 THEN CmdPass(e) ELSE e))

(* dset_parse_argv.  The memcpy into the local argv[MAX_ARGS] writes past *)
(* it when argc exceeds MAX_ARGS; one outcome of that is the crash.       *)
dset_parse_argv(z, argv, owner) ==
    IF Len(argv) > MAX_ARGS
    THEN [z |-> Exit([z EXCEPT !.ub = @ \cup {"argv_overflow"}], SIGSEGV_STATUS),
          shown |-> NoDesc, rc |-> 0, cmd |-> "NONE", tok |-> NoTok, arg0 |-> NoTok]
    ELSE ParseResult(EnvLoop([argv |-> argv, z |-> z, err |-> 0, oob |-> FALSE,
                              cmd |-> "NONE", arg0 |-> NoTok, early |-> FALSE],
                             1, 1, owner))

-----------------------------------------------------------------------------
Running == -1   \* exitcode before the process exits

NoParse == [src |-> "none", line |-> "", built |-> <<>>, err |-> "none",
            cmd |-> "NONE", tok |-> NoTok, arg0 |-> NoTok, shown |-> NoDesc]

Parsed(r, src, l, b) ==
    [src |-> src, line |-> l, built |-> b.args, err |-> b.err,
     cmd |-> r.cmd, tok |-> r.tok, arg0 |-> r.arg0, shown |-> r.shown]

LineError(l, b) == [NoParse EXCEPT !.src = "line", !.line = l, !.built = b.args, !.err = b.err]

Init ==
    /\ R!Init
    /\ proc = [phase |-> "load", interactive |-> FALSE, restore_line |-> 0,
               envopts |-> {}, outmode |-> "none", filename |-> NoFile,
               istream |-> "stdin", ostream |-> "stdout", reading |-> "stdin",
               exitcode |-> Running, ub |-> {}]
    /\ nlines = 0
    /\ last = NoParse

(* dset_load_types: a set-type module registers its descriptor.           *)
LoadType(d) ==
    /\ proc.phase = "load"
    /\ R!Register(d)
    /\ UNCHANGED cli

(* dset_load_types returns and dset_init creates the handle.              *)
LoadDone ==
    /\ proc.phase = "load"
    /\ SetCli([Cur EXCEPT !.phase = "argv"])
    /\ UNCHANGED <<typelist, ret, calls, nlines, last>>

MainStep(r) ==
    /\ SetCli(IF r.z.phase = "argv" THEN Exit(r.z, r.rc % 256) ELSE r.z)
    /\ last' = Parsed(r, "os", "", [args |-> <<>>, err |-> "none"])

(* main: dset_parse_argv on the process's argc/argv; if it returns, main  *)
(* returns its value, which the process exits with modulo 256.            *)
Main ==
    /\ proc.phase = "argv"
    /\ \E words \in BoundedSeq(OsArgs, MaxOsArgc - 1) :
          MainStep(dset_parse_argv(Cur, <<Prog>> \o words, "os"))
    /\ UNCHANGED <<typelist, ret, calls, nlines>>

(* dset_parse_line on a line built into b: a build error is reported with *)
(* custom_error, otherwise the arguments are parsed.                       *)
LineParsed(l, b, r) == SetCli(r.z) /\ last' = Parsed(r, "line", l, b)

LineStep(l, y, b) ==
    IF b.err # "none"
    THEN SetCli(CustomError(y, PARAMETER_PROBLEM)) /\ last' = LineError(l, b)
    ELSE LineParsed(l, b, dset_parse_argv(y, <<Prog>> \o b.args, "line"))

(* One iteration of the fgets loop of dset_parse_stream: the line number  *)
(* counts, comments and COMMIT lines are handled in place, any other line *)
(* is built (build_argv resets the previous line's argv first) and run.   *)
ReadStreamLine(l) ==
    /\ proc.phase = "stream"
    /\ proc.reading # "closed"
    /\ nlines < MaxLines
    /\ nlines' = nlines + 1
    /\ IF IsComment(l) \/ Trim(l) \in {"COMMIT\n", "COMMIT\r\n"}
       THEN SetCli([Cur EXCEPT !.restore_line = @ + 1]) /\ UNCHANGED last
       ELSE LineStep(l, reset_argv([Cur EXCEPT !.restore_line = @ + 1]), build_argv(Trim(l)))
    /\ UNCHANGED <<typelist, ret, calls>>

(* fgets returns NULL: the implicit COMMIT, then restore returns 0 to     *)
(* main.  A stream closed under the loop is read all the same.            *)
StreamEof ==
    /\ proc.phase = "stream"
    /\ SetCli(Exit([Cur EXCEPT !.ub = IF proc.reading = "closed" THEN @ \cup {"closed_stream"}
                                      ELSE @], NO_PROBLEM))
    /\ UNCHANGED <<typelist, ret, calls, nlines, last>>

(* One iteration of the interactive loop: dset_parse_line.  Its errors   *)
(* are ignored, interactive mode being set.                                *)
ReadInteractiveLine(l) ==
    /\ proc.phase = "interactive"
    /\ nlines < MaxLines
    /\ nlines' = nlines + 1
    /\ IF IsComment(l) THEN SetCli(reset_argv(Cur)) /\ UNCHANGED last
       ELSE LineStep(l, reset_argv(Cur), build_argv(Trim(l)))
    /\ UNCHANGED <<typelist, ret, calls>>

(* End of standard input: custom_error(NO_PROBLEM) exits with 0.          *)
InteractiveEof ==
    /\ proc.phase = "interactive"
    /\ SetCli(Exit(Cur, NO_PROBLEM))
    /\ UNCHANGED <<typelist, ret, calls, nlines, last>>

(* The process has exited.                                                 *)
Terminated ==
    /\ proc.phase = "exited"
    /\ UNCHANGED vars

Next ==
    \/ \E d \in R!Descriptor : LoadType(d)
    \/ LoadDone
    \/ Main
    \/ \E l \in Lines : ReadStreamLine(l)
    \/ StreamEof
    \/ \E l \in Lines : ReadInteractiveLine(l)
    \/ InteractiveEof
    \/ Terminated

Spec == Init /\ [][Next]_vars

-----------------------------------------------------------------------------
Parse == [src : {"none", "os", "line"}, line : STRING, built : Seq(STRING),
          err : {"none", "quote", "too_long"}, cmd : Cmds \cup {"NONE"},
          tok : STRING, arg0 : STRING, shown : R!Descriptor \cup {NoDesc}]

(* The process and its last parse have their types, and the registry     *)
(* has its own.                                                            *)
TypeOK ==
    /\ R!TypeOK
    /\ proc.phase \in {"load", "argv", "stream", "interactive", "exited"}
    /\ proc.interactive \in BOOLEAN /\ proc.restore_line \in 0..MaxLines
    /\ proc.envopts \subseteq EnvFlags /\ proc.outmode \in OutModes \cup {"none"}
    /\ proc.filename \in {NoFile} \cup [name : STRING, owner : {"os", "line"}, live : BOOLEAN]
    /\ proc.reading \in {"stdin", "open", "closed"} /\ nlines \in 0..MaxLines
    /\ (proc.phase = "exited") = (proc.exitcode # Running)
    /\ proc.ub \subseteq {"argv_overflow", "argv_overread", "dangling_filename", "closed_stream"}
    /\ last \in Parse

(* The registry properties of TypeRegistry, on the registry main loads    *)
(* (each name's revisions lowest first, as dset_types_init registers).     *)
DescendingPerName == R!DescendingPerName
DuplicatesRejected == R!DuplicatesRejected
HigherRevIsNext == R!HigherRevIsNext

(* Spec 4.5: `help TYPE' prints the menus of TYPE -- of its highest       *)
(* registered revision, the one create would pick: the descriptor          *)
(* type_find returns matches the name and no registered descriptor of     *)
(* that name or alias has a higher revision.  It rests on dset_type_add   *)
(* keeping each name's revisions in descending order, head first.          *)
HelpShowsHighest ==
    last.shown # NoDesc =>
        /\ dset_match_typename(last.arg0, last.shown)
        /\ \A i \in 1..Len(typelist) :
              dset_match_typename(last.arg0, typelist[i])
                  => typelist[i].revision <= last.shown.revision

(* Spec 4.5 and 8: a command word is recognised by its long form or one   *)
(* of its aliases, or by a prefix of the long form, with a leading "--"   *)
(* stripped.  A word that is exactly a name of one command, or a prefix  *)
(* of that command's names only, selects that command in dset_parse_argv; *)
(* "-" (the interactive marker), "--" and words no name starts with       *)
(* select none.                                                            *)
Stripped(t) == IF IsPrefix("--", t) THEN SubSeq(t, 3, Len(t)) ELSE t
NamesOf(k) == Range(dset_commands[k].name)
NamePrefixed(t, k) == \E n \in NamesOf(k) : IsPrefix(Stripped(t), n)

CommandAsDocumented ==
    last.tok # NoTok =>
        LET t == last.tok
            exact == {k \in 1..Len(dset_commands) : Stripped(t) \in NamesOf(k)}
            only == {k \in 1..Len(dset_commands) :
                       NamePrefixed(t, k) /\ \A j \in 1..Len(dset_commands) \ {k} : ~NamePrefixed(t, j)}
            none == t = "-" \/ Stripped(t) = ""
                    \/ \A k \in 1..Len(dset_commands) : ~NamePrefixed(t, k)
        IN /\ ~none /\ Cardinality(exact \cup only) = 1
                => last.cmd = dset_commands[CHOOSE k \in exact \cup only : TRUE].cmd
           /\ none => last.cmd = "NONE"

(* Spec 4.5: a line is split at blanks outside quotes, the quotes         *)
(* removed.  For every balanced line build_argv turned into an argv, the *)
(* argv holds exactly those tokens (empty ones dropped), and a line it    *)
(* refused as too long has at least MAX_ARGS - 2 tokens, all the          *)
(* newargv of dset.c holds besides argv[0] and its terminating slot.      *)
BalancedLineTokens ==
    last.src = "line" /\ Balanced(last.line) =>
        /\ last.err # "quote"
        /\ last.err = "none" => last.built = RefTokens(last.line)
        /\ last.err = "too_long" => Len(RefTokens(last.line)) >= MAX_ARGS - 2

(* Spec 4.5 and 8: an unbalanced quote is a syntax error -- build_argv    *)
(* must refuse every line whose quotes do not pair up.                    *)
QuoteBalanceChecked ==
    last.src = "line" /\ ~Balanced(last.line) => last.err = "quote"

(* No run of dset reaches undefined behaviour: no argv past MAX_ARGS, no *)
(* use of a freed -file string, no read of a closed stream.               *)
(* Spec, CLI surface (exit code 0 is success): "dset -f FILE restore"    *)
(* run from the shell exits 0 only if FILE was opened.  restore()          *)
(* returns -1 from a failed dset_session_io_normal without calling an      *)
(* error handler, and main must still not turn that into status 0.         *)
FailedRestoreNotSuccess ==
    /\ proc.phase = "exited" /\ proc.exitcode = 0
    /\ last.src = "os" /\ last.cmd = "RESTORE" /\ proc.filename # NoFile
    => proc.filename.name \in Existing

NoUndefinedBehaviour == proc.ub = {}

=============================================================================
