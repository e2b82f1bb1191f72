# TLA+ models of dset

dset is ipset's model applied to *domain sets*. The kernel keeps named sets of
domain names, and userspace drives them through nfnetlink. This directory
holds TLA+ models of the userspace control plane in `src/lib` and `src/src`,
and the TLC configurations that check them.

## The system

- **Command-line front end** (`src/src/dset.c`, `src/lib/dset.c`).
  - `main` loads the set types (`dset_load_types`), creates the handle
    (`dset_init`) and hands its argc/argv to `dset_parse_argv`.
  - `dset_parse_argv` makes four passes: environment options (shifted out,
    `-file` stored in `dset->filename`), the command word (prefix and alias
    matching against `dset_commands`), then `-`/help/version/quit, then the
    command's arguments and `dset_cmd`.
  - A `-` word starts the interactive loop: `dset_parse_line` per line of
    standard input. `restore` runs `dset_parse_stream` on standard input or
    on the `-file`. Both split lines with `build_argv`.
  - `src/src/ui.c` repeats the tables and matchers of `src/lib/dset.c`.
- **Batch driver** (`src/lib/dset.c`).
  - `dset_parse_stream` reads a restore file line by line.
  - Each line moves `restore_line` on, and a blank or `#` line is skipped.
  - A `COMMIT` line commits the send buffer, and EOF does an implicit commit.
  - Any other line goes through `build_argv` and `dset_parse_argv`. That
    parses the command and its arguments (through `call_parser`, `parse.c`
    and `args.c`) and calls `dset_cmd`.
  - Errors go to `default_standard_error`:
    - in batch mode it exits 0 on a warning and 1 on a notice or an error
      (`default_custom_error`);
    - in interactive mode it only resets the report.
- **Session** (`src/lib/session.c`).
  - `dset_cmd` first checks whether the line may join the message being built.
    That is `may_aggregate_ad`: restore mode, ADD or DEL, the same command
    and the same set as the previous line.
  - If it may not, `dset_cmd` commits the pending buffer first.
  - `build_msg` then either starts a new netlink message (`fill_hdr`, setname,
    LINENO, an open ADT nest) or appends one member to the ADT group.
    It returns `BUFFER_FULL` when the page-sized buffer cannot take the member.
    In that case `dset_cmd` commits and rebuilds the line.
  - ADD and DEL lines in restore mode stay buffered. Every other command is
    committed at once.
  - `dset_commit` sends the buffer and resets the nest and saved-setname state.
  - `callback_error` handles the kernel's answer:
    - on an ACK it updates the set-name cache (create adds, destroy deletes,
      rename and swap rename);
    - on an error it decodes the errno and the failing line's LINENO into the
      report.
- **Set-name cache and types** (`src/lib/types.c`).
  - `setlist` is a linked list of the sets this process knows.
  - `adt_type_get` looks a set up in it before it asks the kernel with a
    HEADER query.
  - The only type is `hash:domain` (`dset_hash_domain.c`).
- **Type registry** (`src/lib/types.c`). `dset_type_add` links every
  registered set-type descriptor into `typelist`, each name's revisions
  highest first. `create_type_get` and `adt_type_get` pick a descriptor for a
  command, asking the kernel with private TYPE and HEADER queries.
  `dset_type_higher_rev` climbs the list when an argument is unknown.
- **Data blob** (`src/lib/data.c`). This is the option bag that one command is
  built in and a kernel answer is decoded into. It holds a presence bitmap,
  an ignored bitmap, two flag words and the field storage.
  - `dset_data_set` writes a field and marks it present.
  - `dset_data_test` and `dset_data_get` read it back.
  - `dset_data_reset` clears the whole blob after every command.
- **Reports and the protocol handshake** (`src/lib/session.c`).
  - `dset_session_report` fills the report buffer with an error, a warning or
    a notice.
  - `dset_errcode` (`errcode.c`) translates a kernel errno for the command
    that failed.
  - The first command of a session asks the kernel for its protocol window
    (`callback_version`).
- **Transport** (`src/lib/mnl.c`). `fill_hdr` sets the netlink flags and
  clears `NLM_F_EXCL` when the session's `-exist` envopt is set. The query is
  synchronous.
- **Kernel.** The set code is not in this repository. Its replies are modelled
  from `spec.md` and the errno table in `errcode.c`.

The program is single threaded and every kernel query blocks until the
answer and its callbacks are processed. The concurrency that matters is
therefore not between threads. It is between the lines of a restore, which
share one send buffer, one saved set name, sticky envopts and the
process-wide cache.

## Modules

| Module | Models | State / actions |
|---|---|---|
| `KernelSets` | kernel replies (all definitions are written from the spec) | `KState` = existing sets and their members; `KCreate` … `KTest`, `KAdtMsg` (one check that the set exists, then members in order, stopping at the first failure with its line number), `KSingle` |
| `SetCache` | `dset_cache_add/del/rename/swap`, the cache lookup in `adt_type_get` | the list as a sequence of names; `dset_cache_add` compares every node but the last, exactly like the C loop |
| `KernelReplay` | the abstract promise of a restore | `log` of lines the kernel was handed; `Process` hands over a later batch, and the kernel ends as if the lines were applied one by one |
| `DsetRestore` | one `dset restore` process | variables `buf`, `nestid`, `scmd`, `saved` (session fields), `exist` (envopt), `line` (`restore_line`), `cache`, `kernel`, `status` (exit), plus the histories `issued`, `delivered`, `rejected` |
| `MC_DsetRestore` | model values and symmetry for TLC | |
| `DsetList` | an interactive session (`dset -`) running `list`, `-sorted list` and `flush`, from the request through the netlink dump to the printed text | `kmem` (kernel sets), `dump` and `sockq` (the kernel's dump on the socket and the socket's receive queue), `seq` (`handle->seq`), `phase` (prompt, `recv`, `proc`, exit), `skb`, `sortEnv` (the sticky `-sorted` envopt), `S` (the session's output buffer, `pos`, the sorted list, the pool, `saved_setname`, `printed_set`, `sort`), the histories `cur` and `hist` |
| `MC_DsetList` | model values for TLC | |
| `DsetReport` | a `dset` process, batch or interactive (`dset -`), running create, add, test, destroy, version and quit lines against a kernel with any protocol window, any type-revision window and any errno | `kproto`, `ktype` (the kernel's windows), `interactive`, `ses` (the session record: report buffer and type, `protocol`, `version_checked`, `saved_type`, the set-name cache, the blob's ignored bits, `quiet`, and the histories `out`, `sent` and `handled`), `status` (the exit), `lines` |
| `MC_DsetReport` | model values and the errno set for TLC | |
| `TypeRegistry` | `dset_type_add` and `dset_type_higher_rev` over `typelist` | `typelist` (a sequence of `[name, revision]`, head first), `ret`, `calls`; one action `Register(d)` |
| `DsetCli` | `main`, `dset_parse_argv`, `build_argv`, `dset_parse_line`, the line loop of `dset_parse_stream`, `restore()`, `-file` with `dset_session_io_normal`, `type_find`; composed with `TypeRegistry` (`R == INSTANCE TypeRegistry`), which main fills first | the registry's `typelist`, `ret`, `calls`; `phase` (load, argv, stream, interactive, exited), `interactive`, `restore_line`, `envopts`, `outmode`, `filename` (the pointer and whether the string it points to is still allocated), `istream`, `ostream`, `reading` (the FILE the stream loop reads), `nlines`, `exitcode`, `ub` (undefined behaviour met), `last` (the last parse: line, built argv, command, help's descriptor) |
| `MC_DsetCli` | type names, argv words and input lines as strings | |
| `DataBlob` | the data blob's calls | `bits`, `ignored`, `flags`, `cadt_flags`, `val` (the field storage), and the histories `last` (the last call and its return) and `parsed` (parser calls per option since its bit was cleared); actions `DataSet`, `CallParser`, `ParseText`, `FlagsUnset`, `Ignored`, `dset_data_reset` |
| `ArgCodec` | the number parsers of `parse.c` (`string_to_number_ll` over `strtoull` with base 0, `dset_parse_timeout`, `dset_parse_uint32`, `dset_parse_uint16`), `dset_parse_skbprio` (`sscanf` of `%x:%x`), and `dset_print_number` and `dset_print_skbprio` of `print.c` | no state: operators from a string to `[ok, v]` and from a value to a string |
| `MC_DataBlob` | a subset of the option kinds, model values, symmetry | |

Actions of `DsetRestore` and where they come from:

- One action is one input line, since the program runs a line to completion.
- `AdtAppend`: `may_aggregate_ad` holds and the buffer has room, so the member
  joins the ADT group (the `build_msg` ADD/DEL case).
- `AdtNewMessage`: the line is not aggregatable, or the buffer is full. The
  action runs `dset_commit` and then starts a new message. If the commit
  fails, it is `FlushFails`.
- `SingleCommand` is used by `Create`, `Destroy`, `Flush`, `Rename`, `Swap`
  and `Test`. It flushes the buffer, sends its own message, applies the ACK
  cache effects, and applies the batch error rule through `AfterCommand`.
  A create may carry an ignored option (a warning).
- `UnknownSet`: the HEADER query of `adt_type_get` fails.
- `BadLine`: a parser rejects the line.
- `SkipLine`, `CommitLine` and `Eof` come from `dset_parse_stream`.
- `Terminated`: the process has exited.

`exist` is chosen in `Init` as `dset -exist restore` or `dset restore`. A line
may add `-exist`, which stays set for the rest of the session, as envopts do.
A line's `excl` flag is what the kernel would see if the line started a
message. An ADT message carries the flag of the line that started it
(`fill_hdr` runs only then).

Actions of `DsetList`:

- `List(srt)` and `Flush(set)` are one line at the prompt. Each runs
  `dset_cmd` and the send half of `dset_mnl_query` with the next sequence
  number. The kernel answers inside sendmsg: a FLUSH gets an ACK or ENOENT,
  and a LIST starts a dump unless one is still running on the socket, in
  which case it gets EBUSY.
- `Recv` is one `recvmsg`. It takes the head skb, and a running dump fills
  the next skb. The last dump message may share its skb with NLMSG_DONE or
  not.
- `Proc` is `mnl_cb_run2` on one message of the skb. A wrong sequence
  number ends the query (EPROTO). A data message runs `callback_data` and
  `callback_list`, DONE runs `callback_done`, and an error message runs
  `callback_error`. The callback's verdict (OK, STOP, ERROR) decides whether
  the query goes on. When it ends, `Finish` applies the tail of
  `dset_commit` and the interactive error handling.
- `Quit` is EOF at the prompt.

Actions of `DsetReport`:

- One action is one input line, run to completion.
- `Create`, `Add`, `Test`, `Destroy` and `Version` each build the line's
  session work, then pass it through `RunLine`.
  - The line's work is `CreateLine`, `AdtLine`, `DestroyLine` or `VersionLine`.
    Each runs the parsers, `dset_cmd` (with the version handshake of
    `CheckProtocol` and `callback_version` on the first command),
    `create_type_get` or `adt_type_get`, `dset_commit` and `callback_error`.
  - `RunLine` then applies `dset_parse_argv`'s end (`Conclude`), and with it
    `default_standard_error` or `default_custom_error`.
- `Quit` is `quit` or the end of input.
- The kernel's answer to each query is an input of the action, from `Answers`.
- A line may carry `-quiet`, and envopts persist for the session, as in the
  code.

`TypeRegistry` models one registration per step. A descriptor is its
`(name, revision)` pair. The family is the same for every type, and the
argument menus play no part in the ordering. `AddWalk` is the C loop of
`dset_type_add` as a recursive walk. At each node it compares the new
descriptor with the node, then with its successor. `Loadable` says which
registrations the loader issues:
- with `AscendingLoad`, each name lowest revision first, as `dset_types_init`
  does;
- otherwise in any order, as `dset_load_types` may when it dlopens modules in
  reverse file-name order.

Actions of `DsetCli`:

- `LoadType(d)` is one `dset_type_add` of `dset_load_types` (the
  registry's `Register`), and `LoadDone` is `dset_init`.
- `Main` is `dset_parse_argv` on one of the argvs of `OsArgs` words, and
  main's exit with what it returns.
- `ReadStreamLine(l)` and `StreamEof` are the `fgets` loop of
  `dset_parse_stream` and its end; `ReadInteractiveLine(l)` and
  `InteractiveEof` are the interactive loop of `dset_parse_argv` with
  `dset_parse_line`.
- `dset_parse_argv` is an operator over the process state: `EnvLoop` (the
  option pass, with `dset_shift_argv` as `Shift`), `CmdPass` (first matching
  command, restore-mode and interactive refusals, argument counts),
  `ThirdPass`, `FourthPass` (with `restore`). Each pass is split into
  small operators that take the previous stage as a parameter (`EnvMatched`,
  `CmdArgs`, `HelpType`, `Finish`, `ParseResult`, `LineStep`, ...) and
  never bind it with a LET that is referenced several times. TLC's
  coverage profiling expands every reference to such a LET separately,
  and nested ones then exhaust the heap. `build_argv` is a recursive
  walk over the characters, with the room check before each one.
- The handlers are `default_custom_error` and `default_standard_error` as
  the code has them: failures are ignored in interactive mode and exit
  otherwise. `dset_cmd` and `call_parser` succeed here; their failures are
  the subject of `DsetRestore` and `DsetReport`.
- Strings are TLA+ strings taken apart with `SubSeq`, since matching and
  splitting are what the properties are about.

`DataBlob` models the blob as a library caller sees it: any sequence of
calls.
- `dset_data_set` follows the switch of `data.c`:
  - a field is stored and marked present;
  - a flag option ORs its bit into its flag word and marks the word present,
    because the macros rewrite `opt`;
  - storing the CADT word also marks six of its seven flag options present;
  - an unknown kind returns -1.
- `FlagsUnset` uses the two masks that the list decoder clears.
- `CallParser` is `dset_call_parser` with a parser that stores its value.
- A field value is a model value naming the write that stored it, except
  for the numeric options of `TextOpts` (timeout, hashsize, skbqueue,
  skbprio). Those hold integers and start at 0.
- `ParseText(o, t)` is `dset_call_parser` handing text `t` to the parser
  that the `dset_args` table of `args.c` gives option `o`. The parsers are
  the operators of `ArgCodec`: a syntax error stores nothing, and a number
  is stored by `dset_data_set`.
- `ArgCodec` models `strtoull` by what it does. It skips blanks, takes a
  sign, and picks the base: `0x` before a hex digit means hex, a leading `0`
  means octal, anything else decimal. The end pointer is the first
  non-digit. TLC integers stop at 2^31 - 1, so any larger value, and any
  negated nonzero one, is the single value `BIG`. That value lies above
  every range the run checks. The printers spell a value in decimal, or as
  the two hex halves of skbprio.

The printer operators (`safe_snprintf`, `list_create`, `list_adt`,
`print_set_done`, `callback_list`) work on a record of the session's output
fields. A slot of `outbuf` holds one printed line (a set header or a member)
or a NUL, and a string runs up to the next NUL. That is enough to model the
sentinel NUL of sorted mode, `bystrcmp` on the strings at the stored offsets,
buffer growth and flushing. Header and member text is not modelled.
`print_outfn` may fail: in a step, the call number `failAt` fails
(`FailChoices`). A failure longjmps to the `setjmp` of `callback_list` where
the code does. The `Then` operator hands each printer step's result to the
next one, evaluated once.

## Runs

| Run | Cfg | Expect | What it shows |
|---|---|---|---|
| `restore_core` | `MC_DsetRestore.cfg` | pass | See the list below. |
| `restore_cache_stale` | `MC_DsetRestore_cache.cfg` | violation of `CacheSound` | `create a; create a` under `-exist` caches `a` twice, because the duplicate loop skips the last node. `destroy a` removes one copy, so the cache names a set that does not exist (types.c:70). |
| `restore_line_exist` | `MC_DsetRestore_exist.cfg` | violation of `ExistHonoured` | `add a e` is followed by `add a e -exist`. The second line joins the first line's message, so EXCL stays set and the kernel refuses it. This contradicts spec scenario 3 (mnl.c:75). |
| `list_core` | `MC_DsetList.cfg` | pass | See the list below. |
| `list_swallowed_failure` | `MC_DsetList_swallow.cfg` | violation of `SuccessMeansListing` | Under `-sorted`, closing a set when the next set's first message arrives calls `print_set_done` and drops its result (session.c:1099). A failed write there is not seen: the closed set's members are printed later, after the next set's header, and the list still succeeds. |
| `list_stale_sorted` | `MC_DsetList_stale.cfg` | violation of `OwnListingExact` | A write failure in `print_set_done` returns before `list_splice` (session.c:1013, 1023), so the sorted entries stay. The next sorted list of the session prints a member twice. |
| `report_core` | `MC_DsetReport.cfg` | pass | See the list below. |
| `report_quiet_test_miss` | `MC_DsetReport_internal.cfg` | violation of `InternalErrorNeverShown` | Under `-quiet`, a TEST of an absent element returns `MNL_CB_ERROR` with an empty report. `dset_commit` then reports "Internal protocol error", and interactive mode prints it (session.c:1476, 1929). |
| `cli_main` | `MC_DsetCli.cfg` | pass | See the list below. |
| `cli_memory` | `MC_DsetCli_ub.cfg` | violation of `NoUndefinedBehaviour` | main's argc is never bounded. `dset_parse_argv` copies argc pointers into `argv[MAX_ARGS]` (dset.c:926), and `dset_shift_argv` reads `argv[argc]`. TLC's trace: four words with `MAX_ARGS = 5`, so the first shift reads one past the array; in the real build (`MAX_ARGS = 32`) 31 words overread, and 32 overflow the stack copy. |
| `cli_unbalanced_quote` | `MC_DsetCli_quote.cfg` | violation of `QuoteBalanceChecked` | `x "z` and its newline: inside the quote the newline only `continue`s (dset.c:585), the open-quote check is never reached and the partial argument is dropped. The line runs as `destroy` with no set, which destroys every set. |
| `blob_calls` | `MC_DataBlob.cfg` | pass | See the list below. |

What `restore_core` shows:

- Every issued line reaches the kernel exactly once and in order, or is still
  buffered. A run that reaches the end of its input and exits 0 has sent
  everything (`InOrderOnce`). The model has `quit` and `-` lines
  (`QuitLine`, `DashLine`; for `-`, the nested interactive loop finds stdin
  already at its end). Both exit 0 through `custom_error` and
  `dset_fini`, and nothing commits, so buffered lines are never sent.
  Spec section 6 names only the implicit flush at end of file. That gap is
  a `spec_gap` finding of this run, so the property asks for the flush at
  end of input only.
- A message holds one run of the same command and set (`OneRunPerMessage`).
- A run is split only when the buffer is full (`SplitOnlyWhenFull`, an action
  property).
- Exit 0 implies that no line was refused (`ExitHonest`).
- The detailed model implements `KernelReplay` under the mapping
  `log <- delivered` (`ReplayRefinement`). Packing lines into messages never
  changes the kernel's final state.

Every property of the passing run has a mutant in `PROJECT.json`. Each mutant
is a plausible fault in a mapped definition, and TLC finds it:

- `may_aggregate_ad` without the set check or the command check;
- the `BUFFER_FULL` test one member off in each direction;
- `DSET_ERR_EXIST` treated as benign for every command;
- the EOF commit left out.

What `list_core` shows:

- While no write has failed, every list that succeeds prints exactly the
  dump's listing: headers, then members, in `strcmp` order under `-sorted`
  and in arrival order otherwise. A list in progress has printed a prefix of
  it (`ListingExactWhileHealthy`). This holds however the dump is cut into
  messages and skbs, across buffer flushes and buffer growth.
- While no write has failed, the session never allocates more sorted
  entries than a set has members (`SortedPoolBounded`). The pool is reused.
- Every command returns to the prompt (`EveryCommandEnds`), also after a
  print failure, an EPROTO or an EBUSY.

Mutants: a `handle_snprintf_error` test that leaves no room for the NUL
(TypeOK), a sorted `list_adt` that does not skip the sentinel, a `list_adt`
that never takes from the pool, and a `callback_done` that answers
`MNL_CB_OK`, which leaves the query blocked in recvmsg.

What `report_core` shows, over every kernel protocol window in `6..8`, every
type-revision window in `0..1` (or no type module) and every answer:

- The error a refused command reports is exactly the spec section 4.6
  translation of its errno for that command, whatever was reported before it
  (`ErrorShownIsTranslation`, checked against a declarative best-row
  definition of the table lookup).
- The report handed to the error handler always has the highest severity
  reported since it was last emptied (`ReportKeepsHighest`).
- No message goes out before a successful handshake, and each carries the
  lower of the two protocol maxima (`AgreedProtocolOnly`).
- Every CREATE, ADD or TEST names a revision the kernel supports, through the
  window check, the HEADER match and the cache (`SentRevisionSupported`).
- A batch process exits 0 exactly when nothing worse than a warning was
  reported (`ExitBySeverity`).

Mutants: a handshake that does not take the minimum of the maxima (TypeOK),
an errno scan that ignores the command column, an interactive handler that
keeps the report, `version_checked` set before the window check, a
`create_type_get` without the window check, and notices that exit 0.

What `cli_main` shows, from type loading through main's argv, restore
streams and the interactive loop, when each name registers lowest first:

- Each name's descriptors are in strictly decreasing revision order
  (`DescendingPerName`). This holds for the build's registration order
  only; `TypeRegistry` with `AscendingLoad = FALSE` shows another order
  breaking it.
- No `(name, revision)` pair is registered twice (`DuplicatesRejected`).
- `dset_type_higher_rev` from every descriptor returns the next higher
  revision of its name, or the descriptor itself when there is none
  (`HigherRevIsNext`). That is what the keyword lookahead of dset.c:721
  relies on.

- `help TYPE` shows the descriptor of the highest registered revision of
  that name or alias (`HelpShowsHighest`). This rests on the registry order
  and on `type_find` taking the first match.
- A command word that is a name of one command, or a prefix of that
  command's names only (after a leading `--`), selects that command; `-`,
  `--` and words no name starts with select none (`CommandAsDocumented`).
- Every balanced line that `build_argv` accepts becomes exactly its tokens:
  split at blanks outside quotes, quotes removed, empty tokens dropped. A
  line refused as too long has at least `MAX_ARGS - 2` tokens
  (`BalancedLineTokens`, against the declarative `RefTokens`). It allows the
  boundary case the code has: `MAX_ARGS - 2` tokens and a trailing blank are
  refused.
- `dset -f FILE restore` never exits 0 when FILE cannot be opened
  (`FailedRestoreNotSuccess`). `restore()` returns -1 without calling an
  error handler, and `main` exits 255.

Mutants: a positive errno (TypeOK), a walk that never compares the node
itself, a walk whose node comparison also accepts an equal revision, a
`dset_type_higher_rev` that follows `next` instead of finding the
predecessor, a `type_find` that takes the last match, a `dset_match_cmd`
without its lone-`-` test, and a `build_argv` that splits at quoted blanks, and a `restore()` that does not
check the result of `dset_session_io_normal`.

What `blob_calls` shows, over any four calls:

- A field option is never parsed twice while its first value is present
  (`SingleUse`), because `dset_call_parser` checks its bit.
- A text handed to a numeric option's parser is stored exactly when spec
  4.2 reads it as an in-range number (decimal, `0x` hex or leading-`0`
  octal; skbprio as `<hex>:<hex>`), and the value stored is that number
  (`ParsedAsSpecified`). The reference `SpecReads` spells candidate numbers
  and does not run the parser. The texts include both sides of the two
  boundaries of spec section 8 (timeout `2147483`/`2147484`, u16
  `65535`/`65536`), `010`, `0x1f`, `0177777`, and the non-numbers `08`,
  `0x`, `12a`, `-1` and the empty text.
- For every numeric option present, its parser reads the text its printer
  makes of the stored value back as that value (`SavedRestores`). That is
  what a save followed by a restore does to the option. The printer reads
  the value through `dset_data_get`, as `print.c` does.

Mutants: a flag bit ORed into the wrong word (TypeOK), a parser wrapper
without its check, a
range check with an exclusive upper bound, and a skbprio printer that prints
the minor number in decimal.

`sscanf("%x:%x")` ignores text after the minor number, so `1:2zz` is
accepted as `1:2`. Spec 4.2 does not say whether that text must be
refused, so the run gives no such text.

### Bounds

- 2 sets and 2 elements, as model values with symmetry. Symmetry is sound
  because no definition tells two sets or two elements apart.
- `MaxLine = 4` input lines, and `BufCap = 2` members per message.
- With four lines, a full buffer is reached, split, and then refused. A create
  twice followed by a destroy also fits, and so do rename and swap against
  existing and missing sets.
- A larger `BufCap` only adds lines before the same boundary.
- `LineExist = {FALSE}` in the pass run keeps the run under a minute. The
  `-exist` choice still varies through `exist` in `Init`. The `-exist` line
  option is explored in `restore_line_exist`.

`DsetList`:

- 2 sets and the members `{1, 2}`, and up to 2 commands. Two commands are
  the least that can show an effect of one command on the next.
- `ChunkCap = 2` members per dump message, so a set's members arrive in one
  or in two messages, and the last message shares its skb with DONE or not.
- `OutLen = 3` and `OutGrow = 2` slots. Three slots hold a header and one
  member line with their NULs. The next line therefore flushes the buffer,
  or grows it under `-sorted`.
- `MaxPrintFail = 1` failing write per session, at any of the first
  `FailWindow = 3` writes of a step. That covers the header write, a member
  line and the flush of a callback.
- The members are integers because `bystrcmp` needs their order. No
  symmetry is used.
- The run has about 578,000 states and takes under a minute.

`DsetReport`:

- One set name, two of the three legacy create options (`probes`, `gc`), and
  at most 2 of them per line.
- Registered revision 0, against kernel type windows inside `0..1`.
- The userspace protocol window is `6..7`, against kernel windows inside
  `6..8`. That covers disjoint windows on both sides, equal maxima, and a
  higher kernel maximum (the warning).
- Six errnos: a system errno, a core-table and a hash-table `ERR_*` code, and
  one errno that falls through to the type-specific fallback.
- `MaxLines = 3`: a create, then a command that uses its cache entry or its
  type, then `version` or `quit`.
- The run has about 498,000 states and takes about a minute.

`DsetCli` (with `TypeRegistry`):

- Two names, `hash:domain` (alias `dhash`) and `hash:ip`, plus one name too
  long for `DSET_MAXNAMELEN`; revisions `0..2`; `MaxCalls = 3`, enough for
  two revisions of a name and a refused long name. The build registers one
  type; more are loaded here so that help's lookup meets several revisions.
- `MAX_ARGS = 5` (32 in the code): three tokens fill `newargv`, so the
  too-long check is reached by the three-token lines with a trailing blank.
- `MaxOsArgc = 4` (three words of `-`, `-f`, `z`, `r`, `l`, `h`, `dhash`,
  `q`): every pass of `dset_parse_argv` is reached, including a restore of
  the existing file `z` and of a missing one. `cli_memory` allows six.
- Nine lines and `MaxLines = 3`: a list with and without `-f`, help, `-`
  (nested interactive mode), a quoted blank, an open quote, a comment, quit.
- The run has about 194,000 states and takes about a minute.

`DataBlob`:

- Fourteen option kinds:
  - the fields `TIMEOUT`, `HASHSIZE`, `MAXELEM`, `TYPE`, `TYPENAME`,
    `FAMILY`, `SKBPRIO` and `SKBQUEUE`. The first two and the last two are
    given as text;
  - the flags `EXIST`, `FORCEADD` and `NOMATCH`;
  - both flag words;
  - the unknown kind `ELEM`.
- Two values, with symmetry, which is sound because no definition tells them
  apart.
- `MaxCalls = 4`, enough for a parse, an unset or a reset, and a second parse.
- Between three and six texts per numeric option, chosen to cover every
  branch of `strtoull`'s base choice, each end check, and each range
  boundary. Also one value per option that the list decoder may store. The
  run has about 546,000 states and takes about 20 seconds.

### Fairness

`DsetList` assumes weak fairness of `Recv` and `Proc`. The process is single
threaded, and once a query is sent it blocks in `recvmsg` and runs the
callbacks on what arrives. A kernel that has a dump message or an answer
queued delivers it. `DsetReport`, `DsetCli` and `DataBlob` assume no
fairness. Every step there is an input line or a library call. They have
only safety properties, and their cfgs turn off deadlock checking because
the input ends.


`DsetRestore` assumes no fairness. All its properties are safety properties, and the
refinement is checked as a safety refinement. A restore reads a finite file. A liveness
property ("the run ends") would rest only on the input being finite, which
`MaxLine` already bounds.

## Not modelled, and next steps

- XML and save output modes, and `-name` and `-terse` listings. These
  change only the text of the lines, except for the XML closing tags that
  `print_set_done` writes.
- LIST of a single named set (the only difference is the request), and
  SAVE.
- Memory allocation failures (`realloc_outbuf`, `calloc` in `list_adt`).
- The union in `struct dset_data`. `setname2` shares storage with the create
  and ADT fields. The overlap depends on `DSET_MAXNAMELEN`, from a kernel
  header that is not in the repository.
- `dset_type_check` and `dset_typename_resolve`. These are read-only walks of
  `typelist`.
- `dset_session_warning_as_error`, which nothing calls. Also the kernel
  protocol echo check in `callback_data`, the FAILURE checks for malformed
  messages, and report buffer truncation.
- The u64 and u8 parsers and printers (packets, bytes, skbmark, probes,
  resize). Their values reach 2^64, and TLC integers stop at 2^31 - 1.
  `hash:domain`, the one type the repository builds, has none of them in its
  ADD menu, and neither comment nor skbmark.
- The name, domain, comment and element parsers, and the type, name,
  domain, comment, element and flag printers. The models keep the strings
  these produce as model values.
- `em_dset.c`, which needs the absent kernel set code.
- `debug.c`, which only logs.

Some disagreements with `spec.md` that the models reach are recorded as
hazards in `PROJECT.json`, not as runs:

- A warning in batch mode exits 0 and skips the rest of a restore
  (dset.c:504).
- No path exits with status 4 (dset.c:477).
- An aborted list leaves the rest of its dump on the socket, so the next
  interactive command fails with EPROTO or EBUSY (mnl.c:112).
  `FailsForOwnReason` in `DsetList` states it; it is not among the runs.
- In `restore -f FILE`, a list or save line closes the stream being read
  (dset.c:1201); a `-file` given on a line dangles after the next line
  (dset.c:372). Both are `NoUndefinedBehaviour` violations of `DsetCli`
  behind the shorter argc one.
- A `-` or `quit` line in a restore exits 0 without committing the buffered
  lines (dset.c:1064, 1156). `restore_core` reaches it; it is recorded as a
  `spec_gap` finding. A restore whose file cannot be opened exits 255
  without a message (dset.c:632); `FailedRestoreNotSuccess` checks that it
  is at least not a success.
- A flag option's own presence bit is never set (data.c:366), so a flag
  given twice is accepted.

Not listed as hazards, because this build cannot reach them: it registers
one set type at one revision, and the kernel is not in the repository.

- With several revisions and dynamically loaded modules, registration runs
  in reverse file-name order, and `dset_type_add` can register a pair twice
  (types.c:556, 667). `TypeRegistry` with `AscendingLoad = FALSE` shows it.
- `create_type_get` with no revision in the kernel's window (types.c:304).
- The hash overlay of `dset_errcode` on a private query (session.c:2051).
- Set headers without the ELEMENTS, REFERENCES or MEMSIZE attributes
  (session.c:1114).

Each component is listed in `PROJECT.json` with its status.
