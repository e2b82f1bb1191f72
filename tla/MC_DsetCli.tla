---------------------------- MODULE MC_DsetCli ----------------------------
(* DsetCli with two set types (hash:domain with its alias "dhash",       *)
(* hash:ip) and one whose name is too long, revisions 0..2; argv words   *)
(* that reach every pass of dset_parse_argv (an environment option with  *)
(* its value, commands by prefix and alias, help with a type, "-"); and   *)
(* lines that exercise quoting, comments, -file, nesting and the too-long *)
(* check, with MAX_ARGS = 5 so that three tokens fill newargv.            *)
EXTENDS DsetCli

MCNames == {"hash:domain", "hash:ip", "hash:overlong"}
MCLongNames == {"hash:overlong"}
MCRevisions == 0..2
MCAliases == [n \in MCNames |-> IF n = "hash:domain" THEN {"dhash"} ELSE {}]

MCOsArgs == {"-", "-f", "z", "r", "l", "h", "dhash", "q"}
MCExisting == {"z"}

\* A quoted blank, an unbalanced quote before the newline, a comment,
\* three tokens with and without a trailing blank, help, quit and "-".
MCLines == {"l\n", "l -f z\n", "l -f z \n", "h dhash\n", "-\n",
            "x \"z\n", "# c\n", "x \"a b\"\n", "q\n"}
=============================================================================
