------------------------------ MODULE DataBlob ------------------------------
(***************************************************************************)
(* The data blob of libdset (src/lib/data.c, include/libdset/data.h): the *)
(* option bag one command is built in and a kernel answer decoded into.    *)
(* State: the presence bitmap `bits', the ignored bitmap, the two          *)
(* aggregate flag words (`flags', the command flags, and `cadt_flags', the *)
(* create/add-time flags), and the value of every field option.  An        *)
(* option kind is its enum name as a string; a field value is a model      *)
(* value naming the write that stored it; a flag word is the set of flag   *)
(* bits it holds, each flag bit named after its option.                    *)
(* The blob's clients are any sequence of library calls: dset_data_set,   *)
(* the parser wrapper dset_call_parser, the two flag-clearing calls of the *)
(* list decoder, dset_data_ignored and dset_data_reset.  The numeric      *)
(* options of TextOpts are given as text to their parser of args.c        *)
(* (ArgCodec), store integers, and are zero when absent.                   *)
(***************************************************************************)
EXTENDS Integers, FiniteSets, ArgCodec

CONSTANTS
    Opts,       \* the option kinds the clients use
    Vals,       \* values a field option may be given
    FlagsVals,  \* values dset_data_set(FLAGS) may be given: sets of command flags
    CadtVals,   \* values dset_data_set(CADT_FLAGS) may be given: sets of CADT flags
    IgnoredOpts,\* options dset_parse_ignored may mark ignored
    MaxCalls,   \* bound on the number of calls
    TextOpts,   \* numeric options whose parser reads text
    Tokens,     \* option -> the texts the command line may give its parser
    Numbers,    \* option -> the values the list decoder may store for it
    Candidates  \* numbers and skbprio halves the texts of Tokens spell

VARIABLES
    bits,       \* data->bits: the options present
    ignored,    \* data->ignored
    flags,      \* data->flags
    cadt_flags, \* data->cadt_flags
    val,        \* the field storage: option -> value
    last,       \* the last call made and what it returned
    parsed,     \* parser calls per option since its bit was last cleared
    calls

vars == <<bits, ignored, flags, cadt_flags, val, last, parsed, calls>>

Zero == "zero"   \* calloc and memset contents of a field
NULL == "NULL"   \* what dset_data_get returns for an absent option

(* The enum dset_opt, by the storage dset_data_set gives each kind.       *)
FieldOpts ==
    {"SETNAME", "TYPE", "FAMILY", "DOMAIN", "TIMEOUT", "INDEX", "GC",
     "HASHSIZE", "MAXELEM", "PROBES", "RESIZE", "SIZE", "ELEMENTS",
     "REFERENCES", "MEMSIZE", "TYPENAME", "REVISION", "REVISION_MIN", "NAME",
     "NAMEREF", "PACKETS", "BYTES", "ADT_COMMENT", "SKBMARK", "SKBPRIO",
     "SKBQUEUE", "SETNAME2"}
FlagWordOpts == {"EXIST"}                                  \* flag_type_attr
CadtFlagOpts == {"BEFORE", "PHYSDEV", "NOMATCH", "COUNTERS",
                 "CREATE_COMMENT", "FORCEADD", "SKBINFO"}   \* cadt_flag_type_attr
FlagOpts == FlagWordOpts \cup CadtFlagOpts
(* The flag bits the CADT_FLAGS case of dset_data_set marks present.     *)
CadtMarked == {"BEFORE", "PHYSDEV", "NOMATCH", "COUNTERS", "CREATE_COMMENT",
               "SKBINFO"}

(* DSET_CREATE_FLAGS and DSET_ADT_FLAGS of data.h.                         *)
DSET_CREATE_FLAGS ==
    {"FAMILY", "TYPENAME", "TYPE", "DOMAIN", "TIMEOUT", "GC", "HASHSIZE",
     "MAXELEM", "PROBES", "RESIZE", "SIZE", "COUNTERS", "CREATE_COMMENT",
     "FORCEADD", "SKBINFO"}
DSET_ADT_FLAGS ==
    {"TIMEOUT", "NAME", "NAMEREF", "CADT_FLAGS", "BEFORE", "PHYSDEV",
     "NOMATCH", "PACKETS", "BYTES", "ADT_COMMENT", "SKBMARK", "SKBPRIO",
     "SKBQUEUE"}

ModelFields == Opts \cap FieldOpts

(* A field as calloc or memset leaves it.                                 *)
FieldZero(o) == IF o \in TextOpts THEN 0 ELSE Zero

(* dset_data_test: the option's own presence bit, nothing else.          *)
dset_data_test(o) == o \in bits

(* The blob after dset_data_set(o, v), and its return value.  A field is  *)
(* stored and marked; FAMILY also leaves the ignored bitmap; a flag       *)
(* option ORs its bit into its flag word and marks the word's option       *)
(* (the macros rewrite opt); a whole word is stored and, for CADT_FLAGS,   *)
(* the six flag options of CadtMarked are marked; any other kind fails.   *)
SetResult(o, v) ==
    LET B(extra) == [ret |-> 0, bits |-> bits \cup extra]
    IN CASE o \in FieldOpts    -> B({o})
         [] o \in FlagWordOpts -> B({"FLAGS"})
         [] o \in CadtFlagOpts -> B({"CADT_FLAGS"})
         [] o = "FLAGS"        -> B({"FLAGS"})
         [] o = "CADT_FLAGS"   -> B({"CADT_FLAGS"} \cup (v \cap CadtMarked))
         [] OTHER              -> [ret |-> -1, bits |-> bits]

(* Mutant: the command-level flag bit is ORed into the CADT word.         *)
DataSetWrongWord(o, v) ==
    LET r == SetResult(o, v)
    IN /\ bits' = r.bits
       /\ ignored' = IF o = "FAMILY" THEN ignored \ {"FAMILY"} ELSE ignored
       /\ flags' = IF o = "FLAGS" THEN v ELSE flags
       /\ cadt_flags' = CASE o \in FlagOpts     -> cadt_flags \cup {o}
                          [] o = "CADT_FLAGS" -> v
                          [] OTHER            -> cadt_flags
       /\ val' = IF o \in FieldOpts THEN [val EXCEPT ![o] = v] ELSE val

dset_data_set(o, v) ==
    LET r == SetResult(o, v)
    IN /\ bits' = r.bits
       /\ ignored' = IF o = "FAMILY" THEN ignored \ {"FAMILY"} ELSE ignored
       /\ flags' = CASE o \in FlagWordOpts -> flags \cup {o}
                     [] o = "FLAGS"        -> v
                     [] OTHER              -> flags
       /\ cadt_flags' = CASE o \in CadtFlagOpts -> cadt_flags \cup {o}
                          [] o = "CADT_FLAGS"   -> v
                          [] OTHER              -> cadt_flags
       /\ val' = IF o \in FieldOpts THEN [val EXCEPT ![o] = v] ELSE val

(* dset_data_get: NULL unless the option is present or is TYPENAME;       *)
(* TYPENAME reads the name of the stored type first (a type's name is the *)
(* value it was stored with), a flag option reads its whole flag word.    *)
dset_data_get(o) ==
    IF ~(o = "TYPENAME" \/ dset_data_test(o)) THEN NULL
    ELSE CASE o = "TYPENAME" ->
                IF dset_data_test("TYPE") THEN val["TYPE"]
                ELSE IF dset_data_test("TYPENAME") THEN val["TYPENAME"] ELSE NULL
           [] o \in FieldOpts -> val[o]
           [] o \in FlagWordOpts \cup {"FLAGS"} -> flags
           [] o \in CadtFlagOpts \cup {"CADT_FLAGS"} -> cadt_flags
           [] OTHER -> NULL

(* The values a caller may pass for option o.                             *)
ValuesOf(o) == CASE o = "FLAGS" -> FlagsVals
                  [] o = "CADT_FLAGS" -> CadtVals
                  [] o \in TextOpts -> Numbers[o]
                  [] OTHER -> Vals

Init ==   \* dset_data_init: calloc
    /\ bits = {}
    /\ ignored = {}
    /\ flags = {}
    /\ cadt_flags = {}
    /\ val = [o \in ModelFields |-> FieldZero(o)]
    /\ last = [op |-> "init", opt |-> "NONE", v |-> Zero, ret |-> 0]
    /\ parsed = [o \in Opts |-> 0]
    /\ calls = 0

Call == calls < MaxCalls /\ calls' = calls + 1

(* A library call dset_data_set(data, o, v).                              *)
DataSet(o, v) ==
    /\ Call
    /\ dset_data_set(o, v)
    /\ last' = [op |-> "set", opt |-> o, v |-> v, ret |-> SetResult(o, v).ret]
    /\ UNCHANGED parsed

(* Mutant: the parser wrapper without its "already specified" check.      *)
CallParserNoCheck(o, v) ==
    /\ dset_data_set(o, v)
    /\ last' = [op |-> "parse", opt |-> o, v |-> v, ret |-> SetResult(o, v).ret]
    /\ parsed' = [parsed EXCEPT ![o] = @ + 1]

(* dset_call_parser with a parser that stores its result by               *)
(* dset_session_data_set (dset_parse_flag, the name, number and timeout    *)
(* parsers): an option whose own bit is present is refused, otherwise     *)
(* the parsed value is stored.                                            *)
dset_call_parser(o, v) ==
    IF dset_data_test(o)
    THEN /\ last' = [op |-> "parse", opt |-> o, v |-> v, ret |-> -1]
         /\ UNCHANGED <<bits, ignored, flags, cadt_flags, val, parsed>>
    ELSE /\ dset_data_set(o, v)
         /\ last' = [op |-> "parse", opt |-> o, v |-> v, ret |-> SetResult(o, v).ret]
         /\ parsed' = [parsed EXCEPT ![o] = @ + 1]

(* The command line hands option o with value v to its parser.            *)
CallParser(o, v) == Call /\ dset_call_parser(o, v)

(* The .parse and .print of an option's dset_args entry (args.c).       *)
ArgParse(o, t) == CASE o = "TIMEOUT"  -> dset_parse_timeout(t)
                    [] o = "SKBPRIO"  -> dset_parse_skbprio(t)
                    [] o = "SKBQUEUE" -> dset_parse_uint16(t)
                    [] OTHER          -> dset_parse_uint32(t)
ArgPrint(o, v) == IF o = "SKBPRIO" THEN dset_print_skbprio(v)
                  ELSE dset_print_number(v)

(* The parser's result r: a syntax error stores nothing; a number is      *)
(* stored by dset_session_data_set (dset_data_set for skbprio).            *)
ParsedInto(o, t, r) ==
    IF r.ok
    THEN /\ dset_data_set(o, r.v)
         /\ last' = [op |-> "text", opt |-> o, tok |-> t, dup |-> FALSE,
                     v |-> r.v, ret |-> 0]
         /\ parsed' = [parsed EXCEPT ![o] = @ + 1]
    ELSE /\ last' = [op |-> "text", opt |-> o, tok |-> t, dup |-> FALSE,
                     v |-> 0, ret |-> -1]
         /\ UNCHANGED <<bits, ignored, flags, cadt_flags, val, parsed>>

(* dset_call_parser on a numeric option given as text t.                  *)
CallTextParser(o, t) ==
    IF dset_data_test(o)
    THEN /\ last' = [op |-> "text", opt |-> o, tok |-> t, dup |-> TRUE,
                     v |-> 0, ret |-> -1]
         /\ UNCHANGED <<bits, ignored, flags, cadt_flags, val, parsed>>
    ELSE ParsedInto(o, t, ArgParse(o, t))

(* The command line hands option o the text t.                           *)
ParseText(o, t) == Call /\ CallTextParser(o, t)

(* Presence bits cleared, and the parser count of each cleared option.    *)
Cleared(gone) == [o \in Opts |-> IF o \in gone THEN 0 ELSE parsed[o]]

(* dset_data_flags_unset, as the list decoder calls it before a set       *)
(* header (DSET_CREATE_FLAGS) and before every member (DSET_ADT_FLAGS).   *)
FlagsUnset(mask) ==
    /\ Call
    /\ bits' = bits \ mask
    /\ parsed' = Cleared(mask)
    /\ last' = [op |-> "unset", opt |-> "NONE", v |-> Zero, ret |-> 0]
    /\ UNCHANGED <<ignored, flags, cadt_flags, val>>

(* dset_data_ignored, as dset_parse_ignored calls it.                     *)
Ignored(o) ==
    /\ Call
    /\ ignored' = ignored \cup {o}
    /\ last' = [op |-> "ignored", opt |-> o, v |-> Zero,
                 ret |-> IF o \in ignored THEN 1 ELSE 0]
    /\ UNCHANGED <<bits, flags, cadt_flags, val, parsed>>

(* dset_data_reset: memset of the whole blob.                             *)
dset_data_reset ==
    /\ Call
    /\ bits' = {}
    /\ ignored' = {}
    /\ flags' = {}
    /\ cadt_flags' = {}
    /\ val' = [o \in ModelFields |-> FieldZero(o)]
    /\ parsed' = Cleared(Opts)
    /\ last' = [op |-> "reset", opt |-> "NONE", v |-> Zero, ret |-> 0]

Next ==
    \/ \E o \in Opts : \E v \in ValuesOf(o) : DataSet(o, v)
    \/ \E o \in Opts \ TextOpts : \E v \in ValuesOf(o) : CallParser(o, v)
    \/ \E o \in TextOpts : \E t \in Tokens[o] : ParseText(o, t)
    \/ \E mask \in {DSET_CREATE_FLAGS, DSET_ADT_FLAGS} : FlagsUnset(mask)
    \/ \E o \in IgnoredOpts : Ignored(o)
    \/ dset_data_reset

Spec == Init /\ [][Next]_vars

-----------------------------------------------------------------------------
(* The blob holds option kinds, flag bits and values of the model.        *)
TypeOK ==
    /\ bits \subseteq Opts \cup FlagOpts \cup {"FLAGS", "CADT_FLAGS"}
    /\ ignored \subseteq IgnoredOpts
    /\ flags \subseteq FlagWordOpts \cup UNION FlagsVals
    /\ cadt_flags \subseteq CadtFlagOpts
    /\ \A o \in ModelFields :
          val[o] \in IF o \in TextOpts THEN Nat ELSE Vals \cup {Zero}
    /\ last.ret \in {-1, 0, 1}
    /\ parsed \in [Opts -> 0..MaxCalls]
    /\ calls \in 0..MaxCalls

(* Spec 4.3: an option is parsed at most once per command: a second       *)
(* parser call of a field option is refused by dset_call_parser as long   *)
(* as the first one's value is present.                                   *)
SingleUse ==
    \A o \in Opts \cap FieldOpts : parsed[o] <= 1

-----------------------------------------------------------------------------
(* What spec 4.2 says the numeric parsers read.  A number is written in   *)
(* decimal, in hex after 0x, or in octal after a leading 0; it must not    *)
(* pass the option's maximum (u16, u32, and (UINT_MAX/2)/1000 for the      *)
(* timeout: UINT_MAX/2 is 2^31 - 1).  skbprio is <hex>:<hex>, packed as    *)
(* (major<<16) | (minor & 0xffff) in 32 bits.                               *)
SpecSpellings(n) ==
    {Numeral(n, 10, DecDigits), "0x" \o Numeral(n, 16, HexLower)}
        \cup (IF n > 0 THEN {"0" \o Numeral(n, 8, DecDigits)} ELSE {})

SpecMax(o) == CASE o = "TIMEOUT"  -> 2147483647 \div 1000
                [] o = "SKBQUEUE" -> 65535
                [] OTHER          -> 2147483647

SpecReads(o, t) ==
    IF o = "SKBPRIO"
    THEN {(ab[1] % 65536) * 65536 + (ab[2] % 65536) :
            ab \in {p \in Candidates \X Candidates :
                      t = Numeral(p[1], 16, HexLower) \o ":"
                            \o Numeral(p[2], 16, HexLower)}}
    ELSE {n \in Candidates : n <= SpecMax(o) /\ t \in SpecSpellings(n)}

(* The reading of every text of Tokens, computed once.                    *)
SpecTable == [o \in TextOpts |-> [t \in Tokens[o] |-> SpecReads(o, t)]]

(* Spec 4.2 and 8 (boundaries): a text the option's parser is handed     *)
(* (dset_call_parser with the bit clear) is stored exactly when spec      *)
(* 4.2 reads it as an in-range number, and the value stored is that       *)
(* number.  This is strtoull's base choice, the end-pointer check and the *)
(* range check of string_to_number_ll, and sscanf with the packing of     *)
(* dset_parse_skbprio, against the timeout cap and the u16 maximum.       *)
ParsedAsSpecified ==
    last.op = "text" /\ ~last.dup =>
        /\ (last.ret = 0) = (SpecTable[last.opt][last.tok] # {})
        /\ last.ret = 0 => last.v \in SpecTable[last.opt][last.tok]

(* Spec 6 and 8: what save prints for a numeric option restores to the    *)
(* same value.  For every present text option, its dset_args parser reads *)
(* the text its printer makes of the stored value (a value the list       *)
(* decoder stored or one a parser stored), read as the printers read it   *)
(* with dset_data_get, back as that value.                                *)
SavedRestores ==
    \A o \in TextOpts \cap bits :
        ArgParse(o, ArgPrint(o, dset_data_get(o))) = [ok |-> TRUE, v |-> val[o]]

=============================================================================
