---------------------------- MODULE MC_DataBlob ----------------------------
(* DataBlob with three field options of the create menu, TYPE and         *)
(* TYPENAME, FAMILY, one flag option of each flag word, both flag words   *)
(* and an unknown kind; two values per field and three flag-word values.  *)
(* TIMEOUT, HASHSIZE, SKBQUEUE and SKBPRIO are given as text: the texts   *)
(* sit on both sides of each range end (the timeout cap, the u16 maximum), *)
(* spell numbers in each base (010 is eight, 0x1f, 0177777), or are not    *)
(* numbers (08, 0x, 12a, -1, the empty text, a minor-less skbprio).       *)
EXTENDS DataBlob, TLC

CONSTANTS v1, v2

MCOpts == {"TIMEOUT", "HASHSIZE", "MAXELEM", "TYPE", "TYPENAME", "FAMILY",
           "EXIST", "FORCEADD", "NOMATCH", "FLAGS", "CADT_FLAGS", "ELEM",
           "SKBPRIO", "SKBQUEUE"}
MCTextOpts == {"TIMEOUT", "HASHSIZE", "SKBQUEUE", "SKBPRIO"}
MCTokens ==
    [o \in MCTextOpts |->
        CASE o = "TIMEOUT"  -> {"2147483", "2147484", "010", "0x1f", "08", "-1"}
          [] o = "HASHSIZE" -> {"1024", "0x", "12a", ""}
          [] o = "SKBQUEUE" -> {"65535", "65536", "0177777"}
          [] o = "SKBPRIO"  -> {"1:20", "7fff:ffff", "10000:1", "1:"}]
MCNumbers ==
    [o \in MCTextOpts |->
        CASE o = "TIMEOUT"  -> {600}
          [] o = "HASHSIZE" -> {1024}
          [] o = "SKBQUEUE" -> {65535}
          [] o = "SKBPRIO"  -> {65568}]     \* 1:20
MCCandidates == {0, 1, 8, 10, 31, 32, 1024, 32767, 65535, 65536, 2147483, 2147484}
MCVals == {v1, v2}
MCFlagsVals == {{}, {"EXIST"}, {"EXIST", "LIST_SETNAME"}}
MCCadtVals == {{}, {"NOMATCH", "FORCEADD"}}
MCIgnoredOpts == {"PROBES", "FAMILY"}
Perms == Permutations(MCVals)
=============================================================================
