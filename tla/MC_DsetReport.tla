---------------------------- MODULE MC_DsetReport ----------------------------
(* One set name, two of the three legacy options, the registered revision *)
(* 0 against kernels supporting revisions in 0..1, the userspace protocol  *)
(* window 6..7 against kernel windows in 6..8, and one errno of each kind  *)
(* the translator tells apart.                                             *)
EXTENDS DsetReport

CONSTANTS s1, probes, gc

MCNames == {s1}
MCIgnoredOpts == {probes, gc}
MCKernelRevs == 0..1
MCKernelProtos == 6..8
MCKernelErrnos == {"ENOENT", "EEXIST", "EPERM", "ERR_EXIST", "ERR_HASH_FULL", "ERR_TYPE_SPECIFIC_OTHER"}
=============================================================================
