------------------------------- MODULE MCAIQuota -------------------------------
(* Small instances of AIQuota for TLC. *)
EXTENDS AIQuota, TLC

\* Requests differ only in their state, and no property names one.
Interchangeable == Permutations(Requests)

===============================================================================
