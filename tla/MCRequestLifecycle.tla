------------------------- MODULE MCRequestLifecycle -------------------------
(* The instance of RequestLifecycle for TLC. *)
EXTENDS RequestLifecycle

CONSTANTS r1, r2

In(path, sent, apiKey, host) ==
    [path |-> path, sent |-> sent, apiKey |-> apiKey, host |-> host]

\* Every path; an id sent, empty and absent; the right key, a wrong one, one
\* that is not ASCII and none; a host known and unknown.
MixedInputs ==
    { In("/health", None, None, "host"),
      In("/health", "id", "key", "host"),
      In("/rules", "", "wrong", "host"),
      In("/scans", "id", "key", "host"),
      In("/scans", None, "cle-non-ascii", None),
      In("/rules", None, None, None) }

OpenOrKey == {None, "key"}
Pair == {r1, r2}
=============================================================================
