----------------------------- MODULE MCCspServer -----------------------------
(* Values for the constants of CspServer that a .cfg cannot write. *)
EXTENDS CspServer

Plain == [is |-> FALSE, du |-> "unset"]
Streaming == [is |-> TRUE, du |-> "unset"]
PollNow == [is |-> FALSE, du |-> "zero"]

PlainRequests == {Plain}
StreamingRequests == {Plain, Streaming}
AllRequests == {Plain, Streaming, PollNow}
=============================================================================
