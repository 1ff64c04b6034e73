---------------------------- MODULE MCNodeSession ----------------------------
(* Values of the constant of NodeSession that is no simple value.          *)
EXTENDS NodeSession

Set(f, value) == [field |-> f, value |-> value]

\* What requests change in the run: the session may start to stream, ask for
\* keep-alive batches or server-sent events, poll, or change its content type.
MCChanges ==
  {NoChange, Set("isStreaming", TRUE), Set("interval", TRUE), Set("sse", TRUE),
   Set("contentType", TRUE)}
=============================================================================
