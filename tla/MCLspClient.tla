------------------------------ MODULE MCLspClient ------------------------------
(* LspClient for TLC: two files, and what may happen to them. *)
EXTENDS LspClient

Each(f, g) == [x \in Files |-> IF x = "f" THEN f ELSE g]
Once == [opens |-> Each(1, 0), edits |-> Each(2, 0), starts |-> 1, asks |-> 0, reports |-> 0,
         refuses |-> FALSE, unversioned |-> {},
         texts |-> {"b"}, start |-> "a"]
\* One buffer edited and emptied, with a question of the user's beside it.
Edited == [Once EXCEPT !.asks = 1, !.texts = {"a", Empty}]
\* Its diagnostics.
Watched == [Once EXCEPT !.edits = Each(1, 0), !.reports = 2, !.unversioned = {Unknown}]
\* A file closed and opened again.
Reopened == [Once EXCEPT !.opens = Each(2, 0), !.edits = Each(1, 0), !.reports = 1]
\* Two buffers of one server.
TwoBuffers == [Once EXCEPT !.opens = Each(1, 1), !.edits = Each(1, 0)]
\* A server that answers with errors.
Refusing == [Once EXCEPT !.edits = Each(1, 0), !.refuses = TRUE]
\* The server restarted.
Restarted == [Once EXCEPT !.opens = Each(2, 0), !.edits = Each(1, 0), !.starts = 2]

EveryBound == {Edited, Watched, Reopened, TwoBuffers, Refusing, Restarted}
OnlyReopened == {Reopened}
=============================================================================
