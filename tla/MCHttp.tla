------------------------------- MODULE MCHttp -------------------------------
(***************************************************************************)
(* HttpDownload for TLC: a file of each kind.  The plain one ends where    *)
(* the receive buffer is full, the others do not.                          *)
(***************************************************************************)
EXTENDS HttpDownload

Samples == {[kind |-> "ranges", len |-> 5], [kind |-> "plain", len |-> 4],
            [kind |-> "chunked", len |-> 3]}
=============================================================================
