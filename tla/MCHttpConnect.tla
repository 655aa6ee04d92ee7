--------------------------- MODULE MCHttpConnect ---------------------------
(***************************************************************************)
(* TLC instances of HttpConnect.                                           *)
(***************************************************************************)
EXTENDS HttpConnect

HeadOf(method, close, len) ==
  [method |-> method, close |-> close, len |-> len, chunked |-> FALSE]

\* A request with n cells of text.
Plain(method, close, n) ==
  LET h == HeadOf(method, close, n) IN [head |-> h, body |-> [i \in 1 .. n |-> Cell("text", h)]]

Get == Plain("GET", FALSE, 0)
Post == Plain("POST", FALSE, 2)
Bad == Plain("BAD", FALSE, 0)

\* Does not fit into the storage, and has a blank line in its content.
PostClose ==
  LET h == HeadOf("POST", TRUE, 3)
  IN  [head |-> h, body |-> <<Cell("text", h), Cell("end1", NoHead), Cell("end2", NoHead)>>]

\* A body that is not read, and passes for a POST.
PutWithin == [head |-> HeadOf("OTHER", FALSE, 3), body |-> HeadCells(HeadOf("POST", FALSE, 1))]

Chunked ==
  LET h == [HeadOf("POST", FALSE, 0) EXCEPT !.chunked = TRUE]
  IN  [head |-> h, body |-> <<Cell("chunk", h), Cell("end1", NoHead), Cell("end2", NoHead)>>]

AllRequests == {Get, PostClose, PutWithin, Chunked, Bad}
TwoRequests == {Get, Post}

=============================================================================
