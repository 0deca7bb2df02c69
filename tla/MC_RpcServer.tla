---------------------------- MODULE MC_RpcServer ----------------------------
(* Instantiates RpcServer for two files of at most a few bytes, a         *)
(* copy buffer of one byte (so the copy loop turns), and buffers that     *)
(* start small enough for a request or a directory to outgrow them.       *)
EXTENDS RpcServer

CONSTANTS fa, fb, n1, n2

Req(proc, f1, f2, o1, o2, size, payload) ==
    [proc |-> proc, file1 |-> f1, file2 |-> f2, off1 |-> o1, off2 |-> o2,
     size |-> size, payload |-> payload]

\* A namespace call, a directory, reads that fit and outgrow the buffer,
\* a write, a truncate, copies to a later and an earlier offset of the
\* other file, and a copy from a negative offset.
MCRequests ==
    { Req("Stat", fa, fa, 0, 0, 0, <<>>),
      Req("Listdir", fa, fa, 0, 0, 0, <<>>),
      Req("Read", fa, fa, 0, 1, 1, <<>>),
      Req("Read", fa, fa, 1, 0, 3, <<>>),
      Req("Write", fa, fa, 1, 0, 0, <<1>>),
      Req("Truncate", fb, fb, 0, 0, 1, <<>>),
      Req("CopyFileRange", fa, fb, 0, 1, 1, <<>>),
      Req("CopyFileRange", fa, fb, 1, 0, 2, <<>>),
      Req("CopyFileRange", fa, fb, -1, 0, 2, <<>>) }

Entry(name, len, ok) == [name |-> name, len |-> len, statOk |-> ok]

\* Listings: the dot entries and two names; one name fstatat fails on.
MCListings ==
    { <<Entry(".", 1, TRUE), Entry("..", 2, TRUE), Entry(n1, 2, TRUE), Entry(n2, 1, TRUE)>>,
      <<Entry(n1, 1, FALSE), Entry(n2, 2, TRUE)>> }

MCContents == { <<>>, <<0, 1>> }
\* A file of more than one copy buffer.
MCLongContents == { <<>>, <<0, 1, 0>> }

\* Requests of the same file at overlapping offsets, and a copy asking
\* for fewer bytes than the input holds.
MCSameFileRequests ==
    { Req("CopyFileRange", fa, fa, 0, 1, 1, <<>>),
      Req("CopyFileRange", fa, fb, 0, 0, 1, <<>>) }

\* Bound on the buffer's allocations.
MCConstraint == buf.gen <= 6
=============================================================================
