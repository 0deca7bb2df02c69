----------------------------- MODULE RpcServer -----------------------------
(***************************************************************************)
(* The madbfs-server of src/unnamed/part_002: Server::run accepts one      *)
(* connection at a time, shakes hands, and serves its requests through    *)
(* RequestHandler until the client goes; stop() ends the loop.            *)
(*                                                                         *)
(* A request's strings and spans are views into the connection's buffer  *)
(* (RequestHandler::m_buffer); Listdir and Read reuse that buffer for     *)
(* their answer ("WARN: invalidates strings and spans from argument").   *)
(* The buffer is a sequence of tags, one per byte, saying what the byte  *)
(* holds, with the generation of its allocation: a view is valid while   *)
(* its allocation lives and its bytes still hold what it points at.       *)
(* Growth follows libc++ (the NDK's library): a new allocation of        *)
(* max(2 * capacity, size) when the size passes the capacity.             *)
(*                                                                         *)
(* File contents are sequences of bytes; copy_file_range, read, write    *)
(* and truncate act on them.  The namespace calls (stat, mkdir, rename,  *)
(* ...) are one system call each that succeeds or fails with an errno:  *)
(* the kernel's namespace is not modelled and their paths are not among  *)
(* the files.                                                              *)
(***************************************************************************)
EXTENDS Naturals, Integers, Sequences, SequencesExt, FiniteSets

CONSTANTS
    Files,          \* regular files the requests read and write (model values)
    Names,          \* directory entry names (model values)
    Bytes,          \* byte values; 0 fills holes
    Errnos,         \* errno values a failing call may set
    Requests,       \* requests a client may send
    Listings,       \* what readdir yields for the directory of a Listdir
    Contents,       \* file contents at start
    Caps,           \* capacities a connection's buffer may start with
    Chunk,          \* copy_file_range's buffer, 256 KiB in the code
    DiskBytes,      \* room on the device: no file grows past this length
    CallsFail,      \* whether system calls may fail
    ShortIO,        \* whether read and write may move fewer bytes than asked
    ConnBound,      \* connections accepted (a bound of the model)
    ReqBound        \* requests served (a bound of the model)

ASSUME 0 \in Bytes /\ Chunk \in Nat \ {0} /\ DiskBytes \in Nat

\* rpc::Status: the errno values the protocol carries.
StatusCodes == {"ENOENT", "EACCES", "EEXIST", "ENOTDIR", "EISDIR", "EINVAL", "ENOTEMPTY"}

\* Requests whose fields are one path; Rename and CopyFileRange carry two.
NamespaceProcs == {"Stat", "Readlink", "Mknod", "Mkdir", "Unlink", "Rmdir", "Rename", "Utimens"}
Procs == NamespaceProcs \cup {"Listdir", "Truncate", "Read", "Write", "CopyFileRange"}

-----------------------------------------------------------------------------
(* The buffer and views into it                                           *)

MaxOf(a, b) == IF a >= b THEN a ELSE b
MinOf(a, b) == IF a <= b THEN a ELSE b

\* The buffer is [gen, cap, size, data]: data holds the tags of the bytes
\* the allocation has been written with, size of them in the vector.

\* data with the tags s written from pos on.
Splice(data, pos, s) ==
    [i \in 1 .. MaxOf(Len(data), pos + Len(s)) |->
        IF i > pos /\ i <= pos + Len(s) THEN s[i - pos] ELSE data[i]]

\* std::vector growth to hold n elements (libc++ __recommend): a new
\* allocation gets a copy of the elements only.
Reserve(b, n) ==
    IF n <= b.cap THEN b
    ELSE [b EXCEPT !.gen = @ + 1, !.cap = MaxOf(2 * @, n), !.data = SubSeq(@, 1, b.size)]

\* buf.insert(buf.end(), first, last)
Insert(b, s) ==
    LET g == Reserve(b, b.size + Len(s))
    IN  [g EXCEPT !.data = Splice(@, g.size, s), !.size = @ + Len(s)]

\* buf.resize(n): new elements are value-initialised.
Resize(b, n) ==
    LET g == Reserve(b, n)
    IN  IF n <= g.size THEN [g EXCEPT !.size = n]
        ELSE [g EXCEPT !.data = Splice(@, g.size, [i \in 1 .. n - g.size |-> "zero"]), !.size = n]

\* buf.clear(): the size drops to 0, the allocation and its bytes stay.
Clear(b) == [b EXCEPT !.size = 0]

\* ::read(fd, buf.data(), ...) of n bytes.
FillData(b, n) == [b EXCEPT !.data = Splice(@, 0, [i \in 1 .. n |-> "data"])]

\* A Str or Span of len bytes at off in b, pointing at bytes that hold tag.
View(b, tag, off, len) == [gen |-> b.gen, tag |-> tag, off |-> off, len |-> len]

\* The view's allocation is the live one and its bytes still hold tag.
Valid(b, v) ==
    /\ v.gen = b.gen
    /\ v.off + v.len <= Len(b.data)
    /\ \A i \in v.off + 1 .. v.off + v.len : b.data[i] = v.tag

\* ... and they are elements of the vector.
InVector(b, v) == Valid(b, v) /\ v.off + v.len <= b.size

\* What rpc::Server decodes a request into: a header, then each string
\* and span field in order.
Layout(q) ==
    <<"hdr", "path">> \o (IF q.proc \in {"Rename", "CopyFileRange"} THEN <<"path2">> ELSE <<>>)
                      \o (IF q.proc = "Write" THEN [i \in DOMAIN q.payload |-> "in"] ELSE <<>>)

-----------------------------------------------------------------------------
(* Files                                                                  *)

\* The file after the bytes d are written at pos; a gap reads as zeros.
Overwrite(s, pos, d) ==
    IF d = <<>> THEN s
    ELSE [i \in 1 .. MaxOf(Len(s), pos + Len(d)) |->
            IF i > pos /\ i <= pos + Len(d) THEN d[i - pos]
            ELSE IF i <= Len(s) THEN s[i] ELSE 0]

\* ::truncate(path, n)
TruncateTo(s, n) == [i \in 1 .. n |-> IF i <= Len(s) THEN s[i] ELSE 0]

\* The outcomes of one call: success, or any errno when calls may fail.
Tries == {"ok"} \cup (IF CallsFail THEN Errnos ELSE {})

\* Mutant of StatusFromErrno: the errno is cast without the check.
StatusUnchecked(e) == e

\* status_from_errno: an errno rpc::Status names is sent as is, any
\* other as InvalidArgument.
StatusFromErrno(e) == IF e \in StatusCodes THEN e ELSE "EINVAL"

\* lseek(fd, off, SEEK_SET): a negative offset is EINVAL.
SeekTries(off) == IF off < 0 THEN {"EINVAL"} ELSE Tries

\* The byte counts ::read may return for n asked with avail left, and
\* ::write for n given with room left (short on a full disk).
ReadLens(n, avail) ==
    IF MinOf(n, avail) <= 0 THEN {0}
    ELSE IF ShortIO THEN 1 .. MinOf(n, avail) ELSE {MinOf(n, avail)}
WriteLens(n, room) ==
    IF n = 0 THEN {0}
    ELSE IF room <= 0 THEN {}
    ELSE IF ShortIO THEN 1 .. MinOf(n, room) ELSE {MinOf(n, room)}

\* The outcomes of ::write of n bytes with room left that are errors.
WriteErrs(n, room) ==
    (IF n > 0 /\ room <= 0 THEN {"ENOSPC"} ELSE {}) \cup (Tries \ {"ok"})

-----------------------------------------------------------------------------
(* RequestHandler::handle_req, one operator per request type.  Each gives *)
(* the set of outcomes the system calls allow: the buffer and files after *)
(* the handler, its response, and whether it read a request view that no *)
(* longer held its bytes (the error logging of status_from_errno).        *)

Status(e) == [kind |-> "status", status |-> StatusFromErrno(e), views |-> {}, size |-> 0]
Reply(proc, views, size) == [kind |-> proc, status |-> "ok", views |-> views, size |-> size]

Out(b, f, r, stale) == [buf |-> b, fs |-> f, resp |-> r, stale |-> stale]

\* status_from_errno(__func__, path, ...) after e: it logs path.
Fail(b, f, e, v) == Out(b, f, Status(e), ~Valid(b, v))

\* DEFER { if (close(fd) < 0) status_from_errno(__func__, path, ...); }
Closed(o, v) == {[o EXCEPT !.stale = @ \/ (c # "ok" /\ ~Valid(o.buf, v))] : c \in Tries}
ClosedAll(os, v) == UNION {Closed(o, v) : o \in os}

\* Stat, Readlink, Mknod, Mkdir, Unlink, Rmdir, Rename, Utimens: one call.
\* Readlink answers from a thread_local array, not from the buffer.
Namespace(q, b, f, a) ==
    {Out(b, f, Reply(q.proc, {}, 0), FALSE)} \cup {Fail(b, f, e, a.path) : e \in Tries \ {"ok"}}

\* handle_req(Truncate)
Truncate(q, b, f, a) ==
    LET tries == IF q.size < 0 THEN {"EINVAL"} ELSE Tries
    IN  {Fail(b, f, e, a.path) : e \in tries \ {"ok"}}
        \cup (IF "ok" \in tries
              THEN {Out(b, [f EXCEPT ![q.file1] = TruncateTo(@, q.size)],
                        Reply("Truncate", {}, 0), FALSE)}
              ELSE {})

\* handle_req(Read): open, lseek, buf.resize(size), read into buf; the
\* answer is a span over the first len bytes of buf.
Read(q, b, f, a) ==
    LET b2 == Resize(b, q.size)
        avail == Len(f[q.file1]) - q.off1
        done == {Out(FillData(b2, n), f,
                     Reply("Read", {View(FillData(b2, n), "data", 0, n)}, n), FALSE)
                   : n \in ReadLens(q.size, avail)}
    IN  {Fail(b, f, e, a.path) : e \in Tries \ {"ok"}}
        \cup ClosedAll({Fail(b, f, e, a.path) : e \in SeekTries(q.off1) \ {"ok"}}
                       \cup (IF "ok" \in SeekTries(q.off1)
                             THEN {Fail(b2, f, e, a.path) : e \in Tries \ {"ok"}} \cup done
                             ELSE {}),
                       a.path)

\* handle_req(Write): open, lseek, one ::write of the request's span.
Write(q, b, f, a) ==
    LET n == Len(q.payload)
        room == DiskBytes - q.off1
        done == {Out(b, [f EXCEPT ![q.file1] = Overwrite(@, q.off1, SubSeq(q.payload, 1, w))],
                     Reply("Write", {}, w), ~Valid(b, a.in))
                   : w \in WriteLens(n, room)}
    IN  {Fail(b, f, e, a.path) : e \in Tries \ {"ok"}}
        \cup ClosedAll({Fail(b, f, e, a.path) : e \in SeekTries(q.off1) \ {"ok"}}
                       \cup (IF "ok" \in SeekTries(q.off1)
                             THEN {Fail(b, f, e, a.path) : e \in WriteErrs(n, room)} \cup done
                             ELSE {}),
                       a.path)

\* The readdir loop of handle_req(Listdir): "." and ".." and entries
\* fstatat fails on are skipped; each name is appended to the buffer and
\* its offset and size recorded (a Slice).
RECURSIVE ReadDir(_, _, _)
ReadDir(b, es, slices) ==
    IF es = <<>> THEN [buf |-> b, slices |-> slices]
    ELSE LET e == Head(es)
         IN  IF e.name \in {".", ".."} \/ ~e.statOk THEN ReadDir(b, Tail(es), slices)
             ELSE ReadDir(Insert(b, [i \in 1 .. e.len |-> e.name]), Tail(es),
                          Append(slices, [tag |-> e.name, off |-> b.size, len |-> e.len]))

\* Mutant of Listdir: each entry's Str is taken as its name is appended.
ListdirEager(q, b, f, a, l) ==
    LET step(acc, e) ==
            IF e.name \in {".", ".."} \/ ~e.statOk THEN acc
            ELSE LET b2 == Insert(acc.buf, [i \in 1 .. e.len |-> e.name])
                 IN  [buf |-> b2,
                      views |-> acc.views \cup {View(b2, e.name, acc.buf.size, e.len)}]
        r == FoldLeft(step, [buf |-> Clear(b), views |-> {}], l)
    IN  {Fail(b, f, e, a.path) : e \in Tries \ {"ok"}}
        \cup Closed(Out(r.buf, f, Reply("Listdir", r.views, 0), FALSE), a.path)

\* handle_req(Listdir): opendir, buf.clear(), the readdir loop, then the
\* entries as Str over the final buffer; closedir on the way out.
Listdir(q, b, f, a, l) ==
    LET r == ReadDir(Clear(b), l, <<>>)
        entries == {View(r.buf, s.tag, s.off, s.len) : s \in ToSet(r.slices)}
    IN  {Fail(b, f, e, a.path) : e \in Tries \ {"ok"}}
        \cup Closed(Out(r.buf, f, Reply("Listdir", entries, 0), FALSE), a.path)

\* The loop of handle_req(CopyFileRange): read up to Chunk bytes from the
\* input's position, write what was read at the output's position, add
\* what write returned to copied; stop at a read of 0 or an error.  It
\* gives the files, copied and the error that ended it ("ok" for none).
RECURSIVE CopyLoop(_, _, _, _, _, _)
CopyLoop(f, src, dst, ip, op, copied) ==
    LET Ended(g, e) == [fs |-> g, copied |-> copied, err |-> e]
        Step(r) ==
            IF r = 0 THEN {Ended(f, "ok")}
            ELSE LET d == SubSeq(f[src], ip + 1, ip + r)
                 IN  {Ended(f, e) : e \in WriteErrs(r, DiskBytes - op)}
                     \cup UNION {CopyLoop([f EXCEPT ![dst] = Overwrite(@, op, SubSeq(d, 1, w))],
                                          src, dst, ip + r, op + w, copied + w)
                                   : w \in WriteLens(r, DiskBytes - op)}
    IN  {Ended(f, e) : e \in Tries \ {"ok"}}
        \cup UNION {Step(r) : r \in ReadLens(Chunk, Len(f[src]) - ip)}

\* Mutant of Copy: the input is read from its start (no lseek on in_fd).
CopyUnseeked(q, f) == CopyLoop(f, q.file1, q.file2, 0, q.off2, 0)

\* The loop started where the two lseeks put the descriptors.
Copy(q, f) == CopyLoop(f, q.file1, q.file2, q.off1, q.off2, 0)

\* handle_req(CopyFileRange): open and seek the input, open and seek the
\* output, the loop; the descriptors are closed, output first, on the way
\* out.  The copy buffer is a local String: m_buffer is not touched.
CopyFileRange(q, b, f, a) ==
    LET outcome(o) ==
            IF o.err = "ok" THEN Out(b, o.fs, Reply("CopyFileRange", {}, o.copied), FALSE)
            ELSE Fail(b, o.fs, o.err, a.path2)
        opened ==
            {Fail(b, f, e, a.path2) : e \in Tries \ {"ok"}}
            \cup ClosedAll({Fail(b, f, e, a.path2) : e \in SeekTries(q.off2) \ {"ok"}}
                           \cup (IF "ok" \in SeekTries(q.off2)
                                 THEN {outcome(o) : o \in Copy(q, f)}
                                 ELSE {}),
                           a.path2)
    IN  {Fail(b, f, e, a.path) : e \in Tries \ {"ok"}}
        \cup ClosedAll({Fail(b, f, e, a.path) : e \in SeekTries(q.off1) \ {"ok"}}
                       \cup (IF "ok" \in SeekTries(q.off1) THEN opened ELSE {}),
                       a.path)

\* The handler lambda of Server::run: std::visit on the request type.
Handled(q, b, f, a) ==
    CASE q.proc \in NamespaceProcs -> Namespace(q, b, f, a)
      [] q.proc = "Truncate"       -> Truncate(q, b, f, a)
      [] q.proc = "Read"           -> Read(q, b, f, a)
      [] q.proc = "Write"          -> Write(q, b, f, a)
      [] q.proc = "Listdir"        -> UNION {Listdir(q, b, f, a, l) : l \in Listings}
      [] q.proc = "CopyFileRange"  -> CopyFileRange(q, b, f, a)

-----------------------------------------------------------------------------
(* Server::run                                                             *)

NoReq == [proc |-> "none"]
NoResp == [kind |-> "none", status |-> "ok", views |-> {}, size |-> 0]

VARIABLES
    pc,         \* where run is: init, loop, accept, handshake, listen, handle, send, returned
    running,    \* m_running
    acceptor,   \* m_acceptor: "open", or "closed" by stop()
    conns,      \* connections accepted so far
    served,     \* requests answered so far
    buf,        \* the connection's buffer: allocation generation, capacity, byte tags
    req,        \* the request being served
    args,       \* the views its string and span fields are
    resp,       \* the response handle_req returned
    fs,         \* file contents
    stale,      \* some handler logged a request view after the buffer moved on
    result      \* what run returned

vars == <<pc, running, acceptor, conns, served, buf, req, args, resp, fs, stale, result>>

Init ==
    /\ pc = "init"
    /\ running = FALSE
    /\ acceptor = "open"
    /\ conns = 0
    /\ served = 0
    /\ buf = [gen |-> 0, cap |-> 0, size |-> 0, data |-> <<>>]
    /\ req = NoReq
    /\ args = [path |-> View(buf, "path", 1, 1), path2 |-> View(buf, "path2", 2, 1),
               in |-> View(buf, "in", 2, 0)]
    /\ resp = NoResp
    /\ fs \in [Files -> Contents]
    /\ stale = FALSE
    /\ result = "pending"

\* m_running = true, then the while loop's test.
Run ==
    /\ pc = "init"
    /\ pc' = "loop"
    /\ running' = TRUE
    /\ UNCHANGED <<acceptor, conns, served, buf, req, args, resp, fs, stale, result>>

LoopHead ==
    /\ pc = "loop"
    /\ IF running THEN pc' = "accept" /\ UNCHANGED result
       ELSE pc' = "returned" /\ result' = "ok"
    /\ UNCHANGED <<running, acceptor, conns, served, buf, req, args, resp, fs, stale>>

\* co_await m_acceptor.async_accept() completes with a client.
ClientConnects ==
    /\ pc = "accept"
    /\ acceptor = "open"
    /\ conns < ConnBound
    /\ pc' = "handshake"
    /\ conns' = conns + 1
    /\ UNCHANGED <<running, acceptor, served, buf, req, args, resp, fs, stale, result>>

\* async_accept fails: the acceptor was cancelled and closed by stop(), or
\* (AcceptError) the accept itself failed; either way the loop breaks.
AcceptCancelled ==
    /\ pc = "accept"
    /\ acceptor = "closed"
    /\ pc' = "returned"
    /\ result' = "ok"
    /\ UNCHANGED <<running, acceptor, conns, served, buf, req, args, resp, fs, stale>>

AcceptError ==
    /\ pc = "accept"
    /\ CallsFail
    /\ acceptor = "open"
    /\ pc' = "returned"
    /\ result' = "ok"
    /\ UNCHANGED <<running, acceptor, conns, served, buf, req, args, resp, fs, stale>>

\* rpc::handshake; on failure run returns the error.  A connection's
\* rpc::Server starts with a buffer of its own.
Handshake ==
    /\ pc = "handshake"
    /\ \/ /\ pc' = "listen"
          /\ \E c \in Caps : buf' = [gen |-> buf.gen + 1, cap |-> c, size |-> 0, data |-> <<>>]
          /\ UNCHANGED result
       \/ /\ CallsFail
          /\ pc' = "returned"
          /\ result' = "error"
          /\ UNCHANGED buf
    /\ UNCHANGED <<running, acceptor, conns, served, req, args, resp, fs, stale>>

\* rpc::Server::listen decodes a request into its buffer.
Receive ==
    /\ pc = "listen"
    /\ served < ReqBound
    /\ \E q \in Requests :
          LET lay == Layout(q)
              b == LET g == Reserve(buf, Len(lay)) IN [g EXCEPT !.data = Splice(@, 0, lay), !.size = Len(lay)]
          IN  /\ buf' = b
              /\ req' = q
              /\ args' = [path |-> View(b, "path", 1, 1), path2 |-> View(b, "path2", 2, 1),
                          in |-> View(b, "in", Len(lay) - Len(q.payload), Len(q.payload))]
    /\ pc' = "handle"
    /\ UNCHANGED <<running, acceptor, conns, served, resp, fs, stale, result>>

\* The handler lambda runs handle_req for the request.
Handle ==
    /\ pc = "handle"
    /\ \E o \in Handled(req, buf, fs, args) :
          /\ buf' = o.buf
          /\ fs' = o.fs
          /\ resp' = o.resp
          /\ stale' = (stale \/ o.stale)
    /\ pc' = "send"
    /\ UNCHANGED <<running, acceptor, conns, served, req, args, result>>

\* listen sends the response; a send error ends listen.
Send ==
    /\ pc = "send"
    /\ \/ pc' = "listen" /\ served' = served + 1
       \/ CallsFail /\ pc' = "loop" /\ UNCHANGED served
    /\ resp' = NoResp
    /\ UNCHANGED <<running, acceptor, conns, buf, req, args, fs, stale, result>>

\* The client closes the connection: listen returns, run goes round.
PeerClose ==
    /\ pc = "listen"
    /\ pc' = "loop"
    /\ UNCHANGED <<running, acceptor, conns, served, buf, req, args, resp, fs, stale, result>>

\* Mutant of Stop: the acceptor is left open.
StopNoCancel ==
    /\ acceptor = "open"
    /\ running' = FALSE
    /\ UNCHANGED <<pc, acceptor, conns, served, buf, req, args, resp, fs, stale, result>>

\* Server::stop(): m_running = false, the acceptor cancelled and closed.
Stop ==
    /\ acceptor = "open"
    /\ running' = FALSE
    /\ acceptor' = "closed"
    /\ UNCHANGED <<pc, conns, served, buf, req, args, resp, fs, stale, result>>

Returned ==
    /\ pc = "returned"
    /\ UNCHANGED vars

Next ==
    \/ Run \/ LoopHead \/ ClientConnects \/ AcceptCancelled \/ AcceptError
    \/ Handshake \/ Receive \/ Handle \/ Send \/ PeerClose \/ Stop \/ Returned

\* The steps run takes by itself on its executor, and the client closing
\* its connection.  At most one of them is enabled in a state.
ServerStep ==
    \/ Run \/ LoopHead \/ AcceptCancelled \/ Handshake \/ Handle \/ Send \/ PeerClose

\* run's own steps complete; a client eventually closes its connection.
\* Clients connecting, sending requests and stop() being called are not
\* assumed to happen.
Fairness == WF_vars(ServerStep)

Spec == Init /\ [][Next]_vars /\ Fairness

-----------------------------------------------------------------------------
(* Properties                                                              *)

TypeOK ==
    /\ pc \in {"init", "loop", "accept", "handshake", "listen", "handle", "send", "returned"}
    /\ running \in BOOLEAN
    /\ acceptor \in {"open", "closed"}
    /\ conns \in 0 .. ConnBound
    /\ served \in 0 .. ReqBound
    /\ buf.gen \in Nat /\ buf.size <= Len(buf.data) /\ Len(buf.data) <= buf.cap
    /\ req \in Requests \cup {NoReq}
    /\ resp.kind \in Procs \cup {"status", "none"}
    /\ resp.status \in StatusCodes \cup {"ok"}
    /\ fs \in [Files -> Seq(Bytes)]
    /\ \A g \in Files : Len(fs[g]) <= DiskBytes
    /\ stale \in BOOLEAN
    /\ result \in {"pending", "ok", "error"}

(***************************************************************************)
(* Every Str and Span a response hands to listen still points at the     *)
(* bytes it names when the response is sent: Listdir's names survive the *)
(* buffer growing while the directory is read (handle_req(Listdir) keeps *)
(* offsets and makes the Strs after the loop), Read's data the resize.   *)
(***************************************************************************)
ResponseViewsValid ==
    pc = "send" => \A v \in resp.views : InVector(buf, v)

(***************************************************************************)
(* A copy_file_range that succeeds has put into the output file, at the  *)
(* output offset, the bytes the input file held from the input offset,    *)
(* as many as it reports, and has changed no other file.                  *)
(***************************************************************************)
CopyFaithful ==
    [][Handle /\ req.proc = "CopyFileRange" /\ resp'.kind = "CopyFileRange" =>
         LET src == fs[req.file1]
             n   == resp'.size
         IN  /\ n = 0 \/ req.off1 + n <= Len(src)
             /\ fs'[req.file2] = Overwrite(fs[req.file2], req.off2,
                                           SubSeq(src, req.off1 + 1, req.off1 + n))
             /\ \A g \in Files \ {req.file2} : fs'[g] = fs[g]]_vars

(***************************************************************************)
(* Once stop() has been called on a running server, run returns: at once *)
(* when it waits in async_accept, after the client goes when it serves   *)
(* one.                                                                    *)
(***************************************************************************)
StopEndsRun == (pc # "init" /\ ~running) ~> (pc = "returned")

(***************************************************************************)
(* No handler reads a request string after the buffer under it changed:  *)
(* the error paths that log path (status_from_errno, the DEFERred close) *)
(* come after Listdir's buf.clear() and Read's buf.resize().              *)
(***************************************************************************)
NoStalePathUse == ~stale

(***************************************************************************)
(* copy_file_range copies at most the size the request asks for.          *)
(***************************************************************************)
CopyWithinSize ==
    [][Handle /\ req.proc = "CopyFileRange" /\ resp'.kind = "CopyFileRange" =>
         resp'.size <= req.size]_vars
=============================================================================
