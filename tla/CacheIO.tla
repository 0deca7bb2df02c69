------------------------------- MODULE CacheIO -------------------------------
(***************************************************************************)
(* The byte arithmetic of Cache::read, write and flush (cache.cpp 63-243)  *)
(* for one file and one caller: how a byte range is split into pages,     *)
(* where each page is fetched, copied into and copied out of, and what    *)
(* flush hands to the device.  Each call runs to completion (one caller,  *)
(* so no other task runs at its awaits), and the budget holds every page  *)
(* (eviction is the business of module Cache).                            *)
(*                                                                         *)
(* A byte is named by where it belongs: <<"dev", pos>> is the device's    *)
(* original byte at file position pos, <<w, pos>> the byte a write tagged *)
(* w meant for pos, Zero a byte of a fresh buffer.                         *)
(***************************************************************************)
EXTENDS Naturals, Sequences, Page

CONSTANTS
    NumPages,   \* pages of the file the device holds or a write may reach
    Writers,    \* tags telling apart the data of different writes
    NoPage,
    NoWrite,
    ReadPastEnd \* whether a read may reach past the end of the file

Indices   == 0 .. NumPages - 1
FileSpan  == NumPages * PageSize
Positions == 0 .. FileSpan - 1
Bytes     == {Zero, Garbage} \cup ({"dev"} \X Positions) \cup (Writers \X Positions)

\* A well-formed page: its length within the buffer (spec 3: length <= P).
PageRec == [size: {s \in 0 .. Word - 1 : (s & Compl(dirty_bit)) <= PageSize},
            data: [0 .. PageSize - 1 -> Bytes]]

VARIABLES
    pages,      \* index -> the resident Page (m_table/m_lru of this file)
    dev,        \* the device's file: position -> byte
    devLen,     \* the device's file length
    dirtyRef,   \* ghost: the dirty flag spec 4.5/4.7 gives each resident page
    lastWrite,  \* ghost: offset, size and tag of the latest write call
    rawOk,      \* ghost: every read of the latest write's range returned it
    inBuffer,   \* ghost: no Page::read copied from outside the buffer
    fileLen,    \* ghost: the file's length as its writers see it
    written     \* ghost: position -> tag of the write that last put a byte there

vars == <<pages, dev, devLen, dirtyRef, lastWrite, rawOk, inBuffer, fileLen, written>>

EmptyBuffer == [j \in 0 .. PageSize - 1 |-> Zero]

\* Mutant of LocalOffset: the first page's offset applied to every page.
LocalOffsetEvery(index, start, offset) == offset % PageSize

\* local_offset: the offset inside the first page, 0 in the others.
LocalOffset(index, start, offset) == IF index = start THEN offset % PageSize ELSE 0

(***************************************************************************)
(* on_miss(span, index * P): the transport reads up to a page from the     *)
(* device at that offset; the bytes read become the page's length.         *)
(***************************************************************************)
Fetched(index) ==
    LET at  == index * PageSize
        len == IF devLen > at THEN Least(PageSize, devLen - at) ELSE 0
    IN  NewPage([j \in 0 .. PageSize - 1 |-> IF j < len THEN dev[at + j] ELSE Zero], len)

(***************************************************************************)
(* The page loop of Cache::read from index to last: take the resident page *)
(* or fetch it, then copy from it into out at total_read, the sub-span     *)
(* being out.size() - total_read long.                                     *)
(***************************************************************************)
RECURSIVE ReadLoop(_, _, _)
ReadLoop(st, index, c) ==
    IF index > c.last THEN st
    ELSE LET page  == IF st.pages[index] # NoPage THEN st.pages[index] ELSE Fetched(index)
             local == LocalOffset(index, c.start, c.offset)
             bytes == ReadBytes(page, Sub(c.size, Len(st.out)), local)
         IN  ReadLoop([pages |-> [st.pages EXCEPT ![index] = page],
                       out   |-> st.out \o bytes,
                       inBuf |-> st.inBuf /\ local + Len(bytes) <= PageSize],
                      index + 1, c)

\* Mutant of WriteSpan: the slice not capped at the end of the page.
WriteSpanUncapped(local, size, total) == size - total

\* write = min(m_page_size - local_offset, in.size() - total_written)
WriteSpan(local, size, total) == Least(PageSize - local, size - total)

(***************************************************************************)
(* The page loop of Cache::write: allocate a zeroed page of length 0 when *)
(* the key is not resident (no fetch), write the slice, set it dirty.     *)
(***************************************************************************)
RECURSIVE WriteLoop(_, _, _, _)
WriteLoop(pg, index, total, c) ==
    IF index > c.last THEN pg
    ELSE LET page  == IF pg[index] # NoPage THEN pg[index] ELSE NewPage(EmptyBuffer, 0)
             local == LocalOffset(index, c.start, c.offset)
             n     == WriteSpan(local, c.size, total)
             in    == [i \in 1 .. n |-> <<c.tag, c.offset + total + i - 1>>]
         IN  WriteLoop([pg EXCEPT ![index] = SetDirty(Write(page, in, local), TRUE)],
                       index + 1, total + n, c)

(***************************************************************************)
(* The page loop of Cache::flush over 0 .. num_pages-1: a resident dirty   *)
(* page is read whole into the scratch buffer, set clean, and on_flush     *)
(* writes what was read at index * P on the device.                        *)
(***************************************************************************)
RECURSIVE FlushLoop(_, _, _)
FlushLoop(st, index, numPages) ==
    IF index >= numPages THEN st
    ELSE LET p     == st.pages[index]
             at    == index * PageSize
             bytes == ReadBytes(p, PageSize, 0)
         IN  IF p = NoPage \/ ~IsDirty(p)
             THEN FlushLoop(st, index + 1, numPages)
             ELSE FlushLoop([pages  |-> [st.pages EXCEPT ![index] = SetDirty(p, FALSE)],
                             dev    |-> [q \in Positions |->
                                           IF at <= q /\ q < at + Len(bytes)
                                           THEN bytes[q - at + 1] ELSE st.dev[q]],
                             devLen |-> IF at + Len(bytes) > st.devLen
                                        THEN at + Len(bytes) ELSE st.devLen,
                             flushed |-> st.flushed \cup {index}],
                            index + 1, numPages)

-----------------------------------------------------------------------------
Init ==
    /\ devLen \in 0 .. FileSpan
    /\ dev = [q \in Positions |-> IF q < devLen THEN <<"dev", q>> ELSE Zero]
    /\ pages = [i \in Indices |-> NoPage]
    /\ dirtyRef = [i \in Indices |-> FALSE]
    /\ lastWrite = NoWrite
    /\ rawOk = TRUE
    /\ inBuffer = TRUE
    /\ fileLen = devLen
    /\ written = [q \in Positions |-> NoWrite]

\* A read or write call: its range, start and last as the code computes
\* them (last with usize arithmetic), and the tag of the data written.
Call(offset, size, tag) ==
    [offset |-> offset, size |-> size, tag |-> tag, start |-> offset \div PageSize,
     last |-> Sub(offset + size, 1) \div PageSize]

\* The bytes the latest write put at offset .. offset+size-1, if it covered
\* exactly that range.
WrittenHere(offset, size) ==
    lastWrite # NoWrite /\ lastWrite.offset = offset /\ lastWrite.size = size

\* Cache::read(id, out, offset, on_miss)
Read(offset, size) ==
    LET c == Call(offset, size, NoWrite)
        r == ReadLoop([pages |-> pages, out |-> <<>>, inBuf |-> TRUE], c.start, c)
    IN  /\ pages'    = r.pages
        /\ inBuffer' = (inBuffer /\ r.inBuf)
        /\ rawOk'    = (rawOk /\ (WrittenHere(offset, size) =>
                          r.out = [i \in 1 .. size |-> <<lastWrite.tag, offset + i - 1>>]))
        /\ UNCHANGED <<dev, devLen, dirtyRef, lastWrite, fileLen, written>>

\* Cache::write(id, in, offset)
WriteCall(offset, size, tag) ==
    LET c == Call(offset, size, tag)
    IN  /\ pages'     = WriteLoop(pages, c.start, 0, c)
        /\ dirtyRef'  = [i \in Indices |-> IF c.start <= i /\ i <= c.last THEN TRUE ELSE dirtyRef[i]]
        /\ lastWrite' = [offset |-> offset, size |-> size, tag |-> tag]
        /\ fileLen'   = IF offset + size > fileLen THEN offset + size ELSE fileLen
        /\ written'   = [q \in Positions |-> IF offset <= q /\ q < offset + size THEN tag ELSE written[q]]
        /\ UNCHANGED <<dev, devLen, rawOk, inBuffer>>

\* Cache::flush(id, size, on_flush), on_flush always succeeding.
Flush(size) ==
    LET numPages == size \div PageSize + (IF size % PageSize # 0 THEN 1 ELSE 0)
        r == FlushLoop([pages |-> pages, dev |-> dev, devLen |-> devLen, flushed |-> {}],
                       0, numPages)
    IN  /\ pages'    = r.pages
        /\ dev'      = r.dev
        /\ devLen'   = r.devLen
        /\ dirtyRef' = [i \in Indices |-> IF i \in r.flushed THEN FALSE ELSE dirtyRef[i]]
        /\ UNCHANGED <<lastWrite, rawOk, inBuffer, fileLen, written>>

\* Cache::invalidate(): every page is dropped, dirty ones by design; a
\* write whose data is dropped is no longer the one a read must return.
Invalidate ==
    /\ pages'     = [i \in Indices |-> NoPage]
    /\ dirtyRef'  = [i \in Indices |-> FALSE]
    /\ lastWrite' = IF \E i \in Indices : dirtyRef[i] THEN NoWrite ELSE lastWrite
    /\ written'   = [q \in Positions |-> IF dirtyRef[q \div PageSize] THEN NoWrite ELSE written[q]]
    /\ UNCHANGED <<dev, devLen, rawOk, inBuffer, fileLen>>

\* Reads stay within the file unless ReadPastEnd allows them past it.
Next ==
    \/ \E offset \in Positions, size \in 1 .. FileSpan :
          /\ offset + size <= FileSpan
          /\ \/ /\ ReadPastEnd \/ offset + size <= fileLen
                /\ Read(offset, size)
             \/ \E tag \in Writers : WriteCall(offset, size, tag)
    \/ \E size \in 0 .. FileSpan : Flush(size)
    \/ Invalidate

Spec == Init /\ [][Next]_vars

-----------------------------------------------------------------------------
(* Properties                                                              *)

TypeOK ==
    /\ pages \in [Indices -> PageRec \cup {NoPage}]
    /\ dev \in [Positions -> Bytes]
    /\ devLen \in 0 .. FileSpan
    /\ dirtyRef \in [Indices -> BOOLEAN]
    /\ lastWrite \in {NoWrite} \cup [offset: Positions, size: 1 .. FileSpan, tag: Writers]
    /\ rawOk \in BOOLEAN
    /\ inBuffer \in BOOLEAN
    /\ fileLen \in 0 .. FileSpan
    /\ written \in [Positions -> Writers \cup {NoWrite}]

(***************************************************************************)
(* Read after write (spec 8.4): a read of exactly the range the latest     *)
(* write covered returns the written bytes, in order, after any number of *)
(* reads, flushes and clean invalidations in between.  It rests on        *)
(* local_offset, the per-page split, Page::write's copy and length, and   *)
(* Page::read's count agreeing byte for byte.                             *)
(***************************************************************************)
ReadAfterWrite == rawOk

(***************************************************************************)
(* The dirty bit of m_size is the dirty flag of spec 4.5 / 4.7: set by a  *)
(* write, cleared by a flush, clear on a fetched page, whatever the       *)
(* page's length (the length and the flag share one u32).                 *)
(***************************************************************************)
DirtyFlagFaithful ==
    \A i \in Indices : pages[i] # NoPage => IsDirty(pages[i]) = dirtyRef[i]

(***************************************************************************)
(* Page::read never copies from outside the page's buffer: the count      *)
(* min(size() - offset, out.size()) stays within the page (spec 4.1 puts  *)
(* the burden of offset <= length on the callers).                        *)
(***************************************************************************)
ReadInBuffer == inBuffer

(***************************************************************************)
(* Write-back keeps what was written: once a flush has set a page clean,  *)
(* every byte a write put in that page is on the device.  Cache::flush    *)
(* hands on_flush the page's size() bytes, so this rests on Page::write   *)
(* keeping the length the high-water mark of the page (spec 4.1).         *)
(***************************************************************************)
WrittenBytesFlushed ==
    \A q \in Positions :
        written[q] # NoWrite /\ ~dirtyRef[q \div PageSize] => dev[q] = <<written[q], q>>
=============================================================================
