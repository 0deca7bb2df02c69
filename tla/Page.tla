-------------------------------- MODULE Page --------------------------------
(***************************************************************************)
(* madbfs::data::Page (cache.hpp 24-49, cache.cpp 6-52): a buffer of the   *)
(* page size and a u32 m_size whose bit dirty_bit is the dirty flag and    *)
(* whose other bits are the length.  Widths are constants: the code has    *)
(* WordBits = 32 (u32), DirtyBitPos = 28 (0x10000000) and usize of 64     *)
(* bits; a model scales them down together, keeping the dirty bit four    *)
(* places below the top of the word as in the code.                       *)
(*                                                                         *)
(* The operators here are pure: a page is a record [size, data], where    *)
(* size is the raw m_size and data maps 0 .. PageSize-1 to bytes.          *)
(***************************************************************************)
EXTENDS Naturals, Sequences, Bitwise

CONSTANTS
    WordBits,       \* width of u32
    DirtyBitPos,    \* position of dirty_bit in m_size
    SizeBits,       \* width of usize
    PageSize,       \* m_page_size in bytes
    Zero,           \* a byte of a zero-initialised buffer
    Garbage         \* a byte read from outside the page's buffer

ASSUME DirtyBitPos < WordBits /\ WordBits <= SizeBits

Word      == 2^WordBits
USize     == 2^SizeBits
dirty_bit == 2^DirtyBitPos

\* static_cast<u32>(n), and usize subtraction, which wraps.
U32(n)    == n % Word
Sub(a, b) == (a - b) % USize
\* ~x on a u32 (Bitwise's Not only flips bits up to the top bit of x).
Compl(x)  == (Word - 1) - x

Least(a, b) == IF a <= b THEN a ELSE b

\* Page::Page(key, buf, size): the length as given, the dirty bit clear
\* unless the length itself has it set.
NewPage(data, size) == [size |-> U32(size), data |-> data]

\* Page::size() and Page::is_dirty()
Size(p)    == p.size & Compl(dirty_bit)
IsDirty(p) == (p.size & dirty_bit) # 0

\* Page::set_dirty(set)
SetDirty(p, set) ==
    [p EXCEPT !.size = IF set THEN @ | dirty_bit ELSE @ & Compl(dirty_bit)]

\* Page::read(out, offset): copies min(size() - offset, out.size()) bytes
\* from offset; the subtraction is on usize.  A byte past the buffer is
\* Garbage (a heap over-read).
ReadCount(p, outSize, offset) == Least(Sub(Size(p), offset), outSize)
ReadBytes(p, outSize, offset) ==
    [i \in 1 .. ReadCount(p, outSize, offset) |->
        IF offset + i - 1 < PageSize THEN p.data[offset + i - 1] ELSE Garbage]

\* Page::write(in, offset): copies in at offset, then sets the length to
\* offset + in.size() keeping the dirty bit.
Write(p, in, offset) ==
    [size |-> U32(offset + Len(in)) | (p.size & dirty_bit),
     data |-> [j \in DOMAIN p.data |->
                 IF offset <= j /\ j < offset + Len(in) THEN in[j - offset + 1]
                 ELSE p.data[j]]]
=============================================================================
