----------------------------- MODULE MC_CacheIO -----------------------------
(* Instantiates CacheIO with the widths of the code scaled down: u32 to 6  *)
(* bits with the dirty bit at 2 (four places below the top, as 28 of 32), *)
(* usize to 8 bits.  Pages of 2 bytes lie below the dirty bit as 128 KiB   *)
(* pages do in the code; pages of 4 bytes reach it, as 256 MiB pages do.   *)
EXTENDS CacheIO
=============================================================================
