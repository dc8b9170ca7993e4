----------------------------- MODULE RingBuffer -----------------------------
(***************************************************************************)
(* The circular byte buffers of utcp_utils.c, used for send_buf and        *)
(* recv_buf.  A ring is a function on 0 .. buf_size-1; offset is the       *)
(* ever-growing stream position the callers keep (head or tail) and is     *)
(* reduced modulo the size here, as in the code.                           *)
(***************************************************************************)
EXTENDS Integers, Sequences

\* A freshly calloc'ed buffer.
EmptyRing(buf_size) == [i \in 0 .. buf_size - 1 |-> 0]

\* Fault: the second memcpy of the wrapped case restarts at the front of dst.
ring_buf_read_unwrapped(ring, buf_size, offset, len) ==
  LET physical_offset == offset % buf_size
      part1_len       == buf_size - physical_offset
  IN  [k \in 1 .. len |-> IF physical_offset + len <= buf_size \/ k <= part1_len
                            THEN ring[(physical_offset + k - 1) % buf_size]
                            ELSE ring[0]]

\* The len bytes from offset on, in one piece or in two when they wrap.
ring_buf_read(ring, buf_size, offset, len) ==
  LET physical_offset == offset % buf_size
      part1_len       == buf_size - physical_offset
  IN  [k \in 1 .. len |-> IF physical_offset + len <= buf_size \/ k <= part1_len
                            THEN ring[physical_offset + k - 1]
                            ELSE ring[k - part1_len - 1]]

\* The ring after src has been copied in at offset, in one piece or in two.
ring_buf_write(ring, buf_size, offset, src) ==
  LET physical_offset == offset % buf_size
      part1_len       == buf_size - physical_offset
  IN  [i \in DOMAIN ring |->
         CASE i >= physical_offset /\ i < physical_offset + Len(src)
                -> src[i - physical_offset + 1]
           [] i < physical_offset /\ i < Len(src) - part1_len
                -> src[part1_len + i + 1]
           [] OTHER -> ring[i]]
=============================================================================
