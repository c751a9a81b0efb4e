------------------------------- MODULE Memory -------------------------------
(***************************************************************************)
(* RandomAccessMemory (random-access-memory/src/lib.rs) as a value: the    *)
(* bytes 0..length-1 as a sequence.  The code keeps them in zero-filled    *)
(* pages; a page that was never written reads as zeros, which is what the  *)
(* zero padding of a sequence gives, so the page size is not modelled.     *)
(***************************************************************************)
EXTENDS Naturals, Sequences

\* A RandomAccessMemory with nothing written (new / default): length 0.
EmptyMemory == <<>>

\* write(offset, data): length becomes max(length, offset + len); the bytes
\* at offset are overwritten, bytes past the old length and before offset
\* are the zeros of freshly allocated pages, every other byte is kept.
RamWrite(m, offset, data) ==
    LET front == IF offset > Len(m)
                 THEN m \o [i \in 1..(offset - Len(m)) |-> 0]
                 ELSE SubSeq(m, 1, offset)
        back  == IF offset + Len(data) >= Len(m) THEN <<>>
                 ELSE SubSeq(m, offset + Len(data) + 1, Len(m))
    IN  front \o data \o back

\* RandomAccessDisk::write cut short by a crash: write_all issues write()
\* calls front to back, so the file holds the first k bytes of the data at
\* offset (a hole before offset reads as zeros), and its length is the
\* file's size.  The in-memory length is lost with the process.
DiskWritePrefix(m, offset, data, k) ==
    IF k = 0 THEN m ELSE RamWrite(m, offset, SubSeq(data, 1, k))

\* read(offset, length): Err when offset + length exceeds the length,
\* otherwise the bytes offset..offset+length-1.
RamRead(m, offset, length) ==
    IF offset + length > Len(m)
    THEN [ok |-> FALSE, bytes |-> <<>>]
    ELSE [ok |-> TRUE, bytes |-> SubSeq(m, offset + 1, offset + length)]

=============================================================================
