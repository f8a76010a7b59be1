------------------------------ MODULE FileContent ------------------------------
(***************************************************************************)
(* The bytes of one file of fisopfs: content[MAX_DATA_SIZE], the size kept *)
(* beside it, and directory_path, which follows content in struct Inode    *)
(* and is where strlen(content) goes on when content is full.              *)
(***************************************************************************)
EXTENDS Naturals, Sequences, FiniteSetsExt, Functions

CONSTANTS MAX_DATA_SIZE,
          Bytes,     \* that are written, 0 among them
          MaxWrite   \* how many at a time

NUL == 0
Slash == 47

ASSUME ContentAssumption == MAX_DATA_SIZE \in Nat \ {0} /\ NUL \in Bytes

Data == UNION {[1 .. n -> Bytes] : n \in 1 .. MaxWrite}
DIRECTORY_PATH == MAX_DATA_SIZE     \* where directory_path starts
Places == 0 .. DIRECTORY_PATH + 1   \* its last is the end of the string "/"
Fresh == [i \in Places |-> IF i = DIRECTORY_PATH THEN Slash ELSE NUL]

VARIABLES mem,   \* content and directory_path
          size,  \* inode->size
    text,  \* since it was empty it has only been written bytes other than 0,
           \* up to less than MAX_DATA_SIZE, and cut
    full   \* it has once filled its buffer

contentVars == <<mem, size, text, full>>

Strlen(c) == Min({i \in Places : c[i] = NUL})
Clear(c, from, to) == [i \in Places |-> IF i \in from .. to - 1 THEN NUL ELSE c[i]]

ContentInit == mem = Fresh /\ size = 0 /\ text = TRUE /\ full = FALSE

-----------------------------------------------------------------------------
\* memcpy() of the data.
Copied(offset, data) == [i \in Places |-> IF i \in offset .. offset + Len(data) - 1
                                          THEN data[i - offset + 1] ELSE mem[i]]

\* Mutant of SizeAfter: the file ends where the last write did.
SizeAfterLast(offset, data) == offset + Len(data)

SizeAfter(offset, data) == Strlen(Copied(offset, data))

\* fisopfs_write(), when it does not fail with EFBIG or EINVAL.
Write(offset, data) == /\ offset + Len(data) <= MAX_DATA_SIZE
                       /\ offset <= size
                       /\ size' = SizeAfter(offset, data)
                       /\ mem' = Clear(Copied(offset, data), size', size' + 1)
                       /\ text' = (text /\ NUL \notin Range(data) /\ offset + Len(data) < MAX_DATA_SIZE)
                       /\ full' = (full \/ Strlen(Copied(offset, data)) >= MAX_DATA_SIZE)

\* Mutant of TruncateToZero: one byte too many.
TruncateToZeroOverrun == /\ mem' = Clear(mem, 0, MAX_DATA_SIZE + 1) /\ size' = 0
                         /\ text' = TRUE /\ UNCHANGED full

\* fisopfs_truncate(path, 0).
TruncateToZero == /\ mem' = Clear(mem, 0, MAX_DATA_SIZE) /\ size' = 0
                  /\ text' = TRUE /\ UNCHANGED full

\* fisopfs_truncate(), shorter or longer: strlen(content) + 1 is where the
\* bytes to clear end or start.
Truncate(n) == LET content_size == Strlen(mem) + 1 IN
               /\ n \in 1 .. MAX_DATA_SIZE
               /\ mem' = IF n < content_size THEN Clear(mem, n, content_size)
                                             ELSE Clear(mem, content_size, n)
               /\ size' = n
               /\ text' = (text /\ n < content_size) /\ UNCHANGED full

ContentNext == \/ \E offset \in 0 .. MAX_DATA_SIZE, data \in Data : Write(offset, data)
               \/ TruncateToZero
               \/ \E n \in 1 .. MAX_DATA_SIZE : Truncate(n)

ContentSpec == ContentInit /\ [][ContentNext]_contentVars

-----------------------------------------------------------------------------
ContentTypeOK == /\ mem \in [Places -> Bytes \cup {NUL, Slash}]
                 /\ size \in 0 .. IF full THEN MAX_DATA_SIZE + 1 ELSE MAX_DATA_SIZE
                 /\ text \in BOOLEAN /\ full \in BOOLEAN

\* Text that does not fill the buffer is written, overwritten, appended and
\* cut like a sequence of bytes, although its length is found by strlen()
\* after every write (fisopfs_write, fisopfs_truncate).
file == [n \in 1 .. size |-> mem[n - 1]]
AsBytes == INSTANCE ByteFile
FileSpec == AsBytes!Init /\ [][text /\ text' => [AsBytes!Next]_file]_contentVars

\* Nothing of a text that was cut off shows when the file grows over it again.
TailClear == text => \A i \in size .. MAX_DATA_SIZE - 1 : mem[i] = NUL

\* The file stays in its directory: as long as content has an end, no write,
\* copy or clearing of it reaches directory_path.
StaysInDirectory == ~full => mem[DIRECTORY_PATH] = Slash

\* What is outside the file, in its buffer and behind it, is as it should be
\* after any sequence of writes and cuts.
OutsideRight == ContentTypeOK /\ TailClear /\ StaysInDirectory
=============================================================================
