-------------------------------- MODULE Fisopfs --------------------------------
(***************************************************************************)
(* The inode table of fisopfs and the file it is persisted to.  FUSE calls *)
(* the handlers of fisopfs.c from several threads and the table has no     *)
(* lock: what a handler has found may be gone, or taken, when it uses it.  *)
(*                                                                         *)
(* A handler is cut where it goes from reading the table to writing it and *)
(* between two writes.  Of a path only its components are kept, of a file  *)
(* one value; module FileContent has the bytes.  Only requests the kernel  *)
(* makes are considered: it looks a path up before it acts on it and locks *)
(* the directory, and the file or directory itself, while it does.  That   *)
(* it may remember a look-up, or write through an open descriptor after    *)
(* the file is gone, is left out.                                          *)
(***************************************************************************)
EXTENDS Integers, Sequences, FiniteSetsExt, SequencesExt

CONSTANTS Threads,   \* of FUSE
          Names,     \* of files and directories
          Depth,     \* how long paths are
          NInodes,   \* MAX_INODES
          Contents,  \* what a file may contain
          Zero,      \* the empty content
          NoName, RootName, NoPath, NoFile

ASSUME FisopfsAssumption == /\ IsFiniteSet(Threads)
                            /\ NInodes \in Nat \ {0} /\ Depth \in Nat
                            /\ Zero \in Contents
                            /\ {NoName, RootName} \cap Names = {} /\ NoName # RootName

Slots == 0 .. NInodes - 1
NoSlot == -1
Paths == UNION {[1 .. n -> Names] : n \in 1 .. Depth}
ROOT_PATH == <<>>

VARIABLES
    inodes,    \* superblock.inodes
    occupied,  \* those that superblock.inodes_states says are OCCUPIED
    disk,      \* filedisk, or NoFile
    mounted,   \* the process runs
    op,        \* the request each thread is working on, and how far
    changed,   \* slots changed, or in a handler's hands, since a thread's store began
    unsaved,   \* the same of the store that was the last to end
    mixed,     \* there were some when it ended
    raced,     \* a request began while another was at work out of its reach
    torn       \* the process was killed in the middle of a store

saving == <<changed, unsaved, mixed>>
history == <<saving, raced, torn>>
vars == <<inodes, occupied, disk, mounted, op, history>>

Inodes == [path : Names \cup {NoName, RootName}, type : {"REGULAR", "DIRECTORY"},
           directory_path : Paths \cup {ROOT_PATH, NoPath}, content : Contents]
Disks == [inodes : [Slots -> Inodes], occupied : SUBSET Slots, length : 0 .. 2]

\* No file is not a file.
ASSUME NoFileAssumption == NoFile \notin Disks

Blank == [path |-> NoName, type |-> "REGULAR", directory_path |-> NoPath, content |-> Zero]
BlankInodes == [i \in Slots |-> Blank]
Idle == [call |-> "none", path |-> ROOT_PATH, content |-> Zero, at |-> "idle", index |-> NoSlot]

-----------------------------------------------------------------------------
(* utils.c                                                                 *)

\* build_superblock().
Fresh == [BlankInodes EXCEPT ![0] = [Blank EXCEPT !.path = RootName, !.type = "DIRECTORY"]]

\* get_inode_index(): the first occupied inode named as the last component.
Index(p) == LET hits == {i \in occupied : inodes[i].path = Last(p)}
            IN  IF p = ROOT_PATH THEN 0 ELSE IF hits = {} THEN NoSlot ELSE Min(hits)

\* next_free_inode_index(): a name is only seen to exist before a free slot.
NextFree(p) == LET hits == {i \in Slots : inodes[i].path = Last(p) \/ i \notin occupied}
               IN  IF hits = {} \/ inodes[Min(hits)].path = Last(p) THEN NoSlot ELSE Min(hits)

\* new_inode(): a directory is always a child of the root.
NewInode(p, type) == [path |-> Last(p), type |-> type, content |-> Zero,
                      directory_path |-> IF type = "REGULAR" THEN Front(p) ELSE ROOT_PATH]

\* Mutant of FilesIn: only other directories are looked at.
FilesInDirectories(p) == {i \in Slots : /\ inodes[i].directory_path = <<Last(p)>>
                                        /\ inodes[i].type = "DIRECTORY"}

\* get_files_in_directory(): whose directory_path is the last component.
FilesIn(p) == {i \in Slots : inodes[i].directory_path = <<Last(p)>>}

-----------------------------------------------------------------------------
Init == /\ inodes = Fresh /\ occupied = {0}
        /\ disk = NoFile /\ mounted = TRUE
        /\ op = [t \in Threads |-> Idle]
        /\ changed = [t \in Threads |-> {}] /\ unsaved = {} /\ mixed = FALSE
        /\ raced = FALSE /\ torn = FALSE

(* What the kernel asks for.                                               *)

IsType(p, type) == Index(p) # NoSlot /\ inodes[Index(p)].type = type
Resolves(p) == \A n \in 1 .. Len(p) - 1 : IsType(SubSeq(p, 1, n), "DIRECTORY")

Locks(call, p) == CASE call \in {"create", "mkdir"} -> {Front(p)}
                    [] call \in {"unlink", "rmdir"} -> {Front(p), p}
                    [] call \in {"write", "truncate"} -> {p}
                    [] OTHER -> {}

FirstStep == [create |-> "find", mkdir |-> "find", unlink |-> "check", rmdir |-> "check",
              write |-> "check", truncate |-> "check", flush |-> "open"]

Looks(call, p) == CASE call = "flush" -> TRUE
                    [] call \in {"create", "mkdir"} -> Index(p) = NoSlot
                    [] call = "rmdir" -> IsType(p, "DIRECTORY")
                    [] OTHER -> IsType(p, "REGULAR")

Stores == {"flush", "destroy"}

\* A bound: nothing is asked of a table read from a file half written.
Request(t, call, p, v) ==
    /\ mounted /\ ~torn /\ op[t] = Idle
    /\ \A u \in Threads : /\ op[u].call # "destroy"
                          /\ Locks(op[u].call, op[u].path) \cap Locks(call, p) = {}
    /\ Resolves(p) /\ Looks(call, p)
    /\ op' = [op EXCEPT ![t] = [call |-> call, path |-> p, content |-> v,
                                at |-> FirstStep[call], index |-> NoSlot]]
    /\ raced' = (raced \/ \E u \in Threads : /\ op[u] # Idle /\ Front(op[u].path) # Front(p)
                                            /\ {op[u].call, call} \cap Stores = {})
    /\ UNCHANGED <<inodes, occupied, disk, mounted, saving, torn>>

-----------------------------------------------------------------------------
(* fisopfs.c                                                               *)

At(t, call, at) == op[t].call \in call /\ op[t].at = at
Goto(t, at) == op' = [op EXCEPT ![t].at = at]
Done(t) == op' = [op EXCEPT ![t] = Idle]
Found(t, i, at) == op' = [op EXCEPT ![t].index = i, ![t].at = at]

\* Threads between the opening of filedisk and the end of their store.
StoringThreads == {t \in Threads : op[t].call \in Stores /\ op[t].at \in {"inodes", "states"}}
Storing == StoringThreads # {}

\* A handler changes slot i, or its state, maybe beside stores.
Touch(i) == /\ changed' = [t \in Threads |-> changed[t] \cup IF t \in StoringThreads THEN {i} ELSE {}]
            /\ unsaved' = unsaved \cup {i}
            /\ UNCHANGED <<mixed, raced, torn>>

Creates == {"create", "mkdir", "write"}
Type(call) == IF call = "mkdir" THEN "DIRECTORY" ELSE "REGULAR"

\* new_inode(), for fisopfs_create(), fisopfs_mkdir() and a write to a file
\* that is gone: a slot is found,
Find(t) == /\ At(t, Creates, "find")
           /\ LET i == NextFree(op[t].path)
              IN  IF i = NoSlot THEN Done(t) ELSE Found(t, i, "fill")
           /\ UNCHANGED <<inodes, occupied, disk, mounted, history>>

\* filled,
Fill(t) == /\ At(t, Creates, "fill")
           /\ inodes' = [inodes EXCEPT ![op[t].index] = NewInode(op[t].path, Type(op[t].call))]
           /\ Touch(op[t].index)
           /\ Goto(t, "occupy")
           /\ UNCHANGED <<occupied, disk, mounted>>

\* and marked.
Occupy(t) == /\ At(t, Creates, "occupy")
             /\ occupied' = occupied \cup {op[t].index}
             /\ Touch(op[t].index)
             /\ IF op[t].call = "write" THEN Goto(t, "again") ELSE Done(t)
             /\ UNCHANGED <<inodes, disk, mounted>>

\* Whether the inode found will do.
Accepts(call, p) ==
    /\ Index(p) # NoSlot
    /\ inodes[Index(p)].type = IF call = "rmdir" THEN "DIRECTORY" ELSE "REGULAR"
    /\ call = "rmdir" => FilesIn(p) = {}

Writes == [unlink |-> "wipe", rmdir |-> "free", write |-> "store", truncate |-> "store"]

\* The tests of fisopfs_unlink(), fisopfs_rmdir(), fisopfs_write() and
\* fisopfs_truncate(); a write looks a second time after creating the file.
Check(t) == /\ At(t, DOMAIN Writes, "check") \/ At(t, {"write"}, "again")
            /\ CASE Accepts(op[t].call, op[t].path) ->
                        Found(t, Index(op[t].path), Writes[op[t].call])
                 [] At(t, {"write"}, "check") /\ Index(op[t].path) = NoSlot -> Goto(t, "find")
                 [] OTHER -> Done(t)
            /\ UNCHANGED <<inodes, occupied, disk, mounted, history>>

\* memset() of the inode, first in unlink and last in rmdir,
Wipe(t) == /\ At(t, {"unlink", "rmdir"}, "wipe")
           /\ inodes' = [inodes EXCEPT ![op[t].index] = Blank]
           /\ Touch(op[t].index)
           /\ IF op[t].call = "unlink" THEN Goto(t, "free") ELSE Done(t)
           /\ UNCHANGED <<occupied, disk, mounted>>

\* and its state.
Free(t) == /\ At(t, {"unlink", "rmdir"}, "free")
           /\ occupied' = occupied \ {op[t].index}
           /\ Touch(op[t].index)
           /\ IF op[t].call = "rmdir" THEN Goto(t, "wipe") ELSE Done(t)
           /\ UNCHANGED <<inodes, disk, mounted>>

\* The content that fisopfs_write() and fisopfs_truncate() leave.
Store(t) == /\ At(t, {"write", "truncate"}, "store")
            /\ inodes' = [inodes EXCEPT ![op[t].index].content = op[t].content]
            /\ Touch(op[t].index)
            /\ Done(t)
            /\ UNCHANGED <<occupied, disk, mounted>>

-----------------------------------------------------------------------------
(* fisopfs_destroy() and fisopfs_flush(): the file is emptied, then the    *)
(* superblock written from its start, its two arrays in turn, while other  *)
(* threads change it or store it as well, each through a FILE of its own.  *)

\* The slots that handlers have found and are about to change.
InHands == {op[u].index : u \in Threads} \ {NoSlot}

OpenDisk(t) == /\ At(t, Stores, "open")
               /\ disk' = [inodes |-> BlankInodes, occupied |-> {}, length |-> 0]
               /\ changed' = [changed EXCEPT ![t] = InHands]
               /\ Goto(t, "inodes")
               /\ UNCHANGED <<inodes, occupied, mounted, unsaved, mixed, raced, torn>>

WriteInodes(t) == /\ At(t, Stores, "inodes")
                  /\ disk' = [disk EXCEPT !.inodes = inodes, !.length = Max({@, 1})]
                  /\ Goto(t, "states")
                  /\ UNCHANGED <<inodes, occupied, mounted, history>>

\* The last step of a store: what has changed since it began may be missing.
Ended(t) == /\ mounted' = (op[t].call = "flush")
            /\ unsaved' = changed[t] /\ mixed' = (changed[t] # {})
            /\ changed' = [changed EXCEPT ![t] = {}]
            /\ Done(t)
            /\ UNCHANGED <<inodes, occupied, raced, torn>>

\* Mutant of WriteStates: the states are not written.
WriteStatesForgotten(t) == At(t, Stores, "states") /\ Ended(t) /\ UNCHANGED disk

WriteStates(t) == /\ At(t, Stores, "states")
                  /\ disk' = [disk EXCEPT !.occupied = occupied, !.length = 2]
                  /\ Ended(t)

\* libfuse calls fisopfs_destroy() when the threads have ended.
Unmount(t) == /\ mounted /\ ~torn /\ \A u \in Threads : op[u] = Idle
              /\ op' = [op EXCEPT ![t].call = "destroy", ![t].at = "open"]
              /\ UNCHANGED <<inodes, occupied, disk, mounted, history>>

\* The process is killed, at rest or in any handlers.
Kill == /\ mounted
        /\ mounted' = FALSE
        /\ op' = [t \in Threads |-> Idle]
        /\ changed' = [t \in Threads |-> {}]
        /\ torn' = (torn \/ Storing)
        /\ UNCHANGED <<inodes, occupied, disk, unsaved, mixed, raced>>

\* fisopfs_init(): from a file that is too short it reads what there is, and
\* does not build a root.  What was stored while it changed may be two halves
\* that do not fit, as after a race.
Mount == /\ ~mounted
         /\ mounted' = TRUE
         /\ inodes' = IF disk = NoFile THEN Fresh ELSE disk.inodes
         /\ occupied' = IF disk = NoFile THEN {0} ELSE disk.occupied
         /\ raced' = (raced \/ (disk # NoFile /\ mixed))
         /\ unsaved' = {}
         /\ UNCHANGED <<disk, op, changed, mixed, torn>>

Handler(t) == \/ Find(t) \/ Fill(t) \/ Occupy(t) \/ Check(t) \/ Wipe(t) \/ Free(t) \/ Store(t)
              \/ OpenDisk(t) \/ WriteInodes(t) \/ WriteStates(t)

\* A file that has been open is closed: flush looks at no path.
KernelRequest(t) == \/ \E call \in DOMAIN FirstStep \ {"write", "flush"}, p \in Paths :
                            Request(t, call, p, Zero)
                    \/ \E p \in Paths, v \in Contents : Request(t, "write", p, v)
                    \/ Request(t, "flush", ROOT_PATH, Zero)

Next == \/ \E t \in Threads : Handler(t) \/ KernelRequest(t) \/ Unmount(t)
        \/ Kill
        \/ Mount

Spec == Init /\ [][Next]_vars

-----------------------------------------------------------------------------
TypeOK == /\ inodes \in [Slots -> Inodes]
          /\ occupied \subseteq Slots
          /\ disk \in Disks \cup {NoFile} /\ mounted \in BOOLEAN
          /\ changed \in [Threads -> SUBSET Slots] /\ unsaved \subseteq Slots
          /\ \A t \in Threads : op[t].path \in Paths \cup {ROOT_PATH} /\ op[t].index \in Slots \cup {NoSlot}

\* Nothing protects the table from handlers that work in two directories, and
\* nothing the file from the end of the process during a store: what follows
\* is claimed of histories without them.  Within one directory the kernel's
\* locks are all there is.
AtRest == mounted /\ ~raced /\ ~torn /\ \A t \in Threads : op[t] = Idle

\* Two files of one name would be one file to every handler but readdir
\* (next_free_inode_index sees a name only if it comes before a free slot).
NamesUnique == AtRest => \A i, j \in occupied : inodes[i].path = inodes[j].path => i = j

\* inodes_states says which inodes are in use: nothing is lost in a slot
\* marked free, and no slot is taken by nothing (new_inode, unlink, rmdir).
StatesRight == AtRest => \A i \in Slots : i \in occupied <=> inodes[i].path # NoName

\* fisopfs_readdir(): is_child_inode() compares the directory's name with what
\* each file has as its directory.
Child(d, i) == i # 0 /\ i \in occupied
               /\ inodes[i].directory_path = IF d = 0 THEN ROOT_PATH ELSE <<inodes[d].path>>
Readdir(d) == {i \in Slots : Child(d, i)}

\* A file in the root or in a directory of the root is listed once: in its
\* directory, which was not removed from under it (fisopfs_readdir, rmdir and
\* get_files_in_directory).
Dirs == {i \in occupied : inodes[i].type = "DIRECTORY"}
ListedOnce == AtRest => \A i \in occupied \ {0} :
    Len(inodes[i].directory_path) <= 1 => Cardinality({d \in Dirs : i \in Readdir(d)}) = 1

\* The root is never another file's slot, whatever races with what
\* (get_inode_index takes it to be inode 0 without a look at it).
RootStays == mounted /\ ~torn => 0 \in occupied /\ inodes[0] = Fresh[0]

\* The table says of every file once that it is there and where, and of
\* nothing else, and the root is always there.
TableRight == TypeOK /\ NamesUnique /\ StatesRight /\ ListedOnce /\ RootStays

\* fisopfs.md: "Ante un fisopfs_destroy o fisopfs_flush, los datos estarian
\* asegurados, persistidos en el filedisk": when no store is under way, all of a
\* file is on the disk as the process has it, or had it when it was killed, but
\* for what has changed since the store that was the last to end began; however
\* stores and handlers overlapped, and although every store empties the file
\* under the others (fisopfs_destroy, fisopfs_flush).
DataSecured == ~Storing /\ ~torn /\ disk # NoFile =>
    /\ disk.length = 2
    /\ \A i \in Slots \ unsaved : /\ disk.inodes[i] = inodes[i]
                                  /\ i \in disk.occupied <=> i \in occupied
=============================================================================
