------------------------------- MODULE Ext2Fs -------------------------------
(***************************************************************************)
(* The ext2 file server (fs/ext2fs): the main thread reads the partition   *)
(* table and the superblock, then every client session is a thread that    *)
(* looks up paths, collects the block lists of a file and reads it.  All   *)
(* threads share one block device session, a buffer behind a lock.         *)
(*                                                                         *)
(* The disk is read-only.  disk.at maps a byte offset to the object  *)
(* stored there: a group descriptor, an inode, a list of block addresses.  *)
(* A byte of a data block is the pair of the block and the offset in it.   *)
(* Data are read through the block cache, whose reads return what is on    *)
(* disk (BlockCache).  A failed assert or a panic ends the thread (dead),  *)
(* and so does using bytes that are not the object they are taken for.     *)
(***************************************************************************)
EXTENDS Integers, Sequences, SequencesExt

CONSTANTS
    Disk,            \* the disks: what the code reads, and what is true of it
    Session,         \* 0 .. n-1, one thread each; n <= MAX_SESSIONS
    SECTOR,          \* 512
    SB_SIZE,         \* 1024: size and offset of the superblock
    BG_SIZE,         \* size of a group descriptor
    U32,             \* 2^32
    MAX_ACTIVE_HANDLES,
    ShmemSize,       \* size of a session's shared memory
    NameSize,        \* bytes a name and its newline take in it
    Count, Offset,   \* byte counts and offsets clients ask for
    MaxCalls,        \* bound: calls of the sessions
    None

VARIABLES
    disk,            \* the disk attached, never changed
    super,           \* the Superblock object
    num_sessions,    \* _num_sessions of the bootstrap interface
    lock, buffer,    \* _lock and _buffer of block_device_t
    th,              \* each thread's position and local variables
    handles,         \* _active_handles, front first
    next_handle,     \* _curr_handle_index
    shmem,           \* the last result left in a session's memory
    calls            \* calls so far

fsVars == <<disk, super, num_sessions, lock, buffer, th, handles, next_handle, shmem, calls>>

Main == -1
Thread == Session \cup {Main}
Idle == [pc |-> "idle", call |-> None, path |-> <<>>, idx |-> 0, cur |-> None,
         work |-> <<>>, coll |-> <<>>, dev |-> "none", want |-> 0,
         dels |-> 0, reply |-> None]
Ask(r, pc, off) == [r EXCEPT !.pc = pc, !.dev = "wait", !.want = off]

FsInit ==
    /\ disk \in Disk
    /\ super = None /\ num_sessions = 0
    /\ lock = None /\ buffer = None
    /\ th = [t \in Thread |-> IF t = Main THEN Ask(Idle, "mbr", 0)
                                            ELSE [Idle EXCEPT !.pc = "closed"]]
    /\ handles = [s \in Session |-> <<>>]
    /\ next_handle = [s \in Session |-> 1]
    /\ shmem = [s \in Session |-> [names |-> {}, bytes |-> <<>>]]
    /\ calls = 0

Goto(t, r) == th' = [th EXCEPT ![t] = r]
Dead(t) == [Idle EXCEPT !.pc = "dead", !.call = th[t].call]
Opening(t) == th[t].call.op = "open"
Reply(t, status) == [Idle EXCEPT !.reply = status, !.call = th[t].call, !.dels = th[t].dels]

-----------------------------------------------------------------------------
(***************************************************************************)
(* block_device_t::read: the whole sectors go into the one buffer, the     *)
(* wanted bytes are copied out of it, all under the lock.  The copy is one *)
(* step with what the thread does with it up to its next read.             *)
(***************************************************************************)
SectorStart(off) == off - (off % SECTOR)
At(off) == IF off \in DOMAIN disk.at THEN disk.at[off] ELSE [kind |-> "junk"]

(* Mutant: the buffer is filled without the lock *)
DevRead_unlocked(t) ==
    /\ th[t].dev = "wait"
    /\ buffer' = SectorStart(th[t].want)
    /\ Goto(t, [th[t] EXCEPT !.dev = "copy"])
    /\ UNCHANGED <<disk, super, num_sessions, lock, handles, next_handle, shmem, calls>>

DevRead(t) ==
    /\ th[t].dev = "wait"
    /\ lock = None
    /\ lock' = t
    /\ buffer' = SectorStart(th[t].want)
    /\ Goto(t, [th[t] EXCEPT !.dev = "copy"])
    /\ UNCHANGED <<disk, super, num_sessions, handles, next_handle, shmem, calls>>

got(t) == At(buffer + (th[t].want % SECTOR))
DevCopy(t, pc) ==
    /\ th[t].pc = pc /\ th[t].dev = "copy"
    /\ lock' = None
    /\ UNCHANGED <<disk, num_sessions, buffer, handles, next_handle, shmem, calls>>

-----------------------------------------------------------------------------
(***************************************************************************)
(* Mbr and Superblock: the partition, then its geometry, with the          *)
(* constructors' asserts.  The start of the partition is computed in 32    *)
(* bits.                                                                   *)
(***************************************************************************)
get_partition_lba(pte) ==
    LET linux == SelectSeq(pte, LAMBDA p : p.system_id = 131)
    IN  IF linux = <<>> THEN 0 ELSE linux[1].lba

partition_start(lba) == (lba * SECTOR) % U32
get_block_size(sb) == SB_SIZE * 2^sb.block_size_log2
num_block_groups(sb) ==
    sb.blocks \div sb.blocks_per_group
      + IF sb.blocks % sb.blocks_per_group > 0 THEN 1 ELSE 0

sanity_checks(sb) ==
    /\ sb.kind = "superblock"
    /\ num_block_groups(sb) = sb.inodes \div sb.inodes_per_group

ReadMbr ==
    /\ DevCopy(Main, "mbr") /\ UNCHANGED super
    /\ Goto(Main, IF got(Main).kind # "mbr" \/ get_partition_lba(got(Main).pte) = 0
                  THEN Dead(Main)
                  ELSE Ask(Idle, "superblock",
                           SB_SIZE + partition_start(get_partition_lba(got(Main).pte))))

ReadSuperblock ==
    /\ DevCopy(Main, "superblock")
    /\ IF sanity_checks(got(Main))
       THEN LET sb   == got(Main)
                part == th[Main].want - SB_SIZE
                size == get_block_size(sb)
            IN  /\ super' = [part |-> part, block_size |-> size, inodes |-> sb.inodes,
                             inodes_per_group |-> sb.inodes_per_group,
                             inode_size |-> sb.inode_size,
                             bg_start |-> size + part + IF size > SB_SIZE THEN 0 ELSE SB_SIZE]
                /\ Goto(Main, [Idle EXCEPT !.pc = "serving"])
       ELSE Goto(Main, Dead(Main)) /\ UNCHANGED super

block_size == super.block_size
block_to_abs_offset(block) == block * block_size + super.part

(* Filesystem_impl::open_session: a thread for the next session *)
Open_session ==
    /\ th[Main].pc = "serving"
    /\ num_sessions \in Session
    /\ num_sessions' = num_sessions + 1
    /\ Goto(num_sessions, Idle)
    /\ UNCHANGED <<disk, super, lock, buffer, handles, next_handle, shmem, calls>>

-----------------------------------------------------------------------------
(***************************************************************************)
(* get_inode_ref: the group descriptor, then the inode, both from the      *)
(* device.  Inode numbers start at 1; r is the thread's record so far.     *)
(***************************************************************************)
get_inode_ref(t, r, idx) ==
    IF idx > 0 /\ idx <= super.inodes
    THEN Ask([r EXCEPT !.idx = idx], "bg",
             super.bg_start + BG_SIZE * ((idx - 1) \div super.inodes_per_group))
    ELSE Dead(t)

ReadGroup(t) ==
    /\ DevCopy(t, "bg") /\ UNCHANGED super
    /\ Goto(t, IF got(t).kind # "group" THEN Dead(t)
               ELSE Ask(th[t], "inode",
                        block_to_abs_offset(got(t).inode_table)
                          + super.inode_size * ((th[t].idx - 1) % super.inodes_per_group)))

(***************************************************************************)
(* get_blocks_for_inode.  The direct pointers are a list of their own; the *)
(* indirect ones are read depth first, and the lists at the bottom are     *)
(* collected in that order.  append must not lose lists: OmniOS's List,    *)
(* which is not in the repository, is taken to leave next alone on insert. *)
(***************************************************************************)
Pointers(list) == SelectSeq(list, LAMBDA b : b > 0)
Level(list, n) == [k \in 1 .. Len(Pointers(list)) |-> <<Pointers(list)[k], n>>]

Collect(t, coll, work, r) ==
    Goto(t, IF work = <<>> THEN [r EXCEPT !.pc = "complete", !.dev = "none", !.coll = coll,
                                          !.work = <<>>]
            ELSE Ask([r EXCEPT !.coll = coll, !.work = work], "list",
                     block_to_abs_offset(Head(work)[1])))

ReadInode(t) ==
    /\ DevCopy(t, "inode") /\ UNCHANGED super
    /\ \E inode \in {got(t)} :
          IF inode.kind # "inode" \/ (th[t].path = <<>> /\ Opening(t) /\ ~inode.is_file)
          THEN Goto(t, Dead(t))
          ELSE Collect(t, <<inode.direct>>,
                 Level(<<inode.singly>>, 1) \o Level(<<inode.doubly>>, 2) \o Level(<<inode.triply>>, 3),
                 [th[t] EXCEPT !.cur = inode, !.dels = IF th[t].cur = None THEN @ ELSE @ + 1])

ReadList(t) ==
    /\ DevCopy(t, "list") /\ UNCHANGED super
    /\ LET n == Head(th[t].work)[2]
       IN  IF got(t).kind # "list" THEN Goto(t, Dead(t))
           ELSE IF n = 1
           THEN Collect(t, Append(th[t].coll, got(t).list), Tail(th[t].work), th[t])
           ELSE Collect(t, th[t].coll, Level(got(t).list, n - 1) \o Tail(th[t].work), th[t])

(***************************************************************************)
(* get_directory_entries: the blocks of every list up to its first zero.   *)
(***************************************************************************)
UpToZero(list) ==
    IF \E k \in DOMAIN list : list[k] = 0
    THEN SubSeq(list, 1, (CHOOSE k \in DOMAIN list :
                            list[k] = 0 /\ \A j \in 1 .. k - 1 : list[j] # 0) - 1)
    ELSE list

Blocks(coll) == FlattenSeq([j \in DOMAIN coll |-> UpToZero(coll[j])])
get_directory_entries(blocks) == FlattenSeq([k \in DOMAIN blocks |-> disk.dir[blocks[k]]])

FirstMatch(entries, P(_)) ==
    IF \E k \in DOMAIN entries : P(entries[k])
    THEN entries[CHOOSE k \in DOMAIN entries :
                   P(entries[k]) /\ \A j \in 1 .. k - 1 : ~P(entries[j])]
    ELSE None

(***************************************************************************)
(* locate_directory with find_local_directory.  It does not skip unused    *)
(* entries, whose inode number 0 fails the assertion of get_inode_ref;     *)
(* without a match it runs off the end of the entries into the panic.      *)
(* Both functions delete the directory that is left (dels).                *)
(***************************************************************************)
find_local_directory(t, entries) ==
    \E e \in {FirstMatch(entries, LAMBDA x : x.name = Head(th[t].path))} :
        Goto(t, IF e = None \/ e.type # "dir" THEN Dead(t)
                ELSE get_inode_ref(t, [th[t] EXCEPT !.path = Tail(@), !.dels = 1], e.inode))

(* locate_file, which skips them; the directory is deleted once, by the caller *)
locate_file(t, entries) ==
    \E e \in {FirstMatch(entries, LAMBDA x : x.inode > 0 /\ x.name = Head(th[t].path))} :
        Goto(t, IF e = None \/ th[t].cur.indexed THEN Dead(t)
                ELSE get_inode_ref(t, [th[t] EXCEPT !.path = Tail(@), !.cur = None], e.inode))

(* The lists of the thread's inode are complete: go on with the path, or finish *)
Complete(t) ==
    /\ th[t].pc = "complete"
    /\ UNCHANGED <<disk, super, num_sessions, lock, buffer, next_handle, calls>>

Search(t) ==
    /\ Complete(t) /\ th[t].path # <<>>
    /\ \E blocks \in {Blocks(th[t].coll)} : \E entries \in {get_directory_entries(blocks)} :
          IF Opening(t) /\ Len(th[t].path) = 1 THEN locate_file(t, entries)
                                               ELSE find_local_directory(t, entries)
    /\ UNCHANGED <<handles, shmem>>

(* read_directory_entries for files and directories: the names, unused     *)
(* entries included.  More than the shared memory holds fails the          *)
(* assertion                                                               *)
List(t) ==
    /\ Complete(t) /\ th[t].path = <<>> /\ ~Opening(t)
    /\ \E entries \in {get_directory_entries(Blocks(th[t].coll))} :
          IF NameSize * Len(entries) < ShmemSize
          THEN /\ shmem' = [shmem EXCEPT ![t].names = {e.name : e \in ToSet(entries)}]
               /\ Goto(t, Reply(t, "S_OK"))
          ELSE Goto(t, Dead(t)) /\ UNCHANGED shmem
    /\ UNCHANGED handles

(* The rest of Ext2fs_core::open and open_file: the handle goes to the front *)
Opened(t) ==
    /\ Complete(t) /\ th[t].path = <<>> /\ Opening(t)
    /\ handles' = [handles EXCEPT ![t] =
          <<[handle |-> next_handle[t] - 1, path |-> th[t].call.path,
             size |-> th[t].cur.size, coll |-> th[t].coll, pos |-> 0]>> \o @]
    /\ Goto(t, Reply(t, "S_OK"))
    /\ UNCHANGED shmem

-----------------------------------------------------------------------------
(***************************************************************************)
(* File::read over Logical_range_tree: a list stands for as many blocks of *)
(* the file as it has pointers.  A position outside every range leaves the *)
(* previous block and offset, and counts as found (NULL is S_OK).          *)
(***************************************************************************)
count_blocks(list) == Len(Pointers(list))
Base(coll, k) ==
    block_size * FoldFunctionOnSet(+, 0, [j \in DOMAIN coll |-> count_blocks(coll[j])], 1 .. k - 1)

lookup_block_and_offset(coll, pos, last) ==
    LET In(k) == Base(coll, k) <= pos /\ pos < Base(coll, k + 1)
        delta(k) == pos - Base(coll, k)
    IN  IF \E k \in DOMAIN coll : In(k)
        THEN LET k == CHOOSE j \in DOMAIN coll : In(j)
             IN  <<coll[k][delta(k) \div block_size + 1], delta(k) % block_size>>
        ELSE last

(* Mutant: the first piece is as long as if it began its block *)
piece_whole(offset, remaining) == IF block_size < remaining THEN block_size ELSE remaining

piece(offset, remaining) ==
    IF block_size - offset < remaining THEN block_size - offset ELSE remaining

RECURSIVE ReadLoop(_, _, _, _)
ReadLoop(coll, pos, remaining, last) ==
    LET at == lookup_block_and_offset(coll, pos, last)
        n  == piece(at[2], remaining)
        bytes == [k \in 1 .. n |-> <<at[1], at[2] + k - 1>>]
    IN  IF n = remaining THEN bytes
        ELSE bytes \o ReadLoop(coll, pos + n, remaining - n, at)

-----------------------------------------------------------------------------
(* The session interface (Filesystem_session_impl) *)
Begin(t) ==
    /\ th[t].pc = "idle" /\ calls < MaxCalls
    /\ calls' = calls + 1
    /\ UNCHANGED <<disk, super, num_sessions, lock, buffer>>

Called(t, c) == [Idle EXCEPT !.call = c]
Walk(t, c, path) == get_inode_ref(t, [Called(t, c) EXCEPT !.path = path], 2)

(* Handles are never used again: a session opens at most MAX_ACTIVE_HANDLES files *)
Open_file(t, p) ==
    /\ Begin(t)
    /\ LET c == [op |-> "open", path |-> p, refused |-> next_handle[t] > MAX_ACTIVE_HANDLES]
       IN  IF next_handle[t] > MAX_ACTIVE_HANDLES
           THEN Goto(t, [Dead(t) EXCEPT !.call = c]) /\ UNCHANGED next_handle
           ELSE /\ next_handle' = [next_handle EXCEPT ![t] = @ + 1]
                /\ Goto(t, Walk(t, c, p))
    /\ UNCHANGED <<handles, shmem>>

Read_directory_entries(t, p) ==
    /\ Begin(t)
    /\ Goto(t, Walk(t, [op |-> "list", path |-> p], p))
    /\ UNCHANGED <<handles, next_handle, shmem>>

(* The list is searched from the front; it may not be empty *)
Index(t, h) == CHOOSE k \in DOMAIN handles[t] : handles[t][k].handle = h
Has(t, h) == \E k \in DOMAIN handles[t] : handles[t][k].handle = h
File(t, h) == handles[t][Index(t, h)]
Answer(t, c, status) == Goto(t, [Called(t, c) EXCEPT !.reply = status])

No_file(t, h) ==
    /\ Begin(t) /\ ~Has(t, h)
    /\ LET c == [op |-> "bad", h |-> h]
       IN  IF handles[t] = <<>> THEN Goto(t, [Dead(t) EXCEPT !.call = c])
                                ELSE Answer(t, c, "E_BAD_PARAM")
    /\ UNCHANGED <<handles, next_handle, shmem>>

Close_file(t, h) ==
    /\ Begin(t) /\ Has(t, h)
    /\ handles' = [handles EXCEPT ![t] = RemoveAt(@, Index(t, h))]
    /\ Answer(t, [op |-> "close", h |-> h], "S_OK")
    /\ UNCHANGED <<next_handle, shmem>>

Read_at(t, c, h, pos, n) ==
    IF pos + n > File(t, h).size
    THEN Answer(t, c, "E_LENGTH_EXCEEDED") /\ UNCHANGED <<handles, shmem>>
    ELSE /\ shmem' = [shmem EXCEPT ![t].bytes = ReadLoop(File(t, h).coll, pos, n, <<0, 0>>)]
         /\ handles' = [handles EXCEPT ![t][Index(t, h)].pos = pos + n]
         /\ Answer(t, c, "S_OK")

Read_file(t, h, n) ==
    /\ Begin(t) /\ Has(t, h)
    /\ Read_at(t, [op |-> "read", h |-> h, pos |-> File(t, h).pos, n |-> n], h, File(t, h).pos, n)
    /\ UNCHANGED next_handle

(* The offset, not the count, must fit the shared memory *)
Read_file_from_offset(t, h, n, off) ==
    /\ Begin(t) /\ Has(t, h)
    /\ LET c == [op |-> "read", h |-> h, pos |-> off, n |-> n]
       IN  IF off + n > ShmemSize
           THEN Answer(t, c, "E_LENGTH_EXCEEDED") /\ UNCHANGED <<handles, shmem>>
           ELSE Read_at(t, c, h, off, n)
    /\ UNCHANGED next_handle

Read_file_info(t, h) ==
    /\ Begin(t) /\ Has(t, h)
    /\ Answer(t, [op |-> "info", h |-> h, size |-> File(t, h).size], "S_OK")
    /\ UNCHANGED <<handles, next_handle, shmem>>

(* The offset is absolute, and tested as if it were relative *)
Seek(t, h, off) ==
    /\ Begin(t) /\ Has(t, h)
    /\ LET c == [op |-> "seek", h |-> h]
       IN  IF File(t, h).pos + off > File(t, h).size
           THEN Answer(t, c, "E_LENGTH_EXCEEDED") /\ UNCHANGED handles
           ELSE /\ handles' = [handles EXCEPT ![t][Index(t, h)].pos = off]
                /\ Answer(t, c, "S_OK")
    /\ UNCHANGED <<next_handle, shmem>>

-----------------------------------------------------------------------------
Handle == 1 .. MAX_ACTIVE_HANDLES

Call(t) ==
    \/ \E p \in disk.asked : Open_file(t, p)
    \/ \E p \in DOMAIN disk.names : Read_directory_entries(t, p)
    \/ \E h \in Handle :
          \/ No_file(t, h) \/ Close_file(t, h) \/ Read_file_info(t, h)
          \/ \E n \in Count : Read_file(t, h, n)
                             \/ \E o \in Offset : Read_file_from_offset(t, h, n, o)
          \/ \E o \in Offset : Seek(t, h, o)

Work(t) == \/ DevRead(t) \/ ReadGroup(t) \/ ReadInode(t) \/ ReadList(t)
           \/ Search(t) \/ List(t) \/ Opened(t)
Boot == DevRead(Main) \/ ReadMbr \/ ReadSuperblock

FsNext == Boot \/ Open_session \/ \E t \in Session : Call(t) \/ Work(t)

-----------------------------------------------------------------------------
(* The byte at a position of a file, by the file's blocks on disk *)
Byte(path, pos) == <<disk.files[path][pos \div block_size + 1], pos % block_size>>

Said(t) == th[t].pc = "idle" /\ th[t].reply = "S_OK"

(***************************************************************************)
(* What a session is told is true: a read returns the bytes of the file    *)
(* that was opened, whatever lists they are found through and wherever the *)
(* read begins, and a listing leaves no name out, while other sessions use *)
(* the same device buffer.                                                 *)
(***************************************************************************)
AnswersAreTrue == \A t \in Session : Said(t) =>
    /\ th[t].call.op = "read" =>
         LET c == th[t].call
         IN  shmem[t].bytes = [k \in 1 .. c.n |-> Byte(File(t, c.h).path, c.pos + k - 1)]
    /\ th[t].call.op = "list" => disk.names[th[t].call.path] \subseteq shmem[t].names

(***************************************************************************)
(* The server comes up, and a session opens every file that is there,      *)
(* until its handles run out, but for two kinds of files (disk.hidden):    *)
(* those of an indexed directory, by an assertion of locate_file, and      *)
(* those behind a directory whose name an unused entry has before it,      *)
(* which find_local_directory takes.  No other assert of the path walk,    *)
(* and no other session's use of the device, makes an open fail, and       *)
(* nothing else is opened.                                                 *)
(***************************************************************************)
Reachable(path) == path \in DOMAIN disk.files \ disk.hidden

OpensWhatExists ==
    /\ th[Main].pc # "dead"
    /\ \A t \in Session : th[t].call # None /\ Opening(t) =>
         /\ th[t].pc = "dead" => ~Reachable(th[t].call.path) \/ th[t].call.refused
         /\ Said(t) => Reachable(th[t].call.path)

(* What a session owes: an answer *)
FsOwes(t) == th[t].pc \notin {"closed", "idle", "dead"}

(***************************************************************************)
(* An inode object is deleted once: get_root_directory and get_inode_ref   *)
(* hand out an object "which should be freed by callee" (ext2fs.cc:78),    *)
(* and locate_directory passes it on to find_local_directory.              *)
(***************************************************************************)
InodeFreedOnce == \A t \in Session : th[t].dels <= 1
=============================================================================
