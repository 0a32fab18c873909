------------------------------- MODULE MCExt2 -------------------------------
(***************************************************************************)
(* The ext2 file server over four small disks, and its block cache.  A     *)
(* behaviour is one of a single component (kind); the other stays in its   *)
(* initial state.                                                          *)
(***************************************************************************)
EXTENDS BlockCache, Sequences, TLC

CONSTANT Disk

VARIABLES kind, disk, super, num_sessions, dev_lock, buffer, th, handles, next_handle, shmem, calls

fileVars == <<disk, super, num_sessions, dev_lock, buffer, th, handles, next_handle, shmem, calls>>

(* Requests that hit, miss, cross a silo's end, and go to the device *)
RequestDef == {<<s * SiloBytes, BLOCK_SIZE>> : s \in 0 .. 2}
                  \cup {<<BLOCK_SIZE + 1, BLOCK_SIZE>>, <<0, SiloBytes + 1>>}

-----------------------------------------------------------------------------
(***************************************************************************)
(* A disk with sectors of 4 bytes, a superblock of 8 bytes and an inode of *)
(* 4; three groups of two inodes, with two direct pointers each.  The root *)
(* directory has three blocks; "/sub/big" has 13, reached through every    *)
(* kind of list its block size needs.  The root may be indexed, and may    *)
(* hold an unused entry with the name of a directory.                      *)
(***************************************************************************)
Dir(name, n)  == [name |-> name, inode |-> n, type |-> "dir"]
Reg(name, n)  == [name |-> name, inode |-> n, type |-> "file"]
Inode(file, size, direct, one, two, three) ==
    [kind |-> "inode", is_file |-> file, indexed |-> FALSE, size |-> size,
     direct |-> direct, singly |-> one, doubly |-> two, triply |-> three]
ListOf(list) == [kind |-> "list", list |-> list]

SmallSize == 5
BigSize(bs) == 12 * bs + 3

MkDisk(asked, root, hidden, pte, lba, log2, groups, two, three, lists) ==
    LET part == lba * 4
        bs   == 8 * 2^log2
        At(block) == part + block * bs
    IN  [at |-> 0 :> [kind |-> "mbr", pte |-> pte]
           @@ part + 8 :> [kind |-> "superblock", block_size_log2 |-> log2, blocks |-> 40,
                           blocks_per_group |-> 16, inodes |-> 6, inodes_per_group |-> 2,
                           inode_size |-> 4]
           @@ [o \in {At(groups) + 4 * g : g \in 0 .. 2} |->
                 [kind |-> "group", inode_table |-> 4 + (o - At(groups)) \div 4]]
           @@ At(4) + 4 :> [Inode(FALSE, 3 * bs, <<7, 8>>, 9, 0, 0) EXCEPT
                              !.indexed = root.indexed]
           @@ At(5)     :> Inode(FALSE, bs, <<24, 0>>, 0, 0, 0)
           @@ At(5) + 4 :> Inode(TRUE, SmallSize, <<25, 0>>, 0, 0, 0)
           @@ At(6)     :> Inode(TRUE, BigSize(bs), <<10, 11>>, 30, two, three)
           @@ At(9)     :> ListOf(<<23, 0>>)
           @@ [o \in {At(b) : b \in DOMAIN lists} |-> ListOf(lists[(o - part) \div bs])],
         dir |-> 7 :> <<Dir(".", 2), Reg("small", 0)>> \o root.unused @@ 8 :> <<Reg("small", 4)>>
                   @@ 23 :> <<Dir("sub", 3)>> @@ 24 :> <<Dir("..", 2), Reg("big", 5)>>,
         files |-> <<"small">> :> <<25>> @@ <<"sub", "big">> :> [k \in 1 .. 13 |-> 9 + k],
         names |-> <<>> :> {"small", "sub"} @@ <<"sub">> :> {"big"},
         hidden |-> hidden, asked |-> asked]

Pte(id, lba) == [system_id |-> id, lba |-> lba]

PlainRoot == [indexed |-> FALSE, unused |-> <<>>]
IndexedRoot == [PlainRoot EXCEPT !.indexed = TRUE]
RootOfUnused == [PlainRoot EXCEPT !.unused = <<Dir("sub", 0)>>]

NoDisk == [at |-> <<>>]
BigLists == 30 :> <<12, 13, 14, 15>> @@ 31 :> <<32, 33, 0, 0>>
             @@ 32 :> <<16, 17, 18, 19>> @@ 33 :> <<20, 21, 22, 0>>

MCDisk == {NoDisk,
    MkDisk({<<"small">>, <<"sub", "big">>, <<"none">>, <<"sub">>}, PlainRoot, {},
           <<Pte(131, 3)>>, 3, 0, 2, 31, 34,
           30 :> <<12, 13>> @@ 31 :> <<32, 33>> @@ 32 :> <<14, 15>> @@ 33 :> <<16, 17>>
             @@ 34 :> <<35, 36>> @@ 35 :> <<37, 38>> @@ 36 :> <<39, 0>> @@ 37 :> <<18, 19>>
             @@ 38 :> <<20, 21>> @@ 39 :> <<22, 0>>),
    MkDisk({<<"sub", "big">>}, PlainRoot, {},
           <<Pte(7, 1), Pte(131, 9)>>, 9, 1, 1, 31, 0, BigLists),
    MkDisk({<<"small">>, <<"sub", "big">>}, RootOfUnused, {<<"sub", "big">>},
           <<Pte(131, 9)>>, 9, 1, 1, 31, 0, BigLists),
    MkDisk({<<"small">>, <<"sub", "big">>}, IndexedRoot, {<<"small">>},
           <<Pte(131, 9)>>, 9, 1, 1, 31, 0, BigLists)}

F == INSTANCE Ext2Fs WITH
        Session <- {0, 1}, SECTOR <- 4, SB_SIZE <- 8, BG_SIZE <- 4, U32 <- 1024,
        MAX_ACTIVE_HANDLES <- 2, ShmemSize <- 80, NameSize <- 16, Count <- {3, 60}, Offset <- {30},
        MaxCalls <- 3, lock <- dev_lock

-----------------------------------------------------------------------------
MCInit ==
    /\ kind \in {"cache", "files"}
    /\ CacheInit /\ F!FsInit
    /\ kind = "cache" <=> disk = NoDisk

MCNext ==
    /\ UNCHANGED kind
    /\ \/ kind = "cache" /\ CacheNext /\ UNCHANGED fileVars
       \/ kind = "files" /\ F!FsNext /\ UNCHANGED cacheVars

MCVars == <<kind, cacheVars, fileVars>>

(* Session threads and readers run *)
MCFairness ==
    /\ WF_MCVars(kind = "files" /\ F!Boot /\ UNCHANGED <<kind, cacheVars>>)
    /\ \A s \in {0, 1} : WF_MCVars(kind = "files" /\ F!Work(s) /\ UNCHANGED <<kind, cacheVars>>)
    /\ \A t \in Reader : WF_MCVars(kind = "cache" /\ Step(t) /\ UNCHANGED <<kind, fileVars>>)

MCSpec == MCInit /\ [][MCNext]_<<kind, cacheVars, fileVars>> /\ MCFairness

(* A session is told the truth (Ext2Fs) *)
AnswersAreTrue == F!AnswersAreTrue

(* A file that is there can be opened (Ext2Fs) *)
OpensWhatExists == F!OpensWhatExists

(* An inode object is deleted once (Ext2Fs) *)
InodeFreedOnce == F!InodeFreedOnce

(* Every read of the cache returns, and every call of a session is         *)
(* answered.  Readers are alike, and so are sessions: one of each is       *)
(* followed.                                                               *)
Owing == \/ kind = "cache" /\ pc[CHOOSE t \in Reader : TRUE] # "idle"
         \/ kind = "files" /\ F!FsOwes(0)

CallsReturn == Owing ~> ~Owing
=============================================================================
