---------------------------- MODULE SharedMemory ----------------------------
(***************************************************************************)
(* What processes share through libexo's shared memory: the lookup table   *)
(* and the two-way channels.                                               *)
(***************************************************************************)
EXTENDS Integers, Sequences, SequencesExt

-----------------------------------------------------------------------------
(***************************************************************************)
(* The shared lookup table of libexo (src/lib/libexo/exo/shm_table.h):     *)
(* threads of the creating process append rows, and look rows up by type,  *)
(* under the table's Spin_lock (src/lib/libexo/exo/spinlocks.h), as the    *)
(* class's warning demands.  The types of a row, its values and the count  *)
(* of rows are plain stores that nothing orders: they become visible in    *)
(* any order.  A process that attached maps the table read-only and cannot *)
(* take the lock; nothing is said about what it reads meanwhile.           *)
(***************************************************************************)

CONSTANTS Writers, Readers,
          ENTRIES,           \* SHM_TABLE_ENTRY
          Types              \* <<type_id, sub_type_id>> pairs

VARIABLES locked,            \* Spin_lock::_l
          next_row,          \* *_next_row
          row,               \* the rows: type and value
          wr,                \* what each writer is doing
          rd                 \* what each reader is doing

tableVars == <<locked, next_row, row, wr, rd>>

Blank == [type |-> "none", value |-> "none"]
Rows == 0..ENTRIES - 1

\* __init with need_alloc: the memory is cleared, the lock constructed, no row used.
TableInit ==
  /\ locked = FALSE
  /\ next_row = 0
  /\ row = [r \in Rows |-> Blank]
  /\ wr = [w \in Writers |-> [pc |-> "idle", row |-> 0, type |-> "none", todo |-> {}]]
  /\ rd = [r \in Readers |-> [pc |-> "idle", i |-> 0, want |-> "none", found |-> -1,
                              got |-> Blank]]

\* A slip in Spin_lock::lock: the word is set without looking at what it was.
Spin_lock_open == locked' = TRUE

Spin_lock == ~locked /\ locked' = TRUE

lock(w) ==
  /\ wr[w].pc = "idle"
  /\ Spin_lock
  /\ wr' = [wr EXCEPT ![w].pc = "locked"]
  /\ UNCHANGED <<next_row, row, rd>>

\* get_row_number asserts that a row is left.
get_row_number(w) ==
  /\ wr[w].pc = "locked"
  /\ wr' = [wr EXCEPT ![w] = IF next_row < ENTRIES
                             THEN [@ EXCEPT !.pc = "copy", !.row = next_row]
                             ELSE [@ EXCEPT !.pc = "abort"]]
  /\ UNCHANGED <<locked, next_row, row, rd>>

\* write_shm_table: the assertion, then the copy of the row and its count.
write_begin(w) ==
  \E ty \in Types :
    /\ wr[w].pc = "copy"
    /\ wr' = [wr EXCEPT ![w] = IF @.row = next_row
                               THEN [@ EXCEPT !.pc = "store", !.type = ty,
                                              !.todo = {"type", "value", "count"}]
                               ELSE [@ EXCEPT !.pc = "abort"]]
    /\ UNCHANGED <<locked, next_row, row, rd>>

write_store(w) ==
  \E part \in wr[w].todo :
    /\ row' = IF part = "count" THEN row ELSE [row EXCEPT ![wr[w].row][part] = wr[w].type]
    /\ next_row' = IF part = "count" THEN next_row + 1 ELSE next_row
    /\ wr' = [wr EXCEPT ![w].todo = @ \ {part},
                        ![w].pc = IF wr[w].todo = {part} THEN "unlock" ELSE @]
    /\ UNCHANGED <<locked, rd>>

write_shm_table(w) == write_begin(w) \/ write_store(w)

unlock(w) ==
  /\ wr[w].pc = "unlock"
  /\ locked' = FALSE
  /\ wr' = [wr EXCEPT ![w].pc = "idle"]
  /\ UNCHANGED <<next_row, row, rd>>

\* find_row_number under the lock: next_row is read again for every row.
find_begin(r) ==
  \E ty \in Types :
    /\ rd[r].pc = "idle"
    /\ Spin_lock
    /\ rd' = [rd EXCEPT ![r] = [pc |-> "find", i |-> 0, want |-> ty, found |-> -1, got |-> Blank]]
    /\ UNCHANGED <<next_row, row, wr>>

find_step(r) ==
  LET c == rd[r]
  IN /\ c.pc = "find"
     /\ rd' = [rd EXCEPT ![r] =
                 CASE c.i >= next_row -> [c EXCEPT !.pc = "unlock"]
                   [] c.i < next_row /\ row[c.i].type = c.want ->
                        [c EXCEPT !.pc = "read", !.found = c.i]
                   [] OTHER -> [c EXCEPT !.i = @ + 1]]
     /\ UNCHANGED <<locked, next_row, row, wr>>

find_row_number(r) == find_begin(r) \/ find_step(r)

\* read_row gives a pointer, which is followed before the lock is released.
read_row(r) ==
  /\ rd[r].pc = "read"
  /\ rd' = [rd EXCEPT ![r].pc = "unlock", ![r].got = row[rd[r].found]]
  /\ UNCHANGED <<locked, next_row, row, wr>>

read_unlock(r) ==
  /\ rd[r].pc = "unlock"
  /\ locked' = FALSE
  /\ rd' = [rd EXCEPT ![r].pc = "idle"]
  /\ UNCHANGED <<next_row, row, wr>>

TableNext ==
  \/ \E w \in Writers : lock(w) \/ get_row_number(w) \/ write_shm_table(w) \/ unlock(w)
  \/ \E r \in Readers : find_row_number(r) \/ read_row(r) \/ read_unlock(r)

\* A reader that holds the lock gets only rows that were written completely, and the row it asked
\* for, in whatever order the stores of a row become visible; of the rows of that type it finds
\* the first; and no writer ever takes another's row for its own, which write_shm_table asserts.
ReadersSeeWholeRows ==
  /\ \A r \in Readers :
       rd[r].got # Blank =>
         /\ rd[r].got = [type |-> rd[r].want, value |-> rd[r].want]
         /\ \A i \in 0..rd[r].found - 1 : row[i].type # rd[r].want
  /\ \A w \in Writers : wr[w].pc = "abort" => next_row = ENTRIES

-----------------------------------------------------------------------------
(***************************************************************************)
(* The two-way shared-memory channels of libexo: Shm_channel and Shm_area  *)
(* over POSIX shared memory (src/lib/libexo/channel/) and over System V    *)
(* huge-page segments (src/lib/libexo/numa_channel/, huge_shmem_alloc and  *)
(* huge_shmem_attach of src/lib/libexo/memory.cc).  A channel is two       *)
(* areas, each with a buffer; the end that connects swaps them, so what    *)
(* one end produces the other consumes.                                    *)
(*                                                                         *)
(* The buffers are the SPMC circular buffers, which implement a bounded    *)
(* FIFO (modules SpmcBuffer and NumaSpmcBuffer); here each is its          *)
(* sequence.  An area that a previous run left behind may still hold       *)
(* messages of that run.  As the constructors' comments prescribe, the     *)
(* connecting process starts when the creator has finished.                *)
(***************************************************************************)

CONSTANTS Capacity,         \* SIZE
          MaxSent           \* bound: messages each end produces

VARIABLES flavour,          \* "posix" or "sysv"
          area,             \* the object behind the key of each area, 0 when there is none
          object,           \* the objects: whether they have a size, and their buffer
          end,              \* the two ends: progress, buffers, messages sent and received
          gone              \* whether a destructor has run

chanVars == <<flavour, area, object, end, gone>>

Ends == {"creator", "connector"}
Peer(e) == IF e = "creator" THEN "connector" ELSE "creator"
Leftover == [sized |-> TRUE, queue |-> <<<<"old", 1>>>>]
Unsized == [sized |-> FALSE, queue |-> <<>>]

ChanInit ==
  /\ flavour \in {"posix", "sysv"}
  /\ \/ area = <<0, 0>> /\ object = <<>>
     \/ area = <<1, 2>> /\ object = <<Leftover, Leftover>>
  /\ end = [e \in Ends |-> [pc |-> "new", i |-> 1, buffers |-> <<0, 0>>,
                            sent |-> <<>>, got |-> <<>>]]
  /\ gone = FALSE

\* shm_open with O_CREAT, and shmget with IPC_CREAT in huge_shmem_alloc: the object behind the
\* key, made when there is none; then its size (ftruncate, or the segment's own).
open_area(i, sized) ==
  /\ \/ /\ area[i] # 0
        /\ object' = [object EXCEPT ![area[i]].sized = @ \/ sized]
        /\ UNCHANGED area
     \/ /\ area[i] = 0
        /\ object' = Append(object, [Unsized EXCEPT !.sized = sized])
        /\ area' = [area EXCEPT ![i] = Len(object) + 1]

\* Shm_area::init and the creator's part of the Shm_channel constructor: the area is opened and
\* mapped, then cleared and its buffer constructed in place.
create_open ==
  LET c == end["creator"]
  IN /\ c.pc = "new"
     /\ open_area(c.i, TRUE)
     /\ end' = [end EXCEPT !["creator"].pc = "clear", !["creator"].buffers[c.i] = area'[c.i]]
     /\ UNCHANGED <<flavour, gone>>

\* A slip in the constructor: an area that is already there is taken as it is.
create_clear_reuse ==
  LET c == end["creator"]
  IN /\ c.pc = "clear"
     /\ end' = [end EXCEPT !["creator"].pc = IF c.i = 2 THEN "open" ELSE "new",
                           !["creator"].i = 2]
     /\ UNCHANGED <<flavour, area, object, gone>>

create_clear ==
  LET c == end["creator"]
  IN /\ c.pc = "clear"
     /\ object' = [object EXCEPT ![c.buffers[c.i]].queue = <<>>]
     /\ end' = [end EXCEPT !["creator"].pc = IF c.i = 2 THEN "open" ELSE "new",
                           !["creator"].i = 2]
     /\ UNCHANGED <<flavour, area, gone>>

\* A slip in the constructor: the buffers are not switched.
connect_straight ==
  LET c == end["connector"]
  IN /\ c.pc = "new"
     /\ end["creator"].pc \in {"open", "closed"}
     /\ open_area(c.i, FALSE)
     /\ end' = [end EXCEPT !["connector"].pc = IF c.i = 2 THEN "open" ELSE "new",
                           !["connector"].i = 2,
                           !["connector"].buffers[c.i] = area'[c.i]]
     /\ UNCHANGED <<flavour, gone>>

\* A System V segment is attached only when there is one behind the key; otherwise it throws.
huge_shmem_attach(i) == flavour = "sysv" => area[i] # 0

\* The other end: area i becomes buffer 3 - i.  POSIX creates a missing object (of size 0);
\* after huge_shmem_attach has thrown an assertion ends the process.
connect ==
  LET c == end["connector"]
  IN /\ c.pc = "new"
     /\ end["creator"].pc \in {"open", "closed"}
     /\ \/ /\ huge_shmem_attach(c.i)
           /\ open_area(c.i, FALSE)
           /\ end' = [end EXCEPT !["connector"].pc = IF c.i = 2 THEN "open" ELSE "new",
                                 !["connector"].i = 2,
                                 !["connector"].buffers[3 - c.i] = area'[c.i]]
        \/ /\ ~huge_shmem_attach(c.i)
           /\ end' = [end EXCEPT !["connector"].pc = "abort"]
           /\ UNCHANGED <<area, object>>
     /\ UNCHANGED <<flavour, gone>>

\* produce on the first buffer; touching an object without a size is a bus error.
produce(e) ==
  LET o == end[e].buffers[1]
      m == <<e, Len(end[e].sent) + 1>>
  IN /\ end[e].pc = "open"
     /\ Len(end[e].sent) < MaxSent
     /\ \/ /\ ~object[o].sized
           /\ end' = [end EXCEPT ![e].pc = "abort"]
           /\ UNCHANGED object
        \/ /\ object[o].sized
           /\ Len(object[o].queue) < Capacity
           /\ object' = [object EXCEPT ![o].queue = Append(@, m)]
           /\ end' = [end EXCEPT ![e].sent = Append(@, m)]
     /\ UNCHANGED <<flavour, area, gone>>

consume(e) ==
  LET o == end[e].buffers[2]
  IN /\ end[e].pc = "open"
     /\ \/ /\ ~object[o].sized
           /\ end' = [end EXCEPT ![e].pc = "abort"]
           /\ UNCHANGED object
        \/ /\ object[o].queue # <<>>
           /\ object' = [object EXCEPT ![o].queue = Tail(@)]
           /\ end' = [end EXCEPT ![e].got = Append(@, Head(object[o].queue))]
     /\ UNCHANGED <<flavour, area, gone>>

\* The destructor of either end unlinks the names of both areas; mappings stay.  System V
\* segments stay under their key (the area's name was never set).
destroy(e) ==
  /\ end[e].pc = "open"
  /\ end' = [end EXCEPT ![e].pc = "closed"]
  /\ area' = IF flavour = "posix" THEN <<0, 0>> ELSE area
  /\ gone' = TRUE
  /\ UNCHANGED <<flavour, object>>

ChanNext == \/ create_open \/ create_clear \/ connect
            \/ \E e \in Ends : produce(e) \/ consume(e) \/ destroy(e)

\* What an end receives is a prefix of what its peer sent, in order, in both directions: never its
\* own messages, never a message a previous run left in an area that is used again.  The rest is
\* in the buffer the end reads, once both are open.
ChannelDelivers ==
  \A e \in Ends :
    /\ IsPrefix(end[e].got, end[Peer(e)].sent)
    /\ ~gone /\ (\A x \in Ends : end[x].pc = "open") =>
         end[e].got \o object[end[e].buffers[2]].queue = end[Peer(e)].sent

\* While no end has been destroyed, connecting and using the channel does not fail on a missing
\* or unsized area.
ChannelUsable == ~gone => \A e \in Ends : end[e].pc # "abort"
=============================================================================
