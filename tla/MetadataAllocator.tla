------------------------- MODULE MetadataAllocator -------------------------
(***************************************************************************)
(* One NUMA zone of Basic_metadata_allocator                               *)
(* (src/lib/libexo/exo/numa_memory.h): threads carve pieces off pages.     *)
(* The vector of pages is read under a reader lock (RW_lock,               *)
(* src/lib/libexo/exo/locks.h), newest page first; a page is looked at     *)
(* once without and once with its spin lock; a thread that finds no room   *)
(* makes a page of its own and adds it under the writer lock.              *)
(***************************************************************************)
EXTENDS Integers, Sequences, FiniteSets

CONSTANTS Threads,
          PageSize,          \* PAGE_SIZE
          Sizes,             \* the sizes asked for, at most PageSize
          MaxPages           \* bound: pages created

VARIABLES pages,             \* _pages: the bytes remaining in every page
          created,           \* pages created, listed or not
          readers, writer,   \* RW_lock
          md,                \* the call each thread is in
          pieces             \* <<page, offset, size>> handed out

mdVars == <<pages, created, readers, writer, md, pieces>>

NoAlloc == [pc |-> "idle", s |-> 0, at |-> 0, left |-> 0]

MdInit ==
  /\ pages = <<>> /\ created = 0
  /\ readers = {} /\ writer = {}
  /\ md = [t \in Threads |-> NoAlloc]
  /\ pieces = {}

Set(t, c) == md' = [md EXCEPT ![t] = c]

\* alloc, up to the reader lock.
rdlock(t) ==
  \E s \in Sizes :
    /\ md[t].pc = "idle"
    /\ writer = {}
    /\ readers' = readers \cup {t}
    /\ Set(t, [NoAlloc EXCEPT !.pc = "look", !.s = s, !.at = Len(pages)])
    /\ UNCHANGED <<pages, created, writer, pieces>>

\* alloc_from_page before its lock; past the oldest page the reader lock is released.
look(t) ==
  LET c == md[t]
  IN /\ c.pc = "look"
     /\ \/ /\ c.at = 0
           /\ readers' = readers \ {t}
           /\ Set(t, [c EXCEPT !.pc = "grow"])
        \/ /\ c.at > 0
           /\ Set(t, IF c.s > pages[c.at].left THEN [c EXCEPT !.at = @ - 1]
                                               ELSE [c EXCEPT !.pc = "carve"])
           /\ UNCHANGED readers
     /\ UNCHANGED <<pages, created, writer, pieces>>

\* A slip in alloc_from_page: the test before the lock is relied on.
alloc_from_page_once(t) ==
  LET c == md[t]
      p == pages[c.at]
  IN /\ c.pc = "carve"
     /\ pages' = [pages EXCEPT ![c.at].left = @ - c.s]
     /\ pieces' = pieces \cup {<<p.id, PageSize - p.left, c.s>>}
     /\ readers' = readers \ {t}
     /\ Set(t, NoAlloc)
     /\ UNCHANGED <<created, writer>>

\* alloc_from_page under the lock of the page: the room is tested again.
alloc_from_page(t) ==
  LET c == md[t]
      p == pages[c.at]
  IN /\ c.pc = "carve"
     /\ IF c.s > p.left
        THEN /\ Set(t, [c EXCEPT !.pc = "look", !.at = @ - 1])
             /\ UNCHANGED <<pages, readers, pieces>>
        ELSE /\ pages' = [pages EXCEPT ![c.at].left = @ - c.s]
             /\ pieces' = pieces \cup {<<p.id, PageSize - p.left, c.s>>}
             /\ readers' = readers \ {t}
             /\ Set(t, NoAlloc)
     /\ UNCHANGED <<created, writer>>

\* A new page, still private to the thread, serves the request.
new_page(t) ==
  LET c == md[t]
  IN /\ c.pc = "grow"
     /\ created < MaxPages
     /\ created' = created + 1
     /\ pieces' = pieces \cup {<<created, 0, c.s>>}
     /\ Set(t, [c EXCEPT !.pc = "list", !.at = created, !.left = PageSize - c.s])
     /\ UNCHANGED <<pages, readers, writer>>

wrlock(t) ==
  /\ md[t].pc = "list"
  /\ readers = {} /\ writer = {}
  /\ writer' = {t}
  /\ Set(t, [md[t] EXCEPT !.pc = "push"])
  /\ UNCHANGED <<pages, created, readers, pieces>>

push_back(t) ==
  /\ md[t].pc = "push"
  /\ pages' = Append(pages, [id |-> md[t].at, left |-> md[t].left])
  /\ writer' = {}
  /\ Set(t, NoAlloc)
  /\ UNCHANGED <<created, readers, pieces>>

MdAlloc(t) == rdlock(t) \/ look(t) \/ alloc_from_page(t) \/ new_page(t) \/ wrlock(t) \/ push_back(t)

MdNext == \E t \in Threads : MdAlloc(t)

\* The pieces handed out lie within their page and never overlap, although threads test the room
\* of a page before they take its lock and two of them may both make a new page.
PiecesApart ==
  \A p \in pieces :
    /\ p[2] >= 0 /\ p[2] + p[3] <= PageSize
    /\ \A q \in pieces \ {p} :
         p[1] = q[1] => p[2] + p[3] <= q[2] \/ q[2] + q[3] <= p[2]
=============================================================================
