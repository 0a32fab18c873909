------------------------------ MODULE Parasite ------------------------------
(***************************************************************************)
(* DMA memory of the parasite module and its users in lib/libexo, and the  *)
(* module as a whole (PkDevice has the devices and interrupts): the list   *)
(* of areas of each device, the calls of Device_sysfs that allocate,       *)
(* map, free and release areas, and the check that fops_mmap makes.        *)
(* Sources: kernel/modules/parasite pk_class.c, pk_fops.c, common.c,       *)
(* pk_main.c; lib/libexo sysfs.cc.                                         *)
(*                                                                         *)
(* An area is one page here.  The calls that would give pages back are     *)
(* compiled out (#if 0), so a page is given out once.                      *)
(***************************************************************************)
EXTENDS PkDevice, Sequences

CONSTANTS
    DmaDev,       \* devices whose DMA memory is used
    Task,         \* user threads; owner_pid is the id of one
    MaxPages      \* pages the kernel has for DMA

VARIABLES
    areas,        \* areas[d]: dma_area_list, the newest first
    pages,        \* pages given out so far
    mapped,       \* pages in the address space of each thread
    allocations,  \* _dma_allocations of each thread's device object
    shared,       \* pages of listed areas that were granted to all (history)
    call          \* the call a thread is in

dmaVars == <<areas, pages, mapped, allocations, shared, call>>

ASSUME DmaAssumption == MaxPages \in Nat

Page == 1 .. MaxPages
NoCall == [pc |-> "idle", dev |-> 0, page |-> 0, want |-> 0, ok |-> FALSE, huge |-> FALSE, walk |-> {}]

Area(p, t) == [page |-> p, owner |-> t]
Areas == [page : Page, owner : Task]
Listed == {a \in Areas : \E d \in DmaDev : \E i \in DOMAIN areas[d] : areas[d][i] = a}
Owned(t, list) == {i \in DOMAIN list : list[i].owner = t}
First(i, S) == i \in S /\ \A j \in S : i <= j

DmaInit ==
    /\ areas = [d \in DmaDev |-> <<>>]
    /\ pages = 0
    /\ mapped = [t \in Task |-> {}]
    /\ allocations = [t \in Task |-> {}]
    /\ shared = {}
    /\ call = [t \in Task |-> NoCall]

-----------------------------------------------------------------------------
(* Mutant: the new area goes to the end of the list *)
ListAdd_tail(list, a) == Append(list, a)

(* list_add *)
ListAdd(list, a) == <<a>> \o list

(***************************************************************************)
(* alloc_dma_pages and alloc_dma_huge_pages, first the write:              *)
(* dma_alloc_store adds an area, or fails for want of pages or for a       *)
(* request that is too large.                                              *)
(***************************************************************************)
AllocWrite(t, d, h) ==
    /\ call[t].pc = "idle"
    /\ \/ /\ pages < MaxPages
          /\ pages' = pages + 1
          /\ areas' = [areas EXCEPT ![d] = ListAdd(@, Area(pages + 1, t))]
          /\ call' = [call EXCEPT ![t] = [NoCall EXCEPT !.pc = "read", !.dev = d, !.huge = h,
                                                       !.want = pages + 1, !.ok = TRUE]]
       \/ /\ call' = [call EXCEPT ![t] = [NoCall EXCEPT !.pc = "read", !.dev = d, !.huge = h]]
          /\ UNCHANGED <<areas, pages>>
    /\ UNCHANGED <<mapped, allocations, shared>>

(***************************************************************************)
(* Then the read: dma_alloc_show lists the areas of the caller, and the    *)
(* first line is taken.  After a failed write, or with an empty list, the  *)
(* local variable is used as it is: any value, of which zero fails the     *)
(* assertion that follows.                                                 *)
(***************************************************************************)
AllocRead(t) ==
    LET list == areas[call[t].dev] IN
    /\ call[t].pc = "read"
    /\ IF call[t].ok /\ Owned(t, list) # {}
       THEN \E i \in DOMAIN list :
              /\ First(i, Owned(t, list))
              /\ call' = [call EXCEPT ![t].pc = "mmap", ![t].page = list[i].page]
       ELSE \E g \in Page \cup {0} :
              call' = [call EXCEPT ![t] =
                         IF g = 0 THEN NoCall
                         ELSE [@ EXCEPT !.pc = "mmap", !.page = g, !.ok = FALSE]]
    /\ UNCHANGED <<areas, pages, mapped, allocations, shared>>

(***************************************************************************)
(* fops_mmap: get_owned_dma_area walks all lists without their locks.  An  *)
(* area that is taken off a list under the walk sends it to a poisoned     *)
(* pointer, and the thread dies; or the walk has passed it already.        *)
(***************************************************************************)
MmapWalk(t) ==
    /\ call[t].pc = "mmap" /\ ~call[t].huge
    /\ call' = [call EXCEPT ![t].pc = "walk", ![t].walk = Listed]
    /\ UNCHANGED <<areas, pages, mapped, allocations, shared>>

MmapOops(t) ==
    /\ call[t].pc = "walk"
    /\ ~(call[t].walk \subseteq Listed)
    /\ call' = [call EXCEPT ![t] = [NoCall EXCEPT !.pc = "dead"]]
    /\ UNCHANGED <<areas, pages, mapped, allocations, shared>>

(* Mutant: any listed area will do *)
get_owned_dma_area_any(t, p) == \E a \in Listed : a.page = p

get_owned_dma_area(t, p) == Area(p, t) \in Listed

(* fops_mmap *)
MmapReturns(t) ==
    /\ call[t].pc = "walk"
    /\ IF get_owned_dma_area(t, call[t].page)
       THEN /\ mapped' = [mapped EXCEPT ![t] = @ \cup {call[t].page}]
            /\ allocations' = [allocations EXCEPT ![t] = @ \cup {<<call[t].dev, call[t].page>>}]
       ELSE UNCHANGED <<mapped, allocations>>
    /\ call' = [call EXCEPT ![t] = NoCall]
    /\ UNCHANGED <<areas, pages, shared>>

(***************************************************************************)
(* alloc_dma_huge_pages asks for MAP_ANONYMOUS: the kernel does not call   *)
(* fops_mmap, and what is mapped is other memory.  It may be refused.      *)
(***************************************************************************)
MmapHuge(t) ==
    /\ call[t].pc = "mmap" /\ call[t].huge
    /\ \/ allocations' = [allocations EXCEPT ![t] = @ \cup {<<call[t].dev, call[t].page>>}]
       \/ UNCHANGED allocations
    /\ call' = [call EXCEPT ![t] = NoCall]
    /\ UNCHANGED <<areas, pages, mapped, shared>>

(***************************************************************************)
(* alloc_dma_pages in order: the write and the read of dma_page_alloc, and *)
(* the mmap of /dev/parasite.                                              *)
(***************************************************************************)
alloc_dma_pages(t) == AllocRead(t) \/ MmapWalk(t) \/ MmapOops(t) \/ MmapReturns(t) \/ MmapHuge(t)

(***************************************************************************)
(* grant_dma_access: grant_access_store looks for the caller's area in the *)
(* same way (here in one step) and sets DMA_AREA_FLAG_SHARED_ALL, which is *)
(* 0x0: no bit of the area changes, and shared only records the grant.     *)
(***************************************************************************)
grant_dma_access(t, p) ==
    /\ call[t].pc = "idle"
    /\ shared' = IF get_owned_dma_area(t, p) THEN shared \cup {p} ELSE shared
    /\ UNCHANGED <<areas, pages, mapped, allocations, call>>

-----------------------------------------------------------------------------
(* list_del *)
ListDel(list, i) == [k \in 1 .. Len(list) - 1 |-> IF k < i THEN list[k] ELSE list[k + 1]]

(* dma_free_store: the first area of the caller at the address leaves the list *)
dma_free_store(t, d, p) ==
    LET at == {i \in DOMAIN areas[d] : areas[d][i] = Area(p, t)} IN
    \/ \E i \in at : /\ First(i, at)
                    /\ areas' = [areas EXCEPT ![d] = ListDel(@, i)]
                    /\ shared' = shared \ {p}
    \/ at = {} /\ UNCHANGED <<areas, shared>>

(* free_dma_pages: munmap; the mapping stays in _dma_allocations *)
FreeUnmap(t, d, p) ==
    /\ call[t].pc = "idle"
    /\ mapped' = [mapped EXCEPT ![t] = @ \ {p}]
    /\ call' = [call EXCEPT ![t] = [NoCall EXCEPT !.pc = "free", !.dev = d, !.page = p]]
    /\ UNCHANGED <<areas, pages, allocations, shared>>

(* __free_dma_physical *)
FreeWrite(t) ==
    /\ call[t].pc = "free"
    /\ dma_free_store(t, call[t].dev, call[t].page)
    /\ call' = [call EXCEPT ![t] = NoCall]
    /\ UNCHANGED <<pages, mapped, allocations>>

(* ~Device_sysfs unmaps and frees what _dma_allocations holds, one after the other *)
Destroy(t, d, p) ==
    /\ call[t].pc \in {"idle", "destroy"}
    /\ mapped' = [mapped EXCEPT ![t] = @ \ {p}]
    /\ dma_free_store(t, d, p)
    /\ allocations' = [allocations EXCEPT ![t] = @ \ {<<d, p>>}]
    /\ call' = [call EXCEPT ![t] = IF allocations'[t] = {} THEN NoCall
                                   ELSE [NoCall EXCEPT !.pc = "destroy"]]
    /\ UNCHANGED pages

(***************************************************************************)
(* A thread ends, or another one starts with its id.  fops_release does    *)
(* nothing, so its areas stay on their lists.                              *)
(***************************************************************************)
Exit(t) ==
    /\ call[t].pc # "idle" \/ mapped[t] # {} \/ allocations[t] # {}
    /\ mapped' = [mapped EXCEPT ![t] = {}]
    /\ allocations' = [allocations EXCEPT ![t] = {}]
    /\ call' = [call EXCEPT ![t] = NoCall]
    /\ UNCHANGED <<areas, pages, shared>>

(* pk_device_cleanup frees the areas of a device, whoever owns them *)
FreeAreas(S) ==
    /\ areas' = [d \in DmaDev |-> IF d \in S THEN <<>> ELSE areas[d]]
    /\ shared' = {p \in shared : \E d \in DmaDev \ S : \E i \in DOMAIN areas[d] : areas[d][i].page = p}
    /\ UNCHANGED <<pages, mapped, allocations, call>>

-----------------------------------------------------------------------------
(***************************************************************************)
(* alloc_dma_pages maps the area its own write has made: whatever other    *)
(* threads and earlier calls did in between, the first line it reads back  *)
(* is that area.  This rests on the order of the list and on its filter.   *)
(* And no page is in the address space of two threads, and no area of one  *)
(* thread covers a page another has mapped, though areas are freed under   *)
(* live mappings when a device is detached.                                *)
(***************************************************************************)
DmaMapped ==
    /\ \A t \in Task : call[t].pc \in {"mmap", "walk"} /\ call[t].ok
                            => call[t].page = call[t].want
    /\ \A t, u \in Task : t # u =>
          /\ mapped[t] \cap mapped[u] = {}
          /\ \A a \in Listed : a.owner = t => a.page \notin mapped[u]

-----------------------------------------------------------------------------
(***************************************************************************)
(* The parasite module as a whole.  Detaching a device frees its DMA       *)
(* areas; DMA requests need an attached device and its grant.              *)
(***************************************************************************)
pkVars == <<pkDevVars, dmaVars>>

PkInit == PkDevInit /\ DmaInit

(* The requests of a client; its device must be attached and granted *)
DmaRequest(t) ==
    \/ \E d \in DmaDev, h \in BOOLEAN : Alive(d) /\ check_authority(t, d) /\ AllocWrite(t, d, h)
    \/ alloc_dma_pages(t)
    \/ \E a \in allocations[t] : \/ grant_dma_access(t, a[2]) \/ FreeUnmap(t, a[1], a[2])
                                 \/ Destroy(t, a[1], a[2])
    \/ FreeWrite(t) \/ Exit(t)

DeviceRequest(p) ==
    \/ \E d \in Dev : \/ GrantDevice(p, d) \/ locate_device(p, d)
                      \/ \E n \in Vec : allocate_msi_vectors(p, d, n)
                      \/ \E m \in BOOLEAN : irq_set_masking_mode(p, d, m)
    \/ \E v \in Dev \X Vec : ProcRead(p, v) \/ ProcWrite(p, v)
    \/ ProcWakes(p) \/ ProcReturns(p)

DetachDevice(d) ==
    /\ Detach(d)
    /\ IF d \in dead' THEN UNCHANGED dmaVars ELSE FreeAreas({d})

ReloadModule == Reload /\ FreeAreas(DmaDev)

PkNext ==
    \/ \E p \in Proc : DeviceRequest(p) /\ UNCHANGED dmaVars
    \/ \E t \in Task : DmaRequest(t) /\ UNCHANGED pkDevVars
    \/ \E v \in Dev \X Vec : (RaiseIrq(v) \/ IrqHandler(v)) /\ UNCHANGED dmaVars
    \/ \E d \in Dev : DetachDevice(d)
    \/ ReloadModule

PkSpec == PkInit /\ [][PkNext]_pkVars

(***************************************************************************)
(* Interrupt threads of the kernel run, and a reader that is woken runs.   *)
(***************************************************************************)
PkFairness ==
    /\ \A v \in Dev \X Vec : WF_pkVars(IrqHandler(v) /\ UNCHANGED dmaVars)
    /\ \A p \in Proc : WF_pkVars((ProcWakes(p) \/ ProcReturns(p)) /\ UNCHANGED dmaVars)
=============================================================================
