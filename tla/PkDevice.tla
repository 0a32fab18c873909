------------------------------ MODULE PkDevice ------------------------------
(***************************************************************************)
(* The parasite kernel module: grants, attaching and detaching devices,    *)
(* their minor numbers, MSI and MSI-X vectors, and the interrupt files     *)
(* under /proc.  Sources: kernel/modules/parasite pk_main.c, pk_pci.c,     *)
(* pk_class.c, and the callers in lib/libexo device.h and sysfs.cc.        *)
(*                                                                         *)
(* A write to a sysfs file is one action.  The list of devices has no      *)
(* lock: attaching, detaching and unloading are taken to come one after    *)
(* the other, as an administrator issues them.  A dereference of a null    *)
(* pointer or a failed BUG_ON or ASSERT kills the thread inside the        *)
(* kernel and leaves its device as it is, for good (dead).                 *)
(***************************************************************************)
EXTENDS Integers, FiniteSets

CONSTANTS
    Dev,          \* PCI devices
    Proc,         \* user threads
    User,         \* User[p]: the user a thread runs as
    Support,      \* Support[d]: msi_support, 0 none, 1 MSI, 2 MSI-X
    MaxDevices,   \* MAX_DEVICES
    MaxVecs,      \* MAX_MSI_VECTORS_PER_DEVICE
    MaxDepth,     \* bound on the nesting of disable_irq
    None

VARIABLES
    grants,       \* g_pkdevice_grant_list: <<device, user>>
    minor,        \* minor number of each registered device, or None
    dead,         \* devices a kernel thread died in
    entry_num,    \* msix_entry_num, msi_entry_num (one word)
    enabled,      \* vectors have been assigned by the PCI layer
    handlers,     \* vectors with an attached handler
    proc_num,     \* msi_proc_dir_entry_num
    irq_mode,     \* 1 non-masking, 2 masking
    depth,        \* disable depth of each vector
    pending,      \* vectors with an interrupt that is not handled yet
    hung,         \* vectors whose handler waits in disable_irq
    signalled,    \* vectors whose wait queue is signalled
    reader        \* each thread in msi_proc_read: <<device, vector, step>>

pkDevVars == <<grants, minor, dead, entry_num, enabled, handlers, proc_num,
               irq_mode, depth, pending, hung, signalled, reader>>

Vec   == 1 .. MaxVecs
Minor == 0 .. MaxDevices - 1

ASSUME PkAssumption == MaxVecs \in Nat /\ None \notin Minor

registered(d) == minor[d] # None
check_authority(p, d) == <<d, User[p]>> \in grants
Free(n) == n \notin {minor[d] : d \in Dev}
Alive(d) == registered(d) /\ d \notin dead
Of(S, d) == {v \in S : v[1] = d}

PkDevInit ==
    /\ grants = {} /\ dead = {}
    /\ minor = [d \in Dev |-> None]
    /\ entry_num = [d \in Dev |-> 0] /\ proc_num = [d \in Dev |-> 0]
    /\ enabled = {} /\ handlers = {} /\ pending = {} /\ hung = {}
    /\ signalled = {}
    /\ irq_mode = [d \in Dev |-> 1]
    /\ depth = [v \in Dev \X Vec |-> 0]
    /\ reader = [p \in Proc |-> None]

-----------------------------------------------------------------------------
(* pk_grant_device_store: grants are only ever added *)
GrantDevice(p, d) ==
    /\ grants' = grants \cup {<<d, User[p]>>}
    /\ UNCHANGED <<minor, dead, entry_num, enabled, handlers, proc_num,
                   irq_mode, depth, pending, hung, signalled, reader>>

(* get_minor: the least free number below MAX_DEVICES *)
get_minor(n) == n \in Minor /\ Free(n) /\ \A m \in Minor : Free(m) => n <= m

(* A new pk_device: it gets a minor number, and its fields their first values *)
sysfs_class_register_device(d) ==
    /\ \E n \in Minor : get_minor(n) /\ minor' = [minor EXCEPT ![d] = n]
    /\ irq_mode' = [irq_mode EXCEPT ![d] = 1]
    /\ entry_num' = [entry_num EXCEPT ![d] = 0]
    /\ proc_num' = [proc_num EXCEPT ![d] = 0]
    /\ signalled' = signalled \ Of(signalled, d)

(***************************************************************************)
(* probe.  When registering fails (no memory, no minor number,             *)
(* device_create) it returns NULL and probe writes through it.  A probe    *)
(* that is refused, or fails before that, changes nothing here.            *)
(***************************************************************************)
Probe(p, d) ==
    /\ check_authority(p, d)
    /\ \/ sysfs_class_register_device(d) /\ UNCHANGED dead
       \/ /\ dead' = dead \cup {d}
          /\ UNCHANGED <<minor, irq_mode, entry_num, proc_num, signalled>>
    /\ UNCHANGED <<grants, enabled, handlers, depth, pending, hung, reader>>

(* pk_new_id_store: the PCI layer probes the device unless it is bound *)
NewId(p, d) == ~registered(d) /\ d \notin dead /\ Probe(p, d)

(* A device that is not listed under the class is loaded by writing new_id *)
locate_device(p, d) == ~registered(d) /\ NewId(p, d)

(***************************************************************************)
(* msi_alloc_store with setup_msix_handlers and setup_msi_handlers.  The   *)
(* number of vectors is stored first.  The PCI layer may refuse; then a    *)
(* request_threaded_irq may fail after k handlers and k /proc entries: for *)
(* MSI-X the error is returned, for MSI an ASSERT fails.                   *)
(***************************************************************************)
AllocRefused(d) == UNCHANGED <<enabled, handlers, proc_num, depth, dead>>

(* Mutant: the /proc entries are counted once all handlers are attached *)
AttachHandlers_late(d, n, k) ==
    /\ enabled' = enabled \cup {d}
    /\ handlers' = handlers \cup {<<d, v>> : v \in 1 .. k}
    /\ proc_num' = [proc_num EXCEPT ![d] = IF k = n THEN k ELSE 0]
    /\ depth' = [v \in Dev \X Vec |->
                   IF v[1] = d /\ v[2] <= k THEN 0 ELSE depth[v]]

(* The loop over the vectors, up to the one whose request fails *)
AttachHandlers(d, n, k) ==
    /\ enabled' = enabled \cup {d}
    /\ handlers' = handlers \cup {<<d, v>> : v \in 1 .. k}
    /\ proc_num' = [proc_num EXCEPT ![d] = k]
    /\ depth' = [v \in Dev \X Vec |->
                   IF v[1] = d /\ v[2] <= k THEN 0 ELSE depth[v]]

setup_msix_handlers(d, n) ==
    /\ Support[d] = 2
    /\ \E k \in 0 .. n : AttachHandlers(d, n, k)
    /\ UNCHANGED dead

setup_msi_handlers(d, n) ==
    /\ Support[d] = 1
    /\ \E k \in 0 .. n : /\ AttachHandlers(d, n, k)
                         /\ dead' = IF k < n THEN dead \cup {d} ELSE dead

MsiAlloc(p, d, n) ==
    /\ Alive(d) /\ check_authority(p, d)
    /\ entry_num[d] = 0
    /\ n \in Vec
    /\ Support[d] # 0
    /\ entry_num' = [entry_num EXCEPT ![d] = n]
    /\ AllocRefused(d) \/ setup_msix_handlers(d, n) \/ setup_msi_handlers(d, n)
    /\ UNCHANGED <<grants, minor, irq_mode, pending, hung, signalled, reader>>

(* A caller that asks for no vectors is turned away before the write *)
allocate_msi_vectors(p, d, qty) == qty # 0 /\ MsiAlloc(p, d, qty)

(***************************************************************************)
(* irq_mode_store.  It walks msix_entry up to the stored number: a vector  *)
(* that was never assigned fails the BUG_ON, and a device with MSI has no  *)
(* msix_entry at all.  Any mode but 1 disables.  enable_irq of a vector    *)
(* that is not disabled only warns.                                        *)
(***************************************************************************)
EnableIrq(v)  == IF depth[v] > 0 THEN depth[v] - 1 ELSE 0
DisableIrq(v) == depth[v] + 1

IrqModeStore(p, d, mode) ==
    /\ Alive(d) /\ check_authority(p, d)
    /\ irq_mode' = [irq_mode EXCEPT ![d] = IF mode \in {1, 2} THEN mode ELSE @]
    /\ IF entry_num[d] > 0 /\ (Support[d] = 1 \/ d \notin enabled)
       THEN dead' = dead \cup {d} /\ UNCHANGED depth
       ELSE /\ Of(hung, d) = {}                \* disable_irq waits for handlers
            /\ \A v \in Of(handlers, d) : depth[v] < MaxDepth
            /\ depth' = [v \in Dev \X Vec |->
                           IF v \notin Of(handlers, d) THEN depth[v]
                           ELSE IF mode = 1 THEN EnableIrq(v) ELSE DisableIrq(v)]
            /\ UNCHANGED dead
    /\ UNCHANGED <<grants, minor, entry_num, enabled, handlers, proc_num,
                   pending, hung, signalled, reader>>

irq_set_masking_mode(p, d, masking) == IrqModeStore(p, d, IF masking THEN 2 ELSE 1)

-----------------------------------------------------------------------------
(* The device raises an interrupt; a disabled one is kept by the kernel *)
RaiseIrq(v) ==
    /\ v \in handlers
    /\ pending' = pending \cup {v}
    /\ UNCHANGED <<grants, minor, dead, entry_num, enabled, handlers, proc_num,
                   irq_mode, depth, hung, signalled, reader>>

(* Mutant: the waiters are woken without the flag being set *)
Signal_none(v) == signalled

Signal(v) == signalled \cup {v}

(***************************************************************************)
(* msi_primary_irq_handler and msi_threaded_irq_handler.  In masking mode  *)
(* the thread calls disable_irq for the interrupt it is handling, which    *)
(* waits until no handler of that interrupt runs: it never comes back.     *)
(***************************************************************************)
IrqHandler(v) ==
    /\ v \in pending /\ v \in handlers /\ v \notin hung
    /\ depth[v] = 0
    /\ pending' = pending \ {v}
    /\ IF irq_mode[v[1]] = 2
       THEN /\ depth' = [depth EXCEPT ![v] = DisableIrq(v)]
            /\ hung' = hung \cup {v}
            /\ UNCHANGED signalled
       ELSE /\ signalled' = Signal(v)
            /\ UNCHANGED <<depth, hung>>
    /\ UNCHANGED <<grants, minor, dead, entry_num, enabled, handlers, proc_num,
                   irq_mode, reader>>

(***************************************************************************)
(* wait_for_msix_irq: msi_proc_read sleeps until the flag is set, clears   *)
(* it and returns the vector.  A read that a signal interrupts returns 0   *)
(* and the caller reads again.                                             *)
(***************************************************************************)
ProcRead(p, v) ==
    /\ reader[p] = None
    /\ Alive(v[1]) /\ v[2] <= proc_num[v[1]]
    /\ reader' = [reader EXCEPT ![p] = <<v, "wait">>]
    /\ UNCHANGED <<grants, minor, dead, entry_num, enabled, handlers, proc_num,
                   irq_mode, depth, pending, hung, signalled>>

ProcWakes(p) ==
    /\ reader[p] # None /\ reader[p][2] = "wait"
    /\ reader[p][1] \in signalled
    /\ reader' = [reader EXCEPT ![p][2] = "awake"]
    /\ UNCHANGED <<grants, minor, dead, entry_num, enabled, handlers, proc_num,
                   irq_mode, depth, pending, hung, signalled>>

ProcReturns(p) ==
    /\ reader[p] # None /\ reader[p][2] = "awake"
    /\ signalled' = signalled \ {reader[p][1]}
    /\ reader' = [reader EXCEPT ![p] = None]
    /\ UNCHANGED <<grants, minor, dead, entry_num, enabled, handlers, proc_num,
                   irq_mode, depth, pending, hung>>

(* reenable_msix_irq: msi_proc_write *)
ProcWrite(p, v) ==
    /\ reader[p] = None
    /\ Alive(v[1]) /\ v[2] <= proc_num[v[1]]
    /\ irq_mode[v[1]] = 2
    /\ depth' = [depth EXCEPT ![v] = EnableIrq(v)]
    /\ UNCHANGED <<grants, minor, dead, entry_num, enabled, handlers, proc_num,
                   irq_mode, pending, hung, signalled, reader>>

-----------------------------------------------------------------------------
(***************************************************************************)
(* pk_device_cleanup and free_minor.  remove_proc_entry waits for readers  *)
(* and free_irq for handlers that run.  The log line of the MSI branch     *)
(* reads msix_entry, which an MSI device does not have.                    *)
(***************************************************************************)
Quiet(d) ==
    /\ Of(hung, d) = {}
    /\ \A p \in Proc : reader[p] # None => reader[p][1][1] # d

Detached(S) ==
    /\ minor' = [d \in Dev |-> IF d \in S THEN None ELSE minor[d]]
    /\ entry_num' = [d \in Dev |-> IF d \in S THEN 0 ELSE entry_num[d]]
    /\ handlers' = {v \in handlers : v[1] \in S => v[2] > proc_num[v[1]]}
    /\ proc_num' = [d \in Dev |-> IF d \in S THEN 0 ELSE proc_num[d]]
    /\ enabled' = enabled \ S
    /\ pending' = {v \in pending : v[1] \notin S}

(* pk_detach_store *)
Detach(d) ==
    /\ Alive(d) /\ Quiet(d)
    /\ IF Support[d] = 1 /\ proc_num[d] > 0
       THEN /\ dead' = dead \cup {d}
            /\ UNCHANGED <<minor, entry_num, handlers, proc_num, enabled, pending>>
       ELSE Detached({d}) /\ UNCHANGED dead
    /\ UNCHANGED <<grants, irq_mode, depth, hung, signalled, reader>>

(* pk_exit: release_all_devices and the grants; then pk_init again *)
Reload ==
    /\ dead = {}
    /\ \A d \in Dev : registered(d) => Quiet(d) /\ ~(Support[d] = 1 /\ proc_num[d] > 0)
    /\ Detached({d \in Dev : registered(d)})
    /\ grants' = {}
    /\ UNCHANGED <<dead, irq_mode, depth, hung, signalled, reader>>

-----------------------------------------------------------------------------
(***************************************************************************)
(* No handler of a vector is left attached once its device is gone, so no  *)
(* interrupt runs on a freed pk_device: pk_device_cleanup frees as many    *)
(* handlers as there are /proc entries, and an allocation that fails half  *)
(* way must have kept the two in step.  (The INTx handler that a device    *)
(* without MSI gets in setup_basic_interrupt is not one of a vector; no    *)
(* code frees it.)                                                         *)
(***************************************************************************)
NoStrayHandler == \A v \in handlers : registered(v[1])

(***************************************************************************)
(* A thread that reads an interrupt file (ReaderOwed) returns after an     *)
(* interrupt (ReaderServed): the handler's flag cannot be missed between the test and the sleep, and     *)
(* nothing but a return clears it.  Only in non-masking mode, with the     *)
(* vector enabled and no second reader of the same vector.                 *)
(***************************************************************************)
Undisturbed(p, v) ==
    /\ irq_mode[v[1]] = 1 /\ depth[v] = 0 /\ v \notin hung
    /\ \A q \in Proc \ {p} : reader[q] # None => reader[q][1] # v

ReaderOwed(p) == reader[p] # None /\ reader[p][1] \in pending
ReaderServed(p) == reader[p] = None \/ ~Undisturbed(p, reader[p][1])
=============================================================================
