----------------------------- MODULE PNMModule -----------------------------
(***************************************************************************)
(* The guest kernel's driver for the PNM device                            *)
(* (gem5/configs/yonsei/pnm_module.c): pnm_init and its unwinding,         *)
(* pnm_exit, pnm_mmap, and the processes that open /dev/pnm, map it and    *)
(* close the file as the service and the worker do.                        *)
(*                                                                         *)
(* The kernel is external: it runs one init or exit at a time, counts a    *)
(* reference to the module for every open file and every mapping, because  *)
(* pnm_fops.owner and pnm_cdev.owner name it, and starts pnm_exit only     *)
(* when there is none.  That is assumed, in the guard of Rmmod.  The       *)
(* device page is page 0, counted from PNM_PHYS_BASE.                      *)
(***************************************************************************)
EXTENDS Integers, FiniteSets

CONSTANTS
  Processes,       \* processes that open /dev/pnm
  MaxPages,        \* bound: largest mapping asked for, in pages
  MaxLoads         \* bound: calls of insmod

ASSUME ModuleAssumption ==
  MaxPages \in Nat \ {0} /\ MaxLoads \in Nat /\ IsFiniteSet(Processes)

VARIABLES
  pc,              \* where pnm_init or pnm_exit is; "out" and "in" between
  held,            \* what the module has registered with the kernel
  files,           \* processes with /dev/pnm open
  maps,            \* the pages each process has mapped
  loads            \* bound counter

moduleVars == <<pc, held, files, maps, loads>>

Resources == {"region", "cdev", "class", "device"}

ModuleInit ==
  /\ pc = "out" /\ held = {}
  /\ files = {} /\ maps = [p \in Processes |-> {}]
  /\ loads = 0

users == <<files, maps>>

-----------------------------------------------------------------------------
(* pnm_init: one registration after the other; the one that fails jumps to *)
(* the label that undoes the ones before it.                               *)
LoadModule ==
  /\ pc = "out" /\ loads < MaxLoads
  /\ pc' = "alloc_chrdev_region"
  /\ loads' = loads + 1
  /\ UNCHANGED <<held, users>>

Acquire(at, resource, next, label) ==
  /\ pc = at
  /\ \/ held' = held \cup {resource} /\ pc' = next
     \/ UNCHANGED held /\ pc' = label
  /\ UNCHANGED <<users, loads>>

(* Mutant: a device that cannot be created jumps past class_destroy.       *)
Register_SkipsClass ==
  \/ Acquire("alloc_chrdev_region", "region", "cdev_add", "out")
  \/ Acquire("cdev_add", "cdev", "class_create", "err_chrdev")
  \/ Acquire("class_create", "class", "device_create", "err_cdev")
  \/ Acquire("device_create", "device", "in", "err_cdev")

Register ==
  \/ Acquire("alloc_chrdev_region", "region", "cdev_add", "out")
  \/ Acquire("cdev_add", "cdev", "class_create", "err_chrdev")
  \/ Acquire("class_create", "class", "device_create", "err_cdev")
  \/ Acquire("device_create", "device", "in", "err_class")

Release(at, resource, next) ==
  /\ pc = at
  /\ held' = held \ {resource}
  /\ pc' = next
  /\ UNCHANGED <<users, loads>>

Unwind ==
  \/ Release("err_class", "class", "err_cdev")
  \/ Release("err_cdev", "cdev", "err_chrdev")
  \/ Release("err_chrdev", "region", "out")

(* rmmod gets past the kernel's reference count, an assumption about the   *)
(* kernel, when no file and no mapping is left.                            *)
Rmmod ==
  /\ pc = "in"
  /\ files = {} /\ \A p \in Processes : maps[p] = {}
  /\ pc' = "device_destroy"
  /\ UNCHANGED <<held, users, loads>>

(* Mutant: the device number is given back before the cdev is deleted.     *)
pnm_exit_RegionFirst ==
  \/ Release("device_destroy", "device", "class_destroy")
  \/ Release("class_destroy", "class", "unregister")
  \/ Release("unregister", "region", "cdev_del")
  \/ Release("cdev_del", "cdev", "out")

pnm_exit ==
  \/ Release("device_destroy", "device", "class_destroy")
  \/ Release("class_destroy", "class", "cdev_del")
  \/ Release("cdev_del", "cdev", "unregister")
  \/ Release("unregister", "region", "out")

-----------------------------------------------------------------------------
(* The processes.                                                          *)
Open(p) ==
  /\ pc = "in" /\ p \notin files
  /\ files' = files \cup {p}
  /\ UNCHANGED <<pc, held, maps, loads>>

(* EINVAL, or the pages from PNM_PHYS_BASE on; remap_pfn_range may fail.   *)
pnm_mmap(p, pgoff, size) ==
  /\ p \in files /\ maps[p] = {}
  /\ \/ pgoff = 0 /\ size <= 1 /\ maps' = [maps EXCEPT ![p] = 0 .. size - 1]
     \/ UNCHANGED maps
  /\ UNCHANGED <<pc, held, files, loads>>

Close(p) ==
  /\ p \in files
  /\ files' = files \ {p}
  /\ UNCHANGED <<pc, held, maps, loads>>

Unmap(p) ==
  /\ maps[p] # {}
  /\ maps' = [maps EXCEPT ![p] = {}]
  /\ UNCHANGED <<pc, held, files, loads>>

ModuleNext ==
  \/ LoadModule \/ Register \/ Unwind \/ Rmmod \/ pnm_exit
  \/ \E p \in Processes :
       \/ Open(p) \/ Close(p) \/ Unmap(p)
       \/ \E pgoff \in 0 .. 1, size \in 1 .. MaxPages : pnm_mmap(p, pgoff, size)

ModuleSpec == ModuleInit /\ [][ModuleNext]_moduleVars

-----------------------------------------------------------------------------
(* The driver's state has its type; no process maps more than the          *)
(* device's page.                                                          *)
ModuleTypeOK ==
  /\ pc \in {"out", "alloc_chrdev_region", "cdev_add", "class_create",
             "device_create", "err_class", "err_cdev", "err_chrdev", "in",
             "device_destroy", "class_destroy", "cdev_del", "unregister"}
  /\ held \subseteq Resources
  /\ files \subseteq Processes
  /\ maps \in [Processes -> SUBSET {0}]
  /\ loads \in 0 .. MaxLoads

(* pnm_module.c:61-114: whichever registration failed, and after every     *)
(* unload, the module is gone with nothing left registered, and while it   *)
(* is loaded it has everything.                                            *)
NothingLeaked == /\ pc = "out" => held = {}
                 /\ pc = "in" => held = Resources

(* pnm_module.c:60-112: registrations are made and undone in an order in   *)
(* which /dev/pnm is visible only while all of the driver is there to      *)
(* answer, and the cdev never without the number it was added under, in    *)
(* loads that fail half-way and in unloads.                                *)
ReverseOrder == /\ "device" \in held => held = Resources
                /\ "cdev" \in held => "region" \in held
=============================================================================
