---------------------------- MODULE DeviceRegistry ----------------------------
(***************************************************************************)
(* The global state of src/src/pantum.c: the ids of pantum.conf, the list  *)
(* of probed devices with the array handed to the frontend, and the list   *)
(* of open handles.  A handle keeps a pointer into the device list; the    *)
(* kernel keeps one claim per interface.  What a handle does with its      *)
(* scanner is ScanSession's business.                                      *)
(***************************************************************************)
EXTENDS Naturals, FiniteSets

CONSTANTS Units,      \* bus addresses a usb device may answer at
          Builtin,    \* those the built-in id matches
          Listed,     \* sets of units the ids of a configuration may match
          Handles,    \* addresses of Pantum_Handle structures
          MaxNoMem    \* failing allocations of the pointer array or a handle

ASSUME RegistryAssumption ==
  /\ Builtin \subseteq Units
  /\ Listed \subseteq SUBSET Units
  /\ MaxNoMem \in Nat

VARIABLES initialised,
          ids,          \* the units id_list matches
          bus,          \* the units plugged in
          device_list,  \* unit |-> busy, for every probed device
          device_ptrs,  \* is there an array of pointers
          opening,      \* sane_open has probed and goes on with the list
          handle_list,  \* handle |-> unit, live dev pointer, claim still held
          claims,       \* units whose scanner interface is claimed (kernel)
          nomem,        \* allocation failures still to come
          dangled       \* history: the list was rebuilt under an open handle

registry == <<initialised, ids>>
vars == <<registry, bus, device_list, device_ptrs, opening, handle_list,
          claims, nomem, dangled>>

Empty == [x \in {} |-> TRUE]
Pantum_Handle == [unit : Units, live : BOOLEAN, attached : BOOLEAN]

-----------------------------------------------------------------------------
NoMem == nomem > 0 /\ nomem' = nomem - 1

(* free_devices leaves the dev pointer of every open handle dangling. *)
free_devices ==
  /\ handle_list' = [h \in DOMAIN handle_list |->
                       [handle_list[h] EXCEPT !.live = FALSE]]
  /\ dangled' = (dangled \/ handle_list # Empty)

(* Mutant: the list is rebuilt whenever the frontend asks. *)
keeps_list_never == FALSE

(* The early return of probe_devices. *)
keeps_list == handle_list # Empty /\ device_ptrs

(* A file that may be missing: at most one set of ids. *)
Files == {{}} \cup {{f} : f \in Listed}

(* SANE_CONFIG_DIR first (Listed holds the unions of its directories), then  *)
(* the default directory, then the built-in id.                              *)
read_config ==
  \E env, dir \in Files :
    ids' = CASE env # {} -> UNION env
             [] env = {} /\ dir # {} -> UNION dir
             [] OTHER -> Builtin

(* probe_devices when it does probe.  An unreadable descriptor skips a       *)
(* device, no memory for an entry ends the search early.                     *)
Probes ==
  /\ \E found \in SUBSET (ids \cap bus) :
       device_list' = [u \in found |-> FALSE]
  /\ free_devices
  /\ \/ device_ptrs' = TRUE /\ UNCHANGED nomem
     \/ device_ptrs' = FALSE /\ NoMem

(* libusb_get_device_list fails after the old list is gone. *)
ProbeFails ==
  /\ device_list' = Empty
  /\ free_devices
  /\ device_ptrs' = FALSE
  /\ UNCHANGED nomem

probe_devices == ~keeps_list /\ (Probes \/ ProbeFails)

-----------------------------------------------------------------------------
Forget ==
  /\ device_list' = Empty
  /\ device_ptrs' = FALSE
  /\ handle_list' = Empty
  /\ dangled' = FALSE

(* libusb_init may fail. *)
sane_init ==
  /\ ~opening /\ ~initialised
  /\ Forget
  /\ (read_config /\ initialised' = TRUE) \/ UNCHANGED registry
  /\ UNCHANGED <<bus, opening, claims, nomem>>

HeldBy(hs) == {handle_list[h].unit : h \in {g \in hs : handle_list[g].attached}}

(* Mutant: exit leaves the device list behind. *)
sane_exit_keeps ==
  /\ ~opening /\ initialised
  /\ handle_list' = Empty
  /\ claims' = claims \ HeldBy(DOMAIN handle_list)
  /\ initialised' = FALSE /\ ids' = {}
  /\ UNCHANGED <<bus, opening, nomem, device_list, device_ptrs, dangled>>

(* Every handle is torn down and released before the lists go. *)
sane_exit ==
  /\ ~opening /\ initialised
  /\ Forget
  /\ claims' = claims \ HeldBy(DOMAIN handle_list)
  /\ initialised' = FALSE /\ ids' = {}
  /\ UNCHANGED <<bus, opening, nomem>>

sane_get_devices ==
  /\ ~opening /\ initialised
  /\ probe_devices
  /\ UNCHANGED <<registry, bus, opening, claims>>

(* sane_open probes when it has no device yet and returns if that fails. *)
open_probes ==
  /\ ~opening /\ initialised
  /\ device_list = Empty
  /\ probe_devices
  /\ opening' = device_ptrs'
  /\ UNCHANGED <<registry, bus, claims>>

(* Mutant: no memory for the handle leaves the interface claimed. *)
open_no_memory_leaks(u) == NoMem /\ claims' = claims \cup {u}

(* No memory for the handle: the interface is released again. *)
open_no_memory(u) == NoMem /\ UNCHANGED claims

open_takes(h, u) ==
  /\ handle_list' = [x \in DOMAIN handle_list \cup {h} |->
                       IF x = h THEN [unit |-> u, live |-> TRUE, attached |-> TRUE]
                       ELSE handle_list[x]]
  /\ device_list' = [device_list EXCEPT ![u] = TRUE]

(* A device that is listed, idle, still there and not claimed. *)
sane_open(h, u) ==
  /\ initialised
  /\ h \notin DOMAIN handle_list
  /\ u \in DOMAIN device_list /\ ~device_list[u]
  /\ u \in bus \ claims
  /\ \/ open_takes(h, u) /\ claims' = claims \cup {u} /\ UNCHANGED nomem
     \/ open_no_memory(u) /\ UNCHANGED <<handle_list, device_list>>
  /\ opening' = FALSE
  /\ UNCHANGED <<registry, bus, device_ptrs, dangled>>

(* No such device, device busy, gone, or not to be opened or claimed. *)
open_refused ==
  /\ opening
  /\ opening' = FALSE
  /\ UNCHANGED <<registry, bus, device_list, device_ptrs, handle_list,
                 claims, nomem, dangled>>

(* Mutant: the device stays busy after the close. *)
free_handle_busy(h) == UNCHANGED device_list

(* The write through h->dev.  The node under a dangling one was freed: it    *)
(* may be no entry any more, or the entry of any unit of the rebuilt list.   *)
Written(h) ==
  IF handle_list[h].live THEN {{handle_list[h].unit}}
  ELSE {{}} \cup {{u} : u \in DOMAIN device_list}

free_handle(h) ==
  \E w \in Written(h) :
    device_list' = [u \in DOMAIN device_list |-> device_list[u] /\ u \notin w]

sane_close(h) ==
  /\ ~opening
  /\ h \in DOMAIN handle_list
  /\ handle_list' = [x \in DOMAIN handle_list \ {h} |-> handle_list[x]]
  /\ free_handle(h)
  /\ claims' = claims \ HeldBy({h})
  /\ UNCHANGED <<registry, bus, device_ptrs, opening, nomem, dangled>>

(* Cables: an unplugged unit loses its claim but not its handle. *)
Plug(u) ==
  /\ u \notin bus
  /\ bus' = bus \cup {u}
  /\ UNCHANGED <<registry, device_list, device_ptrs, opening, handle_list,
                 claims, nomem, dangled>>

Unplug(u) ==
  /\ u \in bus
  /\ bus' = bus \ {u}
  /\ claims' = claims \ {u}
  /\ handle_list' = [h \in DOMAIN handle_list |->
                       [handle_list[h] EXCEPT !.attached = @ /\ handle_list[h].unit # u]]
  /\ UNCHANGED <<registry, device_list, device_ptrs, opening, nomem, dangled>>

-----------------------------------------------------------------------------
Init ==
  /\ initialised = FALSE /\ ids = {}
  /\ bus \in SUBSET Units
  /\ device_list = Empty /\ device_ptrs = FALSE /\ opening = FALSE
  /\ handle_list = Empty
  /\ claims = {}
  /\ nomem = MaxNoMem
  /\ dangled = FALSE

Next ==
  \/ sane_init \/ sane_exit \/ sane_get_devices \/ open_probes \/ open_refused
  \/ \E h \in Handles : sane_close(h) \/ \E u \in Units : sane_open(h, u)
  \/ \E u \in Units : Plug(u) \/ Unplug(u)

Spec == Init /\ [][Next]_vars

-----------------------------------------------------------------------------
(* The registry's variables have their types, and nothing of them outlives   *)
(* sane_exit.                                                                *)
RegistryTypeOK ==
  /\ {initialised, device_ptrs, opening, dangled} \subseteq BOOLEAN
  /\ ids \subseteq Units /\ bus \subseteq Units /\ claims \subseteq Units
  /\ DOMAIN device_list \subseteq Units
  /\ device_list \in [DOMAIN device_list -> BOOLEAN]
  /\ DOMAIN handle_list \subseteq Handles
  /\ handle_list \in [DOMAIN handle_list -> Pantum_Handle]
  /\ nomem \in Nat
  /\ initialised \/ (<<device_list, handle_list>> = <<Empty, Empty>> /\ ~device_ptrs)

(* An interface is claimed exactly while one open handle holds its claim:    *)
(* no path of sane_open, sane_close, sane_exit or a second sane_init leaves  *)
(* a scanner claimed that nothing will release, or takes it away from the    *)
(* handle that has it.                                                       *)
ClaimsMatchHandles ==
  /\ claims = HeldBy(DOMAIN handle_list)
  /\ \A g, h \in DOMAIN handle_list :
       /\ handle_list[g].attached /\ handle_list[h].attached
       /\ handle_list[g].unit = handle_list[h].unit
       => g = h

(* A listed device is busy exactly while one open handle holds it, in any    *)
(* order of probes, opens, closes and cables: sane_open's busy test then     *)
(* never refuses a free scanner nor hands one out twice.  That ends when the *)
(* list is rebuilt under an open handle, which takes a failed allocation     *)
(* (NoDangling): the rebuilt entry of a held scanner is not busy, and the    *)
(* close of the stale handle may clear the flag of another one's.            *)
BusyMatchesHandles ==
  ~dangled =>
    \A u \in DOMAIN device_list :
      Cardinality({h \in DOMAIN handle_list : handle_list[h].unit = u})
        = IF device_list[u] THEN 1 ELSE 0

(* probe_devices promises the open handles that the list they point into is  *)
(* never rebuilt under them.  Until an allocation fails it keeps that        *)
(* promise, whatever is opened, closed, unplugged or asked for; after a list *)
(* without its pointer array it does not.                                    *)
NoDangling ==
  nomem = MaxNoMem => ~dangled
===============================================================================
