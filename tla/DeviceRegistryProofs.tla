------------------------- MODULE DeviceRegistryProofs -------------------------
(***************************************************************************)
(* What holds of the device list, the open handles and the claims for any  *)
(* number of scanners, handles, configurations and failing allocations.    *)
(***************************************************************************)
EXTENDS DeviceRegistry, FiniteSetTheorems, TLAPS

(* The lists and the array, as functions of any domain.                      *)
ListsType ==
  /\ initialised \in BOOLEAN /\ device_ptrs \in BOOLEAN /\ opening \in BOOLEAN
  /\ dangled \in BOOLEAN
  /\ ids \subseteq Units /\ bus \subseteq Units /\ claims \subseteq Units
  /\ DOMAIN device_list \subseteq Units
  /\ device_list \in [DOMAIN device_list -> BOOLEAN]
  /\ DOMAIN handle_list \subseteq Handles
  /\ handle_list \in [DOMAIN handle_list -> Pantum_Handle]
  /\ nomem \in 0..MaxNoMem

(* Nothing is left of the lists outside init and exit.                       *)
NothingLeft ==
  ~initialised => DOMAIN device_list = {} /\ DOMAIN handle_list = {} /\ ~device_ptrs

(* Until the list is rebuilt under an open handle, every handle points into  *)
(* it and an entry's busy flag stands for the one handle of its unit.        *)
OwnerOf(u) == {h \in DOMAIN handle_list : handle_list[h].unit = u}

BusyOwned ==
  ~dangled =>
    /\ \A h \in DOMAIN handle_list : handle_list[h].live
    /\ \A u \in DOMAIN device_list :
         /\ device_list[u] => \E h \in DOMAIN handle_list : OwnerOf(u) = {h}
         /\ ~device_list[u] => OwnerOf(u) = {}

(* While no allocation has failed, devices and handles come with the array   *)
(* of pointers that keeps their list from being rebuilt.                     *)
ListKept ==
  nomem = MaxNoMem =>
    /\ DOMAIN device_list # {} \/ DOMAIN handle_list # {} => device_ptrs
    /\ ~dangled

RegistryInv == ListsType /\ NothingLeft /\ ClaimsMatchHandles /\ BusyOwned /\ ListKept

-----------------------------------------------------------------------------
(* Parts of actions. *)

LEMMA EmptyList == DOMAIN Empty = {} /\ Empty \in [{} -> BOOLEAN]
                   /\ Empty \in [{} -> Pantum_Handle]
BY DEF Empty

(* A function without elements is the empty list. *)
LEMMA EmptyOnly ==
  ASSUME NEW S, NEW T, NEW f \in [S -> T], S = {}
  PROVE  f = Empty
BY DEF Empty

(* A list rebuilt under the open handles leaves each its unit and its claim. *)
LEMMA FreedHandles ==
  ASSUME ListsType, free_devices
  PROVE  /\ DOMAIN handle_list' = DOMAIN handle_list
         /\ handle_list' \in [DOMAIN handle_list' -> Pantum_Handle]
         /\ dangled' \in BOOLEAN
         /\ ~dangled' => ~dangled /\ DOMAIN handle_list = {}
         /\ \A h \in DOMAIN handle_list :
              /\ handle_list'[h].unit = handle_list[h].unit
              /\ handle_list'[h].attached = handle_list[h].attached
<1>1. \A h \in DOMAIN handle_list : handle_list[h] \in Pantum_Handle
  BY DEF ListsType
<1>2. /\ dangled' \in BOOLEAN
      /\ ~dangled' => ~dangled /\ DOMAIN handle_list = {}
  BY EmptyList DEF ListsType, free_devices
<1> QED BY <1>1, <1>2 DEF free_devices, Pantum_Handle

(* Handles that keep their units and claims keep what is claimed. *)
LEMMA SameClaims ==
  ASSUME ClaimsMatchHandles, claims' = claims,
         DOMAIN handle_list' = DOMAIN handle_list,
         \A h \in DOMAIN handle_list :
           /\ handle_list'[h].unit = handle_list[h].unit
           /\ handle_list'[h].attached = handle_list[h].attached
  PROVE  ClaimsMatchHandles'
<1>1. HeldBy(DOMAIN handle_list)' = HeldBy(DOMAIN handle_list)
  BY DEF HeldBy
<1> QED BY <1>1 DEF ClaimsMatchHandles

(* What leaves the lists and the claims alone, whatever memory it wastes. *)
LEMMA SameLists ==
  ASSUME RegistryInv, bus' \subseteq Units, opening' \in BOOLEAN,
         nomem' \in 0..MaxNoMem, nomem' = MaxNoMem => nomem = MaxNoMem,
         UNCHANGED <<initialised, ids, device_list, device_ptrs, handle_list, claims,
                     dangled>>
  PROVE  RegistryInv'
<1>1. ListsType /\ NothingLeft /\ ClaimsMatchHandles /\ BusyOwned /\ ListKept
  BY DEF RegistryInv
<1>2. ListsType'
  BY <1>1 DEF ListsType
<1>3. NothingLeft'
  BY <1>1 DEF NothingLeft
<1>4. ClaimsMatchHandles'
  BY <1>1, SameClaims
<1>5. BusyOwned'
  BY <1>1 DEF BusyOwned, OwnerOf
<1>6. ListKept'
  BY <1>1 DEF ListKept
<1> QED BY <1>2, <1>3, <1>4, <1>5, <1>6 DEF RegistryInv

(* A probe that does probe, from sane_get_devices or from sane_open. *)
LEMMA ProbeKeeps ==
  ASSUME RegistryInv, initialised, probe_devices,
         UNCHANGED <<registry, bus, claims>>, opening' \in BOOLEAN
  PROVE  RegistryInv'
<1>1. /\ ListsType /\ ClaimsMatchHandles /\ BusyOwned /\ ListKept
      /\ free_devices
  BY DEF RegistryInv, probe_devices, Probes, ProbeFails
<1>2. /\ DOMAIN handle_list' = DOMAIN handle_list
      /\ handle_list' \in [DOMAIN handle_list' -> Pantum_Handle]
      /\ dangled' \in BOOLEAN
      /\ ~dangled' => ~dangled /\ DOMAIN handle_list = {}
      /\ \A h \in DOMAIN handle_list :
           /\ handle_list'[h].unit = handle_list[h].unit
           /\ handle_list'[h].attached = handle_list[h].attached
  BY <1>1, FreedHandles
<1>3. /\ DOMAIN device_list' \subseteq Units
      /\ device_list' \in [DOMAIN device_list' -> BOOLEAN]
      /\ \A u \in DOMAIN device_list' : ~device_list'[u]
      /\ device_ptrs' \in BOOLEAN
      /\ nomem' \in 0..MaxNoMem
      /\ nomem' = MaxNoMem =>
           nomem = MaxNoMem /\ (device_ptrs' \/ DOMAIN device_list' = {})
  <2>1. CASE Probes
    <3> PICK found \in SUBSET (ids \cap bus) : device_list' = [u \in found |-> FALSE]
      BY <2>1 DEF Probes
    <3>1. \/ device_ptrs' = TRUE /\ nomem' = nomem
          \/ device_ptrs' = FALSE /\ nomem > 0 /\ nomem' = nomem - 1
      BY <2>1 DEF Probes, NoMem
    <3>2. nomem \in 0..MaxNoMem /\ MaxNoMem \in Nat
      BY <1>1, RegistryAssumption DEF ListsType
    <3>3. /\ nomem' \in 0..MaxNoMem /\ device_ptrs' \in BOOLEAN
          /\ nomem' = MaxNoMem => nomem = MaxNoMem /\ device_ptrs'
      <4>1. CASE nomem' = nomem /\ device_ptrs' = TRUE
        BY <3>2, <4>1
      <4>2. CASE nomem > 0 /\ nomem' = nomem - 1 /\ device_ptrs' = FALSE
        <5>1. nomem' \in 0..MaxNoMem /\ nomem' # MaxNoMem
          BY <3>2, <4>2
        <5> QED BY <4>2, <5>1
      <4> QED BY <3>1, <4>1, <4>2
    <3>4. found \subseteq Units
      BY <1>1 DEF ListsType
    <3>5. /\ DOMAIN device_list' = found
          /\ device_list' \in [found -> BOOLEAN]
          /\ \A u \in found : ~device_list'[u]
      OBVIOUS
    <3> QED BY <3>3, <3>4, <3>5
  <2>2. CASE ProbeFails
    BY <1>1, <2>2, EmptyList DEF ProbeFails, ListsType
  <2> QED BY <2>1, <2>2 DEF probe_devices
<1>4. ListsType'
  BY <1>1, <1>2, <1>3 DEF ListsType, registry
<1>5. NothingLeft'
  BY DEF NothingLeft, registry
<1>6. ClaimsMatchHandles'
  BY <1>1, <1>2, SameClaims
<1>7. BusyOwned'
  BY <1>2, <1>3 DEF BusyOwned, OwnerOf
<1>8. ListKept'
  <2> SUFFICES ASSUME nomem' = MaxNoMem
               PROVE  /\ DOMAIN device_list' # {} \/ DOMAIN handle_list' # {} => device_ptrs'
                      /\ ~dangled'
    BY DEF ListKept
  (* The list is rebuilt only while nobody has a device open. *)
  <2>1. DOMAIN handle_list = {}
    <3>1. handle_list = Empty \/ ~device_ptrs
      BY DEF probe_devices, keeps_list
    <3> QED BY <1>1, <1>3, <3>1, EmptyList DEF ListKept
  <2>2. ~dangled'
    <3>1. ~dangled /\ handle_list = Empty
      BY <1>1, <1>3, <2>1, EmptyOnly DEF ListKept, ListsType
    <3> QED BY <1>1, <3>1 DEF free_devices
  <2> QED BY <1>2, <1>3, <2>1, <2>2
<1> QED BY <1>4, <1>5, <1>6, <1>7, <1>8 DEF RegistryInv

-----------------------------------------------------------------------------
(* The actions that change handles. *)

(* sane_open: the handle it opens takes the claim and the entry. *)
LEMMA OpenKeeps ==
  ASSUME RegistryInv, NEW h \in Handles, NEW u \in Units, sane_open(h, u)
  PROVE  RegistryInv'
<1>1. ListsType /\ NothingLeft /\ ClaimsMatchHandles /\ BusyOwned /\ ListKept
  BY DEF RegistryInv
<1>2. /\ initialised /\ h \notin DOMAIN handle_list
      /\ u \in DOMAIN device_list /\ ~device_list[u] /\ u \notin claims
      /\ opening' = FALSE /\ UNCHANGED <<initialised, ids, bus, device_ptrs, dangled>>
  BY DEF sane_open, registry
<1>3. MaxNoMem \in Nat /\ nomem \in 0..MaxNoMem
  BY <1>1, RegistryAssumption DEF ListsType
<1>4. CASE open_no_memory(u) /\ UNCHANGED <<handle_list, device_list>>
  <2>1. claims' = claims /\ nomem > 0 /\ nomem' = nomem - 1
    BY <1>4 DEF open_no_memory, NoMem
  <2>2. nomem' \in 0..MaxNoMem /\ nomem' # MaxNoMem
    BY <1>3, <2>1
  <2>3. bus' \subseteq Units
    BY <1>1, <1>2 DEF ListsType
  <2> QED BY <1>2, <1>4, <2>1, <2>2, <2>3, SameLists
<1>5. CASE open_takes(h, u) /\ claims' = claims \cup {u} /\ UNCHANGED nomem
  <2> DEFINE new == [unit |-> u, live |-> TRUE, attached |-> TRUE]
  <2>1. new \in Pantum_Handle
    BY DEF Pantum_Handle
  <2>2. new.unit = u /\ new.live /\ new.attached
    OBVIOUS
  <2>3. /\ handle_list' = [x \in DOMAIN handle_list \cup {h} |->
                             IF x = h THEN new ELSE handle_list[x]]
        /\ device_list' = [device_list EXCEPT ![u] = TRUE]
    BY <1>5 DEF open_takes
  <2> HIDE DEF new
  <2>4. /\ DOMAIN handle_list' = DOMAIN handle_list \cup {h}
        /\ handle_list'[h] = new
        /\ \A x \in DOMAIN handle_list : handle_list'[x] = handle_list[x]
    BY <1>2, <2>3
  <2>5. /\ DOMAIN device_list' = DOMAIN device_list
        /\ device_list' \in [DOMAIN device_list' -> BOOLEAN]
        /\ device_list'[u]
        /\ \A w \in DOMAIN device_list : w # u => device_list'[w] = device_list[w]
    BY <1>1, <1>2, <2>3 DEF ListsType
  <2>6. handle_list' \in [DOMAIN handle_list' -> Pantum_Handle]
    BY <1>1, <2>1, <2>3 DEF ListsType
  <2>7. ListsType'
    BY <1>1, <1>2, <1>5, <2>4, <2>5, <2>6 DEF ListsType
  <2>8. NothingLeft'
    BY <1>2 DEF NothingLeft
  <2>9. ClaimsMatchHandles'
    <3>1. HeldBy(DOMAIN handle_list)' = HeldBy(DOMAIN handle_list) \cup {u}
      BY <1>2, <2>2, <2>4 DEF HeldBy
    <3>2. \A g \in DOMAIN handle_list : handle_list[g].attached => handle_list[g].unit # u
      BY <1>1, <1>2 DEF ClaimsMatchHandles, HeldBy
    <3> QED BY <1>1, <1>5, <2>2, <2>4, <3>1, <3>2 DEF ClaimsMatchHandles
  <2>10. BusyOwned'
    <3> SUFFICES ASSUME ~dangled PROVE BusyOwned'
      BY <1>2 DEF BusyOwned
    <3>1. OwnerOf(u)' = {h}
      <4>1. OwnerOf(u) = {}
        BY <1>1, <1>2 DEF BusyOwned
      <4> QED BY <2>2, <2>4, <4>1 DEF OwnerOf
    <3>5. \A x \in DOMAIN handle_list' : handle_list'[x].live
      BY <1>1, <2>2, <2>4 DEF BusyOwned
    <3>2. \A w \in DOMAIN device_list : w # u => OwnerOf(w)' = OwnerOf(w)
      BY <1>2, <2>2, <2>4 DEF OwnerOf
    <3> SUFFICES ASSUME NEW w \in DOMAIN device_list'
                 PROVE  /\ device_list'[w] => \E x \in DOMAIN handle_list' : OwnerOf(w)' = {x}
                        /\ ~device_list'[w] => OwnerOf(w)' = {}
      BY <3>5 DEF BusyOwned
    <3>3. CASE w = u
      BY <2>4, <2>5, <3>1, <3>3
    <3>4. CASE w # u
      BY <1>1, <2>4, <2>5, <3>2, <3>4 DEF BusyOwned
    <3> QED BY <3>3, <3>4
  <2>11. ListKept'
    BY <1>1, <1>2, <1>5, <2>2, <2>4, <2>5 DEF ListKept
  <2> QED BY <2>7, <2>8, <2>9, <2>10, <2>11 DEF RegistryInv
<1> QED BY <1>4, <1>5 DEF sane_open

(* sane_close: the claim and the entry of its handle become free. *)
LEMMA CloseKeeps ==
  ASSUME RegistryInv, NEW h \in Handles, sane_close(h)
  PROVE  RegistryInv'
<1>1. ListsType /\ NothingLeft /\ ClaimsMatchHandles /\ BusyOwned /\ ListKept
  BY DEF RegistryInv
<1>2. /\ h \in DOMAIN handle_list
      /\ handle_list' = [x \in DOMAIN handle_list \ {h} |-> handle_list[x]]
      /\ claims' = claims \ HeldBy({h})
      /\ free_handle(h)
      /\ UNCHANGED <<initialised, ids, bus, device_ptrs, opening, nomem, dangled>>
  BY DEF sane_close, registry
<1>3. /\ DOMAIN handle_list' = DOMAIN handle_list \ {h}
      /\ \A x \in DOMAIN handle_list' : handle_list'[x] = handle_list[x]
  BY <1>2
<1> DEFINE v == handle_list[h].unit
<1>4. /\ DOMAIN device_list' = DOMAIN device_list
      /\ device_list' \in [DOMAIN device_list' -> BOOLEAN]
      /\ handle_list[h].live => \A w \in DOMAIN device_list :
           device_list'[w] = IF w = v THEN FALSE ELSE device_list[w]
  <2>1. PICK ws \in Written(h) :
          device_list' = [w \in DOMAIN device_list |-> device_list[w] /\ w \notin ws]
    BY <1>2 DEF free_handle
  <2>2. handle_list[h].live => ws = {v}
    BY DEF Written
  <2>3. \A w \in DOMAIN device_list : device_list[w] \in BOOLEAN
    BY <1>1 DEF ListsType
  <2> QED BY <2>1, <2>2, <2>3
<1>5. handle_list' \in [DOMAIN handle_list' -> Pantum_Handle]
  BY <1>1, <1>2 DEF ListsType
<1>6. ListsType'
  BY <1>1, <1>2, <1>3, <1>4, <1>5 DEF ListsType
<1>7. NothingLeft'
  BY <1>1, <1>2, <1>3, <1>4 DEF NothingLeft
<1>8. ClaimsMatchHandles'
  <2>1. HeldBy({h}) = IF handle_list[h].attached THEN {v} ELSE {}
    BY DEF HeldBy
  <2>2. HeldBy(DOMAIN handle_list)' = {handle_list[x].unit :
          x \in {g \in DOMAIN handle_list \ {h} : handle_list[g].attached}}
    BY <1>3 DEF HeldBy
  <2>3. \A g \in DOMAIN handle_list \ {h} :
          handle_list[h].attached /\ handle_list[g].attached => handle_list[g].unit # v
    BY <1>1, <1>2 DEF ClaimsMatchHandles
  <2>4. HeldBy(DOMAIN handle_list)' = HeldBy(DOMAIN handle_list) \ HeldBy({h})
    BY <2>1, <2>2, <2>3, <1>2 DEF HeldBy
  <2> QED BY <1>1, <1>2, <1>3, <2>4 DEF ClaimsMatchHandles
<1>9. BusyOwned'
  <2> SUFFICES ASSUME ~dangled PROVE BusyOwned'
    BY <1>2 DEF BusyOwned
  <2>0. /\ handle_list[h].live
        /\ \A x \in DOMAIN handle_list' : handle_list'[x].live
    BY <1>1, <1>2, <1>3 DEF BusyOwned
  <2> SUFFICES ASSUME NEW w \in DOMAIN device_list'
               PROVE  /\ device_list'[w] => \E x \in DOMAIN handle_list' : OwnerOf(w)' = {x}
                      /\ ~device_list'[w] => OwnerOf(w)' = {}
    BY <2>0 DEF BusyOwned
  <2>1. OwnerOf(w)' = OwnerOf(w) \ {h}
    BY <1>3 DEF OwnerOf
  <2>2. CASE w = v
    <3>1. h \in OwnerOf(w)
      BY <1>2, <2>2 DEF OwnerOf
    <3>2. OwnerOf(w) = {h}
      BY <1>1, <1>4, <3>1 DEF BusyOwned
    <3> QED BY <1>4, <2>0, <2>1, <2>2, <3>2
  <2>3. CASE w # v
    <3>1. h \notin OwnerOf(w)
      BY <2>3 DEF OwnerOf
    <3>2. OwnerOf(w)' = OwnerOf(w)
      BY <2>1, <3>1
    <3>3. OwnerOf(w) \subseteq DOMAIN handle_list \ {h}
      BY <3>1 DEF OwnerOf
    <3> QED BY <1>1, <1>3, <1>4, <2>0, <2>3, <3>2, <3>3 DEF BusyOwned
  <2> QED BY <2>2, <2>3
<1>10. ListKept'
  BY <1>1, <1>2, <1>3, <1>4 DEF ListKept
<1> QED BY <1>6, <1>7, <1>8, <1>9, <1>10 DEF RegistryInv

(* A cable pulled takes the claim, the handle stays. *)
LEMMA UnplugKeeps ==
  ASSUME RegistryInv, NEW u \in Units, Unplug(u)
  PROVE  RegistryInv'
<1>1. ListsType /\ NothingLeft /\ ClaimsMatchHandles /\ BusyOwned /\ ListKept
  BY DEF RegistryInv
<1>2. /\ bus' = bus \ {u} /\ claims' = claims \ {u}
      /\ handle_list' = [h \in DOMAIN handle_list |->
                           [handle_list[h] EXCEPT !.attached = @ /\ handle_list[h].unit # u]]
      /\ UNCHANGED <<initialised, ids, device_list, device_ptrs, opening, nomem, dangled>>
  BY DEF Unplug, registry
<1>3. \A h \in DOMAIN handle_list : handle_list[h] \in Pantum_Handle
  BY <1>1 DEF ListsType
<1>4. /\ DOMAIN handle_list' = DOMAIN handle_list
      /\ \A h \in DOMAIN handle_list :
           /\ handle_list'[h] \in Pantum_Handle
           /\ handle_list'[h].unit = handle_list[h].unit
           /\ handle_list'[h].live = handle_list[h].live
           /\ handle_list'[h].attached <=> handle_list[h].attached /\ handle_list[h].unit # u
  BY <1>2, <1>3 DEF Pantum_Handle
<1>5. handle_list' \in [DOMAIN handle_list' -> Pantum_Handle]
  BY <1>2, <1>4
<1>6. ListsType'
  BY <1>1, <1>2, <1>4, <1>5 DEF ListsType
<1>7. NothingLeft'
  BY <1>1, <1>2, <1>4 DEF NothingLeft
<1>8. ClaimsMatchHandles'
  <2>1. HeldBy(DOMAIN handle_list)' = HeldBy(DOMAIN handle_list) \ {u}
    <3>1. ASSUME NEW w PROVE w \in HeldBy(DOMAIN handle_list)'
                             <=> w \in HeldBy(DOMAIN handle_list) /\ w # u
      BY <1>4 DEF HeldBy
    <3> QED BY <3>1
  <2>2. claims' = HeldBy(DOMAIN handle_list)'
    BY <1>1, <1>2, <2>1 DEF ClaimsMatchHandles
  <2>3. ASSUME NEW g \in DOMAIN handle_list, NEW h \in DOMAIN handle_list,
               handle_list'[g].attached, handle_list'[h].attached,
               handle_list'[g].unit = handle_list'[h].unit
        PROVE  g = h
    BY <1>1, <1>4, <2>3 DEF ClaimsMatchHandles
  <2> QED BY <1>4, <2>2, <2>3 DEF ClaimsMatchHandles
<1>9. BusyOwned'
  <2>1. \A w : OwnerOf(w)' = OwnerOf(w)
    BY <1>4 DEF OwnerOf
  <2> QED BY <1>1, <1>2, <1>4, <2>1 DEF BusyOwned
<1>10. ListKept'
  BY <1>1, <1>2, <1>4 DEF ListKept
<1> QED BY <1>6, <1>7, <1>8, <1>9, <1>10 DEF RegistryInv

(* sane_init and sane_exit leave empty lists and no claim. *)
LEMMA ForgetKeeps ==
  ASSUME RegistryInv, Forget, claims' = {}, ids' \subseteq Units,
         initialised' \in BOOLEAN, UNCHANGED <<bus, opening, nomem>>
  PROVE  RegistryInv'
<1>1. ListsType
  BY DEF RegistryInv
<1>2. DOMAIN device_list' = {} /\ DOMAIN handle_list' = {} /\ device_ptrs' = FALSE
      /\ dangled' = FALSE
  BY EmptyList DEF Forget
<1>3. /\ device_list' \in [DOMAIN device_list' -> BOOLEAN]
      /\ handle_list' \in [DOMAIN handle_list' -> Pantum_Handle]
  BY <1>2, EmptyList DEF Forget
<1>4. ListsType'
  BY <1>1, <1>2, <1>3 DEF ListsType
<1>5. HeldBy(DOMAIN handle_list)' = {}
  BY <1>2 DEF HeldBy
<1> QED BY <1>2, <1>4, <1>5
     DEF RegistryInv, NothingLeft, ClaimsMatchHandles, BusyOwned, ListKept

-----------------------------------------------------------------------------
(* The invariant holds of every history of the registry. *)
LEMMA RegistryInductive == Spec => []RegistryInv
<1>1. Init => RegistryInv
  <2> SUFFICES ASSUME Init PROVE RegistryInv
    OBVIOUS
  <2>1. /\ DOMAIN device_list = {} /\ DOMAIN handle_list = {}
        /\ device_list \in [DOMAIN device_list -> BOOLEAN]
        /\ handle_list \in [DOMAIN handle_list -> Pantum_Handle]
    BY EmptyList DEF Init
  <2>2. ListsType
    <3>1. nomem \in 0..MaxNoMem
      BY RegistryAssumption DEF Init
    <3>2. bus \subseteq Units
      BY DEF Init
    <3> QED BY <2>1, <3>1, <3>2 DEF Init, ListsType
  <2>3. HeldBy(DOMAIN handle_list) = {}
    BY <2>1 DEF HeldBy
  <2> QED BY <2>1, <2>2, <2>3
       DEF Init, RegistryInv, NothingLeft, ClaimsMatchHandles, BusyOwned, ListKept
<1>2. RegistryInv /\ [Next]_vars => RegistryInv'
  <2> SUFFICES ASSUME RegistryInv, [Next]_vars PROVE RegistryInv'
    OBVIOUS
  <2>0. ListsType /\ NothingLeft /\ ClaimsMatchHandles /\ BusyOwned /\ ListKept
    BY DEF RegistryInv
  <2>1. CASE sane_init
    <3>1. claims = {}
      BY <2>0, <2>1 DEF sane_init, NothingLeft, ClaimsMatchHandles, HeldBy
    <3>2. ids' \subseteq Units
      <4>1. \A f \in Files : UNION f \subseteq Units
        BY RegistryAssumption DEF Files
      <4>2. CASE read_config
        <5> PICK env \in Files, dir \in Files :
              ids' = CASE env # {} -> UNION env
                       [] env = {} /\ dir # {} -> UNION dir
                       [] OTHER -> Builtin
          BY <4>2 DEF read_config
        <5>1. ids' \in {UNION env, UNION dir, Builtin}
          OBVIOUS
        <5> QED BY <4>1, <5>1, RegistryAssumption
      <4>3. CASE UNCHANGED registry
        BY <2>0, <4>3 DEF registry, ListsType
      <4> QED BY <2>1, <4>2, <4>3 DEF sane_init
    <3>3. initialised' \in BOOLEAN
      BY <2>0, <2>1 DEF sane_init, registry, ListsType
    <3> QED BY <2>1, <3>1, <3>2, <3>3, ForgetKeeps DEF sane_init
  <2>2. CASE sane_exit
    <3>1. claims' = {}
      BY <2>0, <2>2 DEF sane_exit, ClaimsMatchHandles
    <3> QED BY <2>2, <3>1, ForgetKeeps DEF sane_exit
  <2>3. CASE sane_get_devices
    BY <2>0, <2>3, ProbeKeeps DEF sane_get_devices, ListsType
  <2>4. CASE open_probes
    <3>1. device_ptrs' \in BOOLEAN
      BY <2>4 DEF open_probes, probe_devices, Probes, ProbeFails
    <3> QED BY <2>4, <3>1, ProbeKeeps DEF open_probes
  <2>5. CASE open_refused
    BY <2>0, <2>5, SameLists DEF open_refused, registry, ListsType
  <2>6. ASSUME NEW h \in Handles, sane_close(h) PROVE RegistryInv'
    BY <2>6, CloseKeeps
  <2>7. ASSUME NEW h \in Handles, NEW u \in Units, sane_open(h, u) PROVE RegistryInv'
    BY <2>7, OpenKeeps
  <2>8. ASSUME NEW u \in Units, Plug(u) PROVE RegistryInv'
    BY <2>0, <2>8, SameLists DEF Plug, registry, ListsType
  <2>9. ASSUME NEW u \in Units, Unplug(u) PROVE RegistryInv'
    BY <2>9, UnplugKeeps
  <2>10. CASE UNCHANGED vars
    BY <2>0, <2>10, SameLists DEF vars, registry, ListsType
  <2> QED BY <2>1, <2>2, <2>3, <2>4, <2>5, <2>6, <2>7, <2>8, <2>9, <2>10 DEF Next
<1> QED BY <1>1, <1>2, PTL DEF Spec

(* The registry has its type, and sane_exit leaves nothing behind, for any   *)
(* set of scanners and handles.                                              *)
THEOREM RegistryTypeCorrect == Spec => []RegistryTypeOK
<1>1. RegistryInv => RegistryTypeOK
  <2> SUFFICES ASSUME RegistryInv PROVE RegistryTypeOK
    OBVIOUS
  <2>1. ListsType /\ NothingLeft
    BY DEF RegistryInv
  <2>2. ~initialised => device_list = Empty /\ handle_list = Empty /\ ~device_ptrs
    BY <2>1, EmptyOnly DEF ListsType, NothingLeft
  <2>3. nomem \in Nat
    BY <2>1, RegistryAssumption DEF ListsType
  <2> QED BY <2>1, <2>2, <2>3 DEF ListsType, RegistryTypeOK
<1> QED BY <1>1, RegistryInductive, PTL

(* No open, close, exit, replug or failed allocation leaves an interface     *)
(* claimed that no handle will release, or claimed for two handles.          *)
THEOREM ClaimsMatchHandlesHolds == Spec => []ClaimsMatchHandles
<1>1. RegistryInv => ClaimsMatchHandles
  BY DEF RegistryInv
<1> QED BY <1>1, RegistryInductive, PTL

(* Until a failed allocation lets the list be rebuilt under an open handle,  *)
(* a listed unit is busy exactly while one handle has it open, for any       *)
(* number of scanners and handles and in any order of calls and cables.      *)
THEOREM BusyMatchesHandlesHolds == Spec => []BusyMatchesHandles
<1>1. RegistryInv => BusyMatchesHandles
  <2> SUFFICES ASSUME RegistryInv, ~dangled, NEW u \in DOMAIN device_list
               PROVE  Cardinality(OwnerOf(u)) = IF device_list[u] THEN 1 ELSE 0
    BY DEF BusyMatchesHandles, OwnerOf
  <2>1. BusyOwned
    BY DEF RegistryInv
  <2>2. CASE device_list[u]
    BY <2>1, <2>2, FS_Singleton DEF BusyOwned
  <2>3. CASE ~device_list[u]
    BY <2>1, <2>3, FS_EmptySet DEF BusyOwned
  <2> QED BY <2>2, <2>3
<1> QED BY <1>1, RegistryInductive, PTL

(* While no allocation has failed, the list that open handles point into is  *)
(* never rebuilt.                                                            *)
THEOREM NoDanglingHolds == Spec => []NoDangling
<1>1. RegistryInv => NoDangling
  BY DEF RegistryInv, ListKept, NoDangling
<1> QED BY <1>1, RegistryInductive, PTL
===============================================================================
