-------------------------------- MODULE Pci --------------------------------
(***************************************************************************)
(* src/drivers/pci.c as e1000_init and virtio_blk_init use it at boot: the *)
(* search for a device by its ids, enabling its bus mastering and decoding *)
(* its BARs.  The configuration space is four-byte registers; a function   *)
(* that is not there reads as all ones.  A device without the              *)
(* multi-function bit may answer at every function number.  The status     *)
(* half of the command register is cleared where ones are written.         *)
(***************************************************************************)
EXTENDS Integers, Sequences

CONSTANTS
  BUSES, SLOTS, FUNCS,   \* 256, 32 and 8 in the source
  Machines,              \* what may be plugged in: devices by place, see Space
  Ids                    \* vendor and device ids searched for

VARIABLES
  space,     \* by place <<bus, slot, func>>, by offset: four bytes
  want,      \* vendor, device
  at,        \* <<bus, slot>> the search has come to
  dev,       \* pci_device_t, or NONE
  phase
vars == <<space, want, at, dev, phase>>

NONE == [place |-> <<>>]
OFFSETS == {0, 4, 12} \cup {16 + 4 * i : i \in 0 .. 5}
ONES == [o \in OFFSETS |-> <<255, 255, 255, 255>>]
Places == (0 .. BUSES - 1) \X (0 .. SLOTS - 1) \X (0 .. FUNCS - 1)

-----------------------------------------------------------------------------
\* The ports: an address with its two low bits cleared, then the data.
Word(offset) == offset - (offset % 4)
pci_read32(p, offset) == space[p][Word(offset)]
pci_read16(p, offset) ==
  LET w == pci_read32(p, offset)  k == 2 * ((offset % 4) \div 2)
  IN  w[k + 1] + 256 * w[k + 2]
pci_read8(p, offset) == pci_read32(p, offset)[(offset % 4) + 1]

\* What the device keeps of a write to the command register: the new command,
\* and those status bits (of weight 1 in this model) that were not written as one.
Kept(old, new) == <<new[1], new[2], old[3] - (IF new[3] % 2 = 1 THEN old[3] % 2 ELSE 0), old[4]>>
pci_write16(p, offset, value) ==
  LET w == pci_read32(p, offset)
      k == 2 * ((offset % 4) \div 2)
      new == [w EXCEPT ![k + 1] = value % 256, ![k + 2] = value \div 256]
  IN  space' = [space EXCEPT ![p][Word(offset)] = IF Word(offset) = 4 THEN Kept(w, new) ELSE new]

-----------------------------------------------------------------------------
Present(p) == pci_read16(p, 0) # 65535
\* Mutant: only function 0 is tried.
FuncCount_One(b, s) == 1
FuncCount(b, s) == IF pci_read8(<<b, s, 0>>, 14) >= 128 THEN FUNCS ELSE 1
Matching(b, s) ==
  {f \in 0 .. FuncCount(b, s) - 1 :
     /\ Present(<<b, s, f>>)
     /\ <<pci_read16(<<b, s, f>>, 0), pci_read16(<<b, s, f>>, 2)>> = want}

\* pci_fill_device: the fields the drivers use.
pci_fill_device(p) ==
  [place |-> p, ids |-> <<pci_read16(p, 0), pci_read16(p, 2)>>, bar |-> [i \in 0 .. 5 |-> pci_read32(p, 16 + 4 * i)]]

Init ==
  /\ space \in Machines
  /\ want \in Ids
  /\ at = <<0, 0>> /\ dev = NONE /\ phase = "search"

\* One slot of pci_find_device.
Found ==
  LET b == at[1]  s == at[2]
  IN  /\ phase = "search" /\ Present(<<b, s, 0>>) /\ Matching(b, s) # {}
      /\ dev' = pci_fill_device(<<b, s, CHOOSE f \in Matching(b, s) : \A g \in Matching(b, s) : f <= g>>)
      /\ phase' = "found"
      /\ UNCHANGED <<space, want, at>>
NextSlot ==
  LET b == at[1]  s == at[2]
  IN  /\ phase = "search" /\ ~(Present(<<b, s, 0>>) /\ Matching(b, s) # {})
      /\ \/ s + 1 < SLOTS /\ at' = <<b, s + 1>> /\ phase' = phase
         \/ s + 1 = SLOTS /\ b + 1 < BUSES /\ at' = <<b + 1, 0>> /\ phase' = phase
         \/ s + 1 = SLOTS /\ b + 1 = BUSES /\ at' = at /\ phase' = "absent"
      /\ UNCHANGED <<space, want, dev>>

\* cmd |= 0x0006
WithMaster(c) == c + (IF (c \div 2) % 2 = 0 THEN 2 ELSE 0) + (IF (c \div 4) % 2 = 0 THEN 4 ELSE 0)
pci_enable_bus_master ==
  /\ phase = "found"
  /\ pci_write16(dev.place, 4, WithMaster(pci_read16(dev.place, 4)))
  /\ phase' = "enabled"
  /\ UNCHANGED <<want, at, dev>>

\* pci_get_bar: an I/O port, or an address of 32 or 64 bits, here the pair of
\* its upper and lower half, the lower as its three upper bytes and the rest.
Low(w, a) == <<w[4], w[3], w[2], w[1] - (w[1] % a)>>
pci_get_bar(d, i) ==
  LET w == d.bar[i]
  IN  IF w[1] % 2 = 1 THEN [mmio |-> FALSE, high |-> <<0, 0, 0, 0>>, low |-> Low(w, 4)]
      ELSE [mmio |-> TRUE, low |-> Low(w, 16),
            high |-> IF (w[1] \div 2) % 4 = 2 /\ i < 5 THEN Low(d.bar[i + 1], 1) ELSE <<0, 0, 0, 0>>]

Next == Found \/ NextSlot \/ pci_enable_bus_master
Spec == Init /\ [][Next]_vars

-----------------------------------------------------------------------------
\* Real(m): the functions a machine really has: number 0 of a slot, and the
\* others only where the device says it has several.
Real(m) ==
  {p \in Places : m[p] # ONES /\ (p[3] = 0 \/ m[<<p[1], p[2], 0>>][12][3] >= 128)}
Before(p, q) == p[1] < q[1] \/ (p[1] = q[1] /\ (p[2] < q[2] \/ (p[2] = q[2] /\ p[3] < q[3])))
HasIds(m, p) == <<m[p][0][1] + 256 * m[p][0][2], m[p][0][3] + 256 * m[p][0][4]>> = want

\* r is the address that register i, with its flags taken off, and where it is
\* one of 64 bits the register behind it, hold.
Decodes(d, i, r) ==
  \E flags \in 0 .. 15 :
    /\ d.bar[i] = <<r.low[4] + flags, r.low[3], r.low[2], r.low[1]>>
    /\ IF r.mmio THEN flags % 2 = 0 /\ r.low[4] % 16 = 0 ELSE flags % 4 \in {1, 3} /\ flags < 4
    /\ r.high = IF r.mmio /\ (flags \div 2) % 4 = 2 /\ i < 5
                THEN LET w == d.bar[i + 1] IN <<w[4], w[3], w[2], w[1]>> ELSE <<0, 0, 0, 0>>

\* The search ends at the first function with the ids that is really there, and
\* fails only when there is none; enabling it gives it memory decoding and bus
\* mastering and no other function; its base addresses are what its registers
\* hold (pci_find_device, pci_enable_bus_master, pci_get_bar).
DeviceFound ==
  LET all == {p \in Real(space) : HasIds(space, p)}
  IN  /\ phase = "absent" => all = {}
      /\ phase \in {"found", "enabled"} =>
           /\ dev.place \in all
           /\ \A p \in all : ~Before(p, dev.place)
           /\ \A i \in 0 .. 5 : Decodes(dev, i, pci_get_bar(dev, i))
      /\ \A p \in Places : (space[p] # ONES /\ (space[p][4][1] \div 4) % 2 = 1) => (phase = "enabled" /\ dev.place = p)
=============================================================================
