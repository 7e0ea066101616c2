----------------------------- MODULE EfiVolumes -----------------------------
(***************************************************************************)
(* How Limine on UEFI finds the volume a firmware handle stands for,       *)
(* limine-8.4.0/common/drivers/disk.s2.c: by a hash of the first sectors   *)
(* where that is unique among the volumes, else by writing a signature     *)
(* through the handle, looking for it in every volume and putting the old  *)
(* contents back.  Any transfer may fail, and the power may go at any      *)
(* moment.  A region is where a volume or a handle begins on a medium; its *)
(* word is its first 64 bits, its rest what lies behind.                   *)
(***************************************************************************)
EXTENDS Integers, Sequences, FiniteSets

CONSTANTS
  Layouts,        \* the volumes and handles of a machine, and what is on its media
  Signatures,     \* what rand64 may return
  MaxFaults       \* bound: transfers that fail

VARIABLES
  lay,            \* the machine: .volumes and .handles, sequences of regions; .rest, .small, by region
  word,           \* by region
  unique,         \* by volume: unique_sector_b2b where unique_sector_valid, else NONE
  handle_of,      \* by volume: efi_part_handle, 0: none
  i,              \* the volume hashed, or the handle looked up
  j, pool, orig, signature, new_signature, ret,   \* disk_volume_from_efi_handle
  phase, faults
vars == <<lay, word, unique, handle_of, i, j, pool, orig, signature, new_signature, ret, phase, faults>>
lookup == <<j, pool, orig, signature, new_signature, ret>>

NONE == <<>>
Volume(n) == lay.volumes[n]
Mine == lay.handles[i]
Hash(r) == <<word[r], lay.rest[r]>>
volume_by_unique_sector(b2b) ==
  LET same == {n \in DOMAIN lay.volumes : unique[n] = b2b}
  IN  IF same = {} THEN 0 ELSE CHOOSE n \in same : \A m \in same : n <= m

Init ==
  /\ lay \in Layouts
  /\ word = lay.word
  /\ unique = [n \in DOMAIN lay.volumes |-> NONE]
  /\ handle_of = [n \in DOMAIN lay.volumes |-> 0]
  /\ i = 1 /\ phase = "hash" /\ faults = 0
  /\ j = 0 /\ pool = NONE /\ orig = 0 /\ signature = 0 /\ new_signature = 0 /\ ret = 0

Fault == faults < MaxFaults /\ faults' = faults + 1

-----------------------------------------------------------------------------
(* find_unique_sectors *)
\* Mutant: the volume that collides stays valid.
Invalidated_Not(c) == unique
Invalidated(c) == [unique EXCEPT ![c] = NONE]
HashVolume ==
  /\ phase = "hash" /\ i <= Len(lay.volumes)
  /\ LET b2b == Hash(Volume(i))
         collision == volume_by_unique_sector(b2b)
     IN  unique' = IF Volume(i) \in lay.small THEN unique
                   ELSE IF collision = 0 THEN [unique EXCEPT ![i] = b2b]
                   ELSE Invalidated(collision)
  /\ i' = i + 1
  /\ UNCHANGED <<lay, word, handle_of, lookup, phase, faults>>
HashFails ==
  /\ phase = "hash" /\ i <= Len(lay.volumes)
  /\ Fault
  /\ i' = i + 1
  /\ UNCHANGED <<lay, word, unique, handle_of, lookup, phase>>
HashDone ==
  /\ phase = "hash" /\ i > Len(lay.volumes)
  /\ i' = 1 /\ phase' = "look"
  /\ UNCHANGED <<lay, word, unique, handle_of, lookup, faults>>

-----------------------------------------------------------------------------
(* find_part_handles and disk_volume_from_efi_handle *)
\* The volume found, or none, and the next handle.
Returns(v) ==
  /\ handle_of' = IF v = 0 THEN handle_of ELSE [handle_of EXCEPT ![v] = i]
  /\ i' = i + 1
  /\ phase' = "look"
Known(r) == IF r \in lay.small THEN 0 ELSE volume_by_unique_sector(Hash(r))

ByHash ==
  /\ phase = "look" /\ i <= Len(lay.handles) /\ Known(Mine) # 0
  /\ Returns(Known(Mine))
  /\ UNCHANGED <<lay, word, unique, lookup, faults>>
\* The signature is written over the first word; pool is the sector as it was read.
ReadMine == pool' = <<word[Mine], lay.rest[Mine]>>
MarkIt ==
  /\ phase = "look" /\ i <= Len(lay.handles)
  /\ Known(Mine) = 0
  /\ \E s, n \in Signatures : s # n /\ signature' = s /\ new_signature' = n
  /\ orig' = word[Mine] /\ ReadMine
  /\ word' = [word EXCEPT ![Mine] = signature']
  /\ ret' = 0 /\ j' = 1
  /\ phase' = "seek"
  /\ UNCHANGED <<lay, unique, handle_of, i, faults>>
\* Hashing, the first read or the first write fails; a write may have been done.
MarkFails ==
  /\ phase = "look" /\ i <= Len(lay.handles)
  /\ Fault
  /\ Returns(0)
  /\ \E s \in Signatures : word' \in {word, [word EXCEPT ![Mine] = s]}
  /\ UNCHANGED <<lay, unique, lookup>>

\* The signature is looked for in volume j.
Seek ==
  /\ phase = "seek" /\ j <= Len(lay.volumes)
  /\ pool' = <<word[Volume(j)], lay.rest[Volume(j)]>>
  /\ IF word[Volume(j)] = signature THEN phase' = "again" /\ j' = j ELSE phase' = phase /\ j' = j + 1
  /\ UNCHANGED <<lay, word, unique, handle_of, i, orig, signature, new_signature, ret, faults>>
SeekFails ==
  /\ phase \in {"seek", "check"} /\ j <= Len(lay.volumes)
  /\ Fault
  /\ j' = j + 1 /\ phase' = "seek"
  /\ UNCHANGED <<lay, word, unique, handle_of, i, pool, orig, signature, new_signature, ret>>
NotFound ==
  /\ phase = "seek" /\ j > Len(lay.volumes)
  /\ phase' = "restore"
  /\ UNCHANGED <<lay, word, unique, handle_of, i, lookup, faults>>

\* Found: another signature is written and has to show there too.
Rewrites(from, to, s) ==
  /\ phase = from
  /\ ReadMine
  /\ word' = [word EXCEPT ![Mine] = s]
  /\ phase' = to
  /\ UNCHANGED <<lay, unique, handle_of, i, orig, signature, new_signature, ret, faults>>
Again == Rewrites("again", "check", new_signature) /\ UNCHANGED j
\* Mutant: no second look.
Confirmed_Any == TRUE
Confirmed == word[Volume(j)] = new_signature
Check ==
  /\ phase = "check"
  /\ pool' = <<word[Volume(j)], lay.rest[Volume(j)]>>
  /\ IF Confirmed THEN ret' = j /\ phase' = "restore" ELSE ret' = ret /\ phase' = "back"
  /\ UNCHANGED <<lay, word, unique, handle_of, i, j, orig, signature, new_signature, faults>>
Back == Rewrites("back", "seek", signature) /\ j' = j + 1
RewriteFails ==
  /\ phase \in {"again", "back"}
  /\ Fault
  /\ word' \in {word, [word EXCEPT ![Mine] = IF phase = "again" THEN new_signature ELSE signature]}
  /\ phase' = "restore"
  /\ UNCHANGED <<lay, unique, handle_of, i, lookup>>

Restore ==
  /\ phase = "restore"
  /\ word' = [word EXCEPT ![Mine] = orig]
  /\ Returns(ret)
  /\ UNCHANGED <<lay, unique, lookup, faults>>
RestoreFails ==
  /\ phase = "restore"
  /\ Fault
  /\ word' \in {word, [word EXCEPT ![Mine] = orig]}
  /\ Returns(0)
  /\ UNCHANGED <<lay, unique, lookup>>

PowerCut ==
  /\ phase # "off"
  /\ phase' = "off"
  /\ UNCHANGED <<lay, word, unique, handle_of, i, lookup, faults>>

Next ==
  \/ HashVolume \/ HashFails \/ HashDone \/ ByHash \/ MarkIt \/ MarkFails
  \/ Seek \/ SeekFails \/ NotFound \/ Again \/ Check \/ Back \/ RewriteFails
  \/ Restore \/ RestoreFails \/ PowerCut
Spec == Init /\ [][Next]_vars

-----------------------------------------------------------------------------
TypeOK ==
  /\ phase \in {"hash", "look", "seek", "again", "check", "back", "restore", "off"}
  /\ \A n \in DOMAIN handle_of : handle_of[n] \in 0 .. Len(lay.handles)

Alike(r) == {n \in DOMAIN lay.volumes : <<lay.word[Volume(n)], lay.rest[Volume(n)]>> = <<lay.word[r], lay.rest[r]>>}
HandlesMatch == \A n \in DOMAIN handle_of : handle_of[n] # 0 => lay.handles[handle_of[n]] = Volume(n)

\* While no transfer fails and no three volumes begin alike, a handle is given to
\* a volume only where they are the same region. While no transfer fails, every
\* medium holds its own contents whenever no lookup is under way, and only the
\* medium under the handle is written to during a lookup.
HandlesFound ==
  /\ (faults = 0 /\ \A r \in DOMAIN word : Cardinality(Alike(r)) <= 2) => HandlesMatch
  /\ (faults = 0 /\ phase \in {"hash", "look"}) => word = lay.word
  /\ faults = 0 => \A r \in DOMAIN word : word[r] # lay.word[r] => r = Mine

\* Not guaranteed: find_unique_sectors means to leave valid only what is unique, "Invalidate
\* collision's unique sector": a handle goes to its own volume without faults.
HandlesAlwaysMatch == faults = 0 => HandlesMatch
=============================================================================
