------------------------------ MODULE BpfMaps ------------------------------
(***************************************************************************)
(* The kernel's BPF maps as the three probes use them.  A hash map is a    *)
(* function from the keys that can occur to the stored value, Absent where *)
(* there is no element.  The maps live in the kernel, outside this         *)
(* repository; each helper call is one indivisible step of the kernel.     *)
(***************************************************************************)
EXTENDS Integers, FiniteSets

\* "No element": what bpf_map_lookup_elem reports as a null pointer.
Absent == -1

\* The keys a hash map holds an element for.
Keys(m) == {k \in DOMAIN m : m[k] # Absent}

\* An update always succeeds on a key that is present; a new key needs one
\* of the max_entries elements, which are preallocated.
HasRoom(m, max, k) == m[k] # Absent \/ Cardinality(Keys(m)) < max

\* bpf_map_update_elem(m, k, v, BPF_ANY): with no room it returns an error,
\* which every probe ignores, and the map is as it was.
MapUpdate(m, max, k, v) == IF HasRoom(m, max, k) THEN [m EXCEPT ![k] = v] ELSE m

\* bpf_map_delete_elem(m, k)
MapDelete(m, k) == [m EXCEPT ![k] = Absent]

\* The elements of the histogram array h, at index b, after one more event.
Increment(h, b) == [h EXCEPT ![b] = @ + 1]
============================================================================
