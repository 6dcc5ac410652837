---------------------------- MODULE AbstractHeap ----------------------------
(***************************************************************************)
(* What the VM's heap promises the program running on it, without slots    *)
(* or allocation records: a set of separate objects, each with its own     *)
(* contents, at addresses never handed out before.  An operation that does *)
(* not name a live object faults and the program ends.                     *)
(***************************************************************************)
EXTENDS Integers, Sequences

CONSTANTS HeapAddressTag, SlotBytes,
          Addresses, SlotCounts, Values   \* the words the program passes

VARIABLES
  objects,   \* live objects: their base slot |-> their contents
  used,      \* every slot ever handed out
  reply      \* [op, ok, value] of the latest operation

vars == <<objects, used, reply>>

Slots(base, n) == base .. (base + n - 1)
Address(base) == HeapAddressTag + base * SlotBytes
Zeros(n) == [i \in 1 .. n |-> 0]

\* The object, if any, and the position in it that an address names.
Names(address, base, i) ==
  /\ base \in DOMAIN objects
  /\ i \in DOMAIN objects[base]
  /\ address = Address(base + i - 1)

Bound(address) == \E base \in DOMAIN objects :
                    \E i \in DOMAIN objects[base] : Names(address, base, i)

Ok(op, value) == reply' = [op |-> op, ok |-> TRUE, value |-> value]
Fault(op) == /\ reply' = [op |-> op, ok |-> FALSE, value |-> 0]
             /\ UNCHANGED <<objects, used>>

With(objs, base, contents) ==
  [b \in DOMAIN objs \cup {base} |-> IF b = base THEN contents ELSE objs[b]]
Without(objs, base) == [b \in DOMAIN objs \ {base} |-> objs[b]]

Fresh(base, n) == base \in Nat /\ Slots(base, n) \cap used = {}

\* The allocator may give any fresh place; FreshBase bounds where it looks.
FreshBase == {b \in 0 .. (HeapAddressTag \div SlotBytes) : b \notin used}

Init == objects = <<>> /\ used = {} /\ reply = [op |-> "none", ok |-> TRUE, value |-> 0]

Alloc(op, n) ==
  \/ n = 0 /\ Ok(op, 0) /\ UNCHANGED <<objects, used>>
  \/ /\ n > 0
     /\ \E base \in FreshBase :
          /\ Fresh(base, n)
          /\ objects' = With(objects, base, Zeros(n))
          /\ used' = used \cup Slots(base, n)
          /\ Ok(op, Address(base))
  \/ n > 0 /\ Fault(op)

Free(op, address) ==
  \/ address = 0 /\ Ok(op, 0) /\ UNCHANGED <<objects, used>>
  \/ \E base \in DOMAIN objects :
       /\ address = Address(base)
       /\ objects' = Without(objects, base)
       /\ Ok(op, 0)
       /\ UNCHANGED used
  \/ address # 0 /\ (\A base \in DOMAIN objects : address # Address(base)) /\ Fault(op)

\* A resized object is a new one: the old contents' common prefix, then zeros.
Resized(contents, n) ==
  [i \in 1 .. n |-> IF i \in DOMAIN contents THEN contents[i] ELSE 0]

Realloc(address, n) ==
  \/ address = 0 /\ Alloc("realloc", n)
  \/ address # 0 /\ n = 0 /\ Free("realloc", address)
  \/ /\ n > 0
     /\ \E old \in DOMAIN objects, base \in FreshBase :
          /\ address = Address(old)
          /\ Fresh(base, n)
          /\ objects' = With(Without(objects, old), base, Resized(objects[old], n))
          /\ used' = used \cup Slots(base, n)
          /\ Ok("realloc", Address(base))
  \/ address # 0 /\ n > 0 /\ Fault("realloc")

Load(address) ==
  \/ \E base \in DOMAIN objects : \E i \in DOMAIN objects[base] :
       /\ Names(address, base, i)
       /\ Ok("load", objects[base][i])
       /\ UNCHANGED <<objects, used>>
  \/ ~Bound(address) /\ Fault("load")

Store(address, value) ==
  \/ \E base \in DOMAIN objects : \E i \in DOMAIN objects[base] :
       /\ Names(address, base, i)
       /\ objects' = [objects EXCEPT ![base][i] = value]
       /\ Ok("store", value)
       /\ UNCHANGED used
  \/ ~Bound(address) /\ Fault("store")

Next ==
  /\ reply.ok
  /\ \/ \E n \in SlotCounts : Alloc("alloc", n)
     \/ \E a \in Addresses : Free("free", a)
     \/ \E a \in Addresses, n \in SlotCounts : Realloc(a, n)
     \/ \E a \in Addresses : Load(a)
     \/ \E a \in Addresses, v \in Values : Store(a, v)

Spec == Init /\ [][Next]_vars
=============================================================================
