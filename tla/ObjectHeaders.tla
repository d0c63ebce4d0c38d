---------------------------- MODULE ObjectHeaders ----------------------------
(***************************************************************************)
(* What compile-object records of a unit and what link compares of the     *)
(* objects it is given: headers, interface references, locks (object.rs,   *)
(* object_compile.rs, link.rs, link_lock.rs).                              *)
(*                                                                         *)
(* A chunk is known by its content hash, which here is its name.  An       *)
(* object header is [unit, chunks, interfaces]; everything else in it is   *)
(* computed from the chunks, so the header is also its own object_hash.    *)
(***************************************************************************)
EXTENDS Naturals, Sequences, Functions

CONSTANTS Chunks,          \* the chunk hashes
          UnitOf,          \* chunk -> the package it declares
          chunk_order(_)   \* a set of chunks in the order of the hashes

ObjectHeader(unit, C, interfaces) == [unit |-> unit, chunks |-> C, interfaces |-> interfaces]
as_interface_ref(h) == [unit |-> h.unit, object_hash |-> h]
object_of(C, headers) ==
    ObjectHeader(UnitOf[CHOOSE c \in C : TRUE], C, {as_interface_ref(h) : h \in headers})

all_chunks(headers) == UNION {h.chunks : h \in headers}
check_interface_hashes(headers) ==
    \A h, g \in headers : \A r \in h.interfaces : r.unit = g.unit => r.object_hash = g

\* A lock is a function from the pinned units to object hashes.
lock_of(headers) ==
    [u \in {h.unit : h \in headers} |-> CHOOSE h \in headers : h.unit = u]
check_lock(lock, headers, allow_extra) ==
    /\ \A h \in headers : h.unit \in DOMAIN lock /\ lock[h.unit] = h
    /\ allow_extra \/ DOMAIN lock \subseteq {h.unit : h \in headers}
=============================================================================
