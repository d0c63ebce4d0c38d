---------------------------- MODULE PackageStore ----------------------------
(***************************************************************************)
(* What the compiler puts on disk, file by file and in the order of the    *)
(* writes, and what a reader makes of the files it finds: object headers   *)
(* and chunk bodies (link_load.rs), the package (open_model), the          *)
(* constraint model (ccm_format.rs, ccm_multi_part.rs).                    *)
(*                                                                         *)
(* A disk is a function from paths <<dir, part, file>> to contents.  Every *)
(* file but the provenance sidecar is written in place, so a file whose    *)
(* write has begun and not ended is Torn: no reader can parse it.  A hash  *)
(* is the value it is computed from.                                       *)
(***************************************************************************)
EXTENDS ObjectHeaders

Torn == [kind |-> "torn"]
readable(disk, path) == path \in DOMAIN disk /\ disk[path] # Torn
Write(path, content) == [path |-> path, content |-> content]
written(disk, path, content) ==
    [x \in DOMAIN disk \cup {path} |-> IF x = path THEN content ELSE disk[x]]

ChunkFile(dir, c) == <<dir, "chunk", c>>
chunk_writes(dir, C) ==
    LET seq == chunk_order(C)
    IN  [i \in DOMAIN seq |-> Write(ChunkFile(dir, seq[i]), [kind |-> "chunk", chunk_hash |-> seq[i]])]
chunk_readable(disk, dir, c) ==
    readable(disk, ChunkFile(dir, c)) /\ disk[ChunkFile(dir, c)].chunk_hash = c

-----------------------------------------------------------------------------
(* ------------------------------- Objects ------------------------------- *)

HeaderFile(dir) == <<dir, "object", "header">>
write_object(dir, header) ==
    Append(chunk_writes(dir, header.chunks), Write(HeaderFile(dir), [kind |-> "object", header |-> header]))
read_from_dir(disk, dir) == disk[HeaderFile(dir)].header

\* Every chunk is there under its name and with that content, and the header
\* is the one these bodies give.
load_chunks(disk, dir, header) == \A c \in header.chunks : chunk_readable(disk, dir, c)

LockPath == <<"lock", "lock", "lock">>

-----------------------------------------------------------------------------
(* ------------------------------- Package ------------------------------- *)

IndexFile(dir) == <<dir, "cmp", "index">>
CmpManifestFile(dir) == <<dir, "cmp", "manifest">>

write_package_but_index(dir, C) ==
    Append(chunk_writes(dir, C), Write(CmpManifestFile(dir), [kind |-> "cmp", model_hash |-> C]))

write_package(dir, C) ==
    chunk_writes(dir, C) \o
        <<Write(IndexFile(dir), [kind |-> "index", chunks |-> C, config_hash |-> C]),
          Write(CmpManifestFile(dir), [kind |-> "cmp", model_hash |-> C])>>

\* Every chunk of the index is there, under its name and with that content.
\* The index's tables of components, facets, catalogues and the rest are part
\* of the content its config_hash covers, so they agree with such chunks.
index_trusted(disk, dir, C) == TRUE
verify_index_integrity(disk, dir, C) == \A c \in C : chunk_readable(disk, dir, c)

\* The package that opens, as the hash its handle carries.
NoPackage == {}
open_model(disk, dir) ==
    IF /\ readable(disk, CmpManifestFile(dir))
       /\ readable(disk, IndexFile(dir))
       /\ LET index == disk[IndexFile(dir)] IN
          /\ index.chunks = index.config_hash
          /\ index.config_hash = disk[CmpManifestFile(dir)].model_hash
          /\ verify_index_integrity(disk, dir, index.chunks)
    THEN disk[CmpManifestFile(dir)].model_hash ELSE NoPackage

-----------------------------------------------------------------------------
(* --------------------------- Constraint model -------------------------- *)

\* An emission is the model and the cluster size.
Emission(C, cluster) == [model |-> C, cluster |-> cluster]

\* The files of a partition, each with the bytes only this emission has.
partition_writes(dir, e, name) ==
    LET symbols == [kind |-> "symbols", of |-> e, part |-> name]
        bdd == [kind |-> "bdd", of |-> e, part |-> name]
    IN  <<Write(<<dir, name, "bdd">>, bdd),
          Write(<<dir, name, "symbols">>, symbols),
          Write(<<dir, name, "manifest">>,
                [kind |-> "part", bound |-> e.model, ccm_hash |-> <<e.model, symbols, bdd>>])>>

all_partition_writes(dir, e, names) ==
    [k \in 1 .. 3 * Len(names) |->
        partition_writes(dir, e, names[((k - 1) \div 3) + 1])[((k - 1) % 3) + 1]]

partition_hash(e, name) == LET ws == partition_writes("", e, name)
                           IN  <<e.model, ws[2].content, ws[1].content>>
hash_of_names_only(bound, names, hashes) == <<bound, names>>
compute_top_level_ccm_hash(bound, names, hashes) == <<bound, names, hashes>>

\* Partition by partition, then the top manifest and the partition manifest;
\* the symbol table between the two is read by no loader and left out.
emit_ccm_dir(dir, e, names) ==
    LET top == compute_top_level_ccm_hash(e.model, names,
                   [i \in DOMAIN names |-> partition_hash(e, names[i])])
    IN  all_partition_writes(dir, e, names) \o
        <<Write(<<dir, "ccm", "manifest">>, [kind |-> "top", bound |-> e.model, ccm_hash |-> top]),
          Write(<<dir, "ccm", "partitions">>, [kind |-> "partitions", names |-> names, ccm_hash |-> top])>>

\* load_ccm_from_dir and load_partition: the hash over the three files is the
\* one the manifest claims, and the partition is bound to the top's model.
load_partition(disk, dir, name, bound) ==
    /\ \A f \in {"bdd", "symbols", "manifest"} : readable(disk, <<dir, name, f>>)
    /\ LET manifest == disk[<<dir, name, "manifest">>] IN
       /\ manifest.ccm_hash = <<manifest.bound, disk[<<dir, name, "symbols">>], disk[<<dir, name, "bdd">>]>>
       /\ manifest.bound = bound

\* load_from_cmp: no top manifest is an empty model, one without a partition
\* manifest is refused, else all the hashes must agree.
load_multi_part(disk, dir) ==
    LET top == disk[<<dir, "ccm", "manifest">>]
        pm == disk[<<dir, "ccm", "partitions">>]
    IN  /\ readable(disk, <<dir, "ccm", "manifest">>)
        /\ readable(disk, <<dir, "ccm", "partitions">>)
        /\ \A i \in DOMAIN pm.names : load_partition(disk, dir, pm.names[i], top.bound)
        /\ top.ccm_hash = compute_top_level_ccm_hash(top.bound, pm.names,
               [i \in DOMAIN pm.names |-> disk[<<dir, pm.names[i], "manifest">>].ccm_hash])
        /\ pm.ccm_hash = top.ccm_hash
load_from_cmp(disk, dir) ==
    IF <<dir, "ccm", "manifest">> \notin DOMAIN disk THEN "empty"
    ELSE IF load_multi_part(disk, dir) THEN "loaded" ELSE "unloadable"
=============================================================================
