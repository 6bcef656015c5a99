------------------------------ MODULE CacheKey ------------------------------
(***************************************************************************)
(* The bytes hashed into a cell's cache key, which the browser and the     *)
(* server compute alike.  crates/ironpad-common/src/cache_key.rs.          *)
(*                                                                         *)
(* A text is a sequence of bytes and a length is one byte, so that a data  *)
(* byte may read as a length.  The input is a record of the texts source,  *)
(* cargoToml, triple and toolchain, the sequence `types` of texts, and     *)
(* sharedCargoToml and sharedSource, each a sequence of no or one text.    *)
(* The feature flags, computed from the texts, and the epoch have a fixed  *)
(* width and a fixed place, and are left out.                              *)
(***************************************************************************)
EXTENDS CellDeps

\* update_framed and update_framed_opt.
Framed(text)   == <<Len(text)>> \o text
FramedOpt(opt) == IF opt = <<>> THEN <<0>> ELSE <<1>> \o Framed(opt[1])

\* A Linux cell is given nothing from above.
HashedTypes(in, refs, linux) ==
    IF in.triple = linux THEN <<>> ELSE NormalizedTypes(refs, in.types, <<>>)

\* content_hash_with_features: what the hasher is fed.
HashInput(in, refs, linux) ==
    LET types == HashedTypes(in, refs, linux)
    IN  Framed(in.source) \o Framed(in.cargoToml) \o Framed(in.triple)
        \o Framed(<<Len(types)>>) \o FlattenSeq([i \in DOMAIN types |-> Framed(types[i])])
        \o FramedOpt(in.sharedCargoToml) \o FramedOpt(in.sharedSource)
        \o Framed(in.toolchain)
=============================================================================
