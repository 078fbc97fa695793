-------------------------- MODULE MCDecodeAttention --------------------------
(* Three rows on four CTAs, so that decode_chunks gives four chunks a row  *)
(* and the twelve items of a full phase take three passes.  The two steps  *)
(* behind a prompt cross every limit of InUse: five and six keys (one wave *)
(* of items, then two chunks a row), eight and nine (two, then three),     *)
(* twelve and thirteen (three, then four).  Two layers share the phase     *)
(* scratch.                                                                *)
EXTENDS DecodeAttention
=============================================================================
