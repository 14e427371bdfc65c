----------------------------- MODULE BlobStore -----------------------------
(***************************************************************************)
(* The blob store as netlify/functions/lib/shared.js uses it: a key holds  *)
(* one value or nothing, every call is atomic on its own key, and a write  *)
(* may be conditional.  There is no transaction over two calls.            *)
(*                                                                         *)
(* A key's ETag is a number that every write of the key moves on, as in    *)
(* the store the tests use (netlify/tests/blobs-consistency.test.mjs).     *)
(***************************************************************************)

CONSTANT Absent        \* what a read of a missing key answers (null)

(* getBlobEtag: the tag of what the key holds now, Absent when missing.    *)
Etag(stored, tag) == IF stored = Absent THEN Absent ELSE tag

(* Bug: the condition is not sent.                                         *)
IfMatchUnsent(stored, tag, cond) == TRUE

(* The condition of a conditional write.  A null onlyIfMatch is no         *)
(* condition at all, which is how callers that pass `etag ?? undefined`    *)
(* end up writing unconditionally.                                         *)
IfMatch(stored, tag, cond) == cond # Absent => stored # Absent /\ tag = cond

(* Bug: onlyIfNew is not sent.                                             *)
IfNewUnsent(stored) == TRUE

(* The other condition: create only when the key is missing.               *)
IfNew(stored) == stored = Absent
=============================================================================
