------------------------------ MODULE OwlCache ------------------------------
(***************************************************************************)
(* The files owl_cache.py keeps of the FOLIO ontology and what each of its *)
(* renames and saves does to them.  A version of the ontology is a number, *)
(* its ETag is the same number, and None stands for a file that is not     *)
(* there and for metadata without an ETag.                                 *)
(*                                                                         *)
(* Left out: the byte counts and dates of the metadata, which nothing      *)
(* reads back, and the .tmp files, which every writer fills before it      *)
(* renames them.  A save of the metadata is taken as one step; its         *)
(* read-modify-write is not (OwlUpdate has a step for each half).          *)
(***************************************************************************)
EXTENDS Naturals

CONSTANT MaxVersion                 \* bound: versions GitHub ever publishes

ASSUME VersionAssumption == MaxVersion \in Nat \ {0}

None == 0
Versions == 1 .. MaxVersion
MaybeVersions == 0 .. MaxVersion

(* The cache file, its one-version backup, the file a rollback sets aside  *)
(* and the ETag in the metadata.                                           *)
Disks == [cache: MaybeVersions, previous: MaybeVersions,
          failed: MaybeVersions, etag: MaybeVersions]

EmptyDisk == [cache |-> None, previous |-> None, failed |-> None, etag |-> None]

(* The versions that can still be read from some file.                     *)
Stored(d) == {d.cache, d.previous, d.failed} \ {None}

(* The If-None-Match header of a HEAD: sent only when there is a file the  *)
(* stored ETag can be about.                                               *)
Condition(d) == IF d.cache = None THEN None ELSE d.etag

(* The answer 304 of GitHub to a HEAD with that header.                    *)
NotModified(header, published) == header # None /\ header = published

(* _save_metadata, of which only the ETag counts.                          *)
WithEtag(d, etag) == [d EXCEPT !.etag = etag]

(* ensure_owl_fresh, step 4: the old backup goes, the cache becomes the    *)
(* backup, the download becomes the cache.                                 *)
BackupDropped(d) == IF d.cache = None THEN d ELSE [d EXCEPT !.previous = None]

(* Mutant of BackedUp: the old file is deleted, not renamed.               *)
BackedUpDeleted(d) == [d EXCEPT !.cache = None]

BackedUp(d) ==
    IF d.cache = None THEN d
    ELSE [d EXCEPT !.previous = d.cache, !.cache = None]
Installed(d, version) == [d EXCEPT !.cache = version]

(* rollback_owl: the cache is set aside, the backup takes its place, the   *)
(* file set aside is deleted.                                              *)
SetAside(d) ==
    IF d.cache = None THEN d
    ELSE [d EXCEPT !.failed = d.cache, !.cache = None]
BroughtBack(d) == [d EXCEPT !.cache = d.previous, !.previous = None]
Discarded(d) == [d EXCEPT !.failed = None]
=============================================================================
