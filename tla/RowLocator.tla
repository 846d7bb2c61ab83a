----------------------------- MODULE RowLocator -----------------------------
(***************************************************************************)
(* Point lookups of document bodies: 71_repartition_corpus.py writes a     *)
(* copy of the corpus in small row groups and RowLocator of                *)
(* parquet_reader.py keeps a map from document to row group and row beside *)
(* it.  One operator runs the script, can be killed in it, and may delete  *)
(* the copy or the map to have them made again; readers, each of which     *)
(* keeps the files it opened, come and go meanwhile.                       *)
(***************************************************************************)
EXTENDS Corpus

CONSTANTS
    Reader,
    GroupSizes      \* what --rows-per-group is given

ASSUME RowLocatorAssumption == GroupSizes \subseteq Nat \ {0}

VARIABLES
    copy,       \* the row groups of the re-chunked copy, or NoFile
    map,        \* the map's database
    work,       \* the script's run
    reader      \* what each reader opened

NoFile == <<>>
NoMap  == [exists |-> FALSE, stamp |-> <<>>, place |-> <<>>, done |-> {}]
NoWork == [at |-> "off", size |-> 0, done |-> {}]
Closed == [open |-> FALSE, file |-> NoFile, place |-> <<>>]

DocumentsOf(file) == UNION {{file[g][i] : i \in DOMAIN file[g]} : g \in DOMAIN file}

RowsOf(file) ==
    LET upto[g \in 0 .. Len(file)] == IF g = 0 THEN 0 ELSE upto[g - 1] + Len(file[g])
    IN  upto[Len(file)]

(***************************************************************************)
(* _fingerprint.  The size in bytes is taken to tell two layouts of the    *)
(* same rows apart, and nothing else.                                      *)
(***************************************************************************)
Fingerprint(file) == <<RowsOf(file), Len(file), Len(file[1])>>

-----------------------------------------------------------------------------
(* The script. *)

(* No copy yet: written beside the target and moved into place. *)
Repartition(size) ==
    /\ work.at \in {"off", "built"} /\ copy = NoFile
    /\ copy' = [g \in 1 .. Chunks(corpus, size) |-> Chunk(corpus, size, g - 1)]
    /\ work' = [NoWork EXCEPT !.at = "copied", !.size = size]
    /\ UNCHANGED <<corpus, map, reader>>

(* A copy is there: kept if its first row group has the size asked for. *)
KeepCopy(size) ==
    /\ work.at \in {"off", "built"} /\ copy # NoFile
    /\ Len(copy[1]) = size
    /\ work' = [NoWork EXCEPT !.at = "copied", !.size = size]
    /\ UNCHANGED <<corpus, copy, map, reader>>

(* sqlite3.connect and CREATE TABLE IF NOT EXISTS. *)
CreateMap ==
    /\ work.at = "copied"
    /\ map' = [map EXCEPT !.exists = TRUE]
    /\ work' = [work EXCEPT !.at = "created"]
    /\ UNCHANGED <<corpus, copy, reader>>

Stamped(file) == [map EXCEPT !.stamp = Fingerprint(file)]

(* _check_fingerprint: stored when there is none, otherwise it has to be the same. *)
Belongs(file) == map.stamp \in {<<>>, Fingerprint(file)}

OpenMap ==
    /\ work.at = "created"
    /\ IF Belongs(copy)
       THEN map' = Stamped(copy) /\ work' = [work EXCEPT !.at = "open", !.done = map.done]
       ELSE work' = NoWork /\ UNCHANGED map
    /\ UNCHANGED <<corpus, copy, reader>>

ToIndex == DOMAIN copy \ work.done

(* _index_row_group: a document that is in the map keeps its first row. *)
IndexRowGroup ==
    /\ work.at = "open" /\ ToIndex # {}
    /\ LET g == CHOOSE h \in ToIndex : \A k \in ToIndex : h <= k
           fresh == {copy[g][i] : i \in DOMAIN copy[g]} \ DOMAIN map.place
           First(d) == CHOOSE i \in DOMAIN copy[g] :
                            copy[g][i] = d /\ \A j \in 1 .. i - 1 : copy[g][j] # d
       IN  /\ map' = [map EXCEPT !.done = @ \cup {g},
                                 !.place = [d \in DOMAIN @ \cup fresh |->
                                    IF d \in fresh THEN <<g, First(d)>> ELSE @[d]]]
           /\ work' = [work EXCEPT !.done = @ \cup {g}]
    /\ UNCHANGED <<corpus, copy, reader>>

FinishMap ==
    /\ work.at = "open" /\ ToIndex = {}
    /\ work' = [NoWork EXCEPT !.at = "built"]
    /\ UNCHANGED <<corpus, copy, map, reader>>

(* Between runs the operator deletes the copy, or the map. *)
DeleteCopy ==
    /\ work.at \in {"off", "built"} /\ copy # NoFile
    /\ copy' = NoFile /\ work' = NoWork
    /\ UNCHANGED <<corpus, map, reader>>

DeleteMap ==
    /\ work.at \in {"off", "built"} /\ map.exists
    /\ map' = NoMap /\ work' = NoWork
    /\ UNCHANGED <<corpus, copy, reader>>

-----------------------------------------------------------------------------
(* The readers. *)

(* Mutant: a half-built map will do. *)
CompleteOrNot == TRUE

(* _check_complete *)
Complete == Cardinality(map.done) >= Len(copy)

(***************************************************************************)
(* RowLocator(..., require_complete=True), once _require_locator has found *)
(* both files.  Opening can leave its fingerprint behind and then refuse.  *)
(* A reader keeps the map as it is now: a complete map changes no more.    *)
(***************************************************************************)
OpenReader(r) ==
    /\ ~ reader[r].open
    /\ copy # NoFile /\ map.exists /\ Belongs(copy)
    /\ map' = Stamped(copy)
    /\ IF Complete
       THEN reader' = [reader EXCEPT ![r] = [open |-> TRUE, file |-> copy, place |-> map.place]]
       ELSE UNCHANGED reader
    /\ UNCHANGED <<corpus, copy, work>>

CloseReader(r) ==
    /\ reader[r].open
    /\ reader' = [reader EXCEPT ![r] = Closed]
    /\ UNCHANGED <<corpus, copy, map, work>>

Absent == "absent"
Raised == "raised"

(* fetch: the document read back is compared with the one asked for. *)
Fetch(file, place, d) ==
    IF d \notin DOMAIN place THEN Absent
    ELSE LET g == place[d][1]
             i == place[d][2]
         IN  IF i <= Len(file[g]) /\ file[g][i] = d THEN d ELSE Raised

Locating ==
    \/ \E size \in GroupSizes : Repartition(size) \/ KeepCopy(size)
    \/ CreateMap \/ OpenMap \/ IndexRowGroup \/ FinishMap

Reading(r) == OpenReader(r) \/ CloseReader(r)

-----------------------------------------------------------------------------
(***************************************************************************)
(* A lookup returns the document asked for when the file has it and says   *)
(* that it is absent when not: a reader never opens a map that is half     *)
(* built or that was built for another layout of the file, so that fetch   *)
(* has no mismatch to raise on.  (_check_complete and _check_fingerprint)  *)
(***************************************************************************)
FetchHonest ==
    \A r \in Reader : reader[r].open =>
        \A d \in Document :
            Fetch(reader[r].file, reader[r].place, d) =
                IF d \in DocumentsOf(reader[r].file) THEN d ELSE Absent

=============================================================================
