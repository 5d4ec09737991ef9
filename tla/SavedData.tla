------------------------------- MODULE SavedData -------------------------------
(***************************************************************************)
(* The private records of LocalDatabase                                    *)
(* (src/main/persistence/database.ts): the history and the library         *)
(* (dictionary, snippets and notes, which the reset treats alike), with    *)
(* the handlers of src/main.ts that read, delete, export and reset them.   *)
(*                                                                         *)
(* A row is [id, at, key, bad]: when it was saved, the key that sealed it, *)
(* and whether its other fields are malformed.  `disk' has the rows whose  *)
(* sealed text is somewhere in the database file or its write-ahead log:   *)
(* a deletion leaves it there until the log is truncated.                  *)
(*                                                                         *)
(* A definition whose comment starts with "Mistake" is a plausible wrong   *)
(* version of the one after it; no specification uses it.                  *)
(***************************************************************************)
EXTENDS Naturals, SequencesExt, FiniteSetsExt

CONSTANTS
  MaxRows,      \* bound: rows ever saved
  MaxTime,      \* bound: the clock
  MaxReads,     \* bound: how many unreadable rows were counted when it is read again
  Legacy,       \* bound: rows of an older installation
  CollectionLimit, PageSize, \* MAX_PERSISTED_COLLECTION_ROWS, DATABASE_READ_PAGE_SIZE
  Limits,       \* limits a screen asks for
  Retentions,   \* the choices of historyRetentionDays; 0 keeps everything
  Keys          \* keys of the system's keystore

SavedDataAssumption ==
  /\ {MaxRows, MaxTime, MaxReads, Legacy} \subseteq Nat /\ Legacy <= MaxRows
  /\ {CollectionLimit, PageSize} \union Limits \subseteq Nat \ {0} /\ Retentions \subseteq Nat

VARIABLES
  history, library, \* sets of rows
  disk,
  now, key,       \* the clock and the key in use
  reader,         \* another program reads the database
  nextId,
  unreadable,     \* unreadableRecords
  dictating,      \* a dictation is under way
  reset,          \* resettingSavedData and where the handler is
  copy,           \* the recovery copy of the reset that goes on
  lost,           \* rows a reset removed that are in no recovery copy
  answer          \* what the last call returned

vars == <<history, library, disk, now, key, reader, nextId, unreadable, dictating, reset, copy,
          lost, answer>>
storage == <<history, library, disk, nextId, unreadable>>
world == <<now, key, reader>>

NoAnswer == [op |-> "none", ok |-> TRUE, items |-> <<>>, total |-> 0, skipped |-> 0, complete |-> FALSE]

Rows == [id : 1..MaxRows, at : 0..MaxTime, key : Keys, bad : BOOLEAN]

TypeOK ==
  /\ history \subseteq Rows /\ library \subseteq Rows /\ disk \subseteq Rows
  /\ now \in 0..MaxTime /\ key \in Keys /\ reader \in BOOLEAN /\ nextId \in 1..(MaxRows + 1)
  /\ unreadable \in Nat /\ dictating \in BOOLEAN
  /\ reset \in {"no", "asking", "copying", "copied"}
  /\ copy \subseteq Rows /\ lost \subseteq Rows
  /\ answer.op \in {"none", "list", "export", "delete", "clear", "purge", "reset"}

\* An older installation may have left rows that cannot be read any more.
Init ==
  /\ \E n \in 0..Legacy : /\ nextId = n + 1
       /\ \E keyOf \in [1..n -> Keys], badOf \in [1..n -> BOOLEAN] :
            history = {[id |-> i, at |-> 0, key |-> keyOf[i], bad |-> badOf[i]] : i \in 1..n}
  /\ library = {} /\ disk = history /\ now = 0 /\ key \in Keys /\ reader = FALSE
  /\ unreadable = 0 /\ dictating = FALSE /\ reset = "no" /\ copy = {} /\ lost = {}
  /\ answer = NoAnswer

-----------------------------------------------------------------------------
(* Reading                                                                 *)

\* ORDER BY created_at DESC, id DESC
Newest(rows) == SetToSortSeq(rows, LAMBDA a, b : a.at > b.at \/ (a.at = b.at /\ a.id > b.id))

\* tryDecrypt() and decodeTranscription()
Readable(row) == row.key = key /\ ~row.bad

\* The rows the page loop visits: pages until one is short or the bound is reached.
Visited(rows, bound) ==
  LET all == Newest(rows)
      page[offset \in 0..Len(all)] ==
        IF offset >= bound THEN offset
        ELSE LET size == IF bound - offset < PageSize THEN bound - offset ELSE PageSize
                 got  == IF Len(all) - offset < size THEN Len(all) - offset ELSE size
             IN IF got < size THEN offset + got ELSE page[offset + got]
  IN SubSeq(all, 1, page[0])

Smaller(a, b) == IF a < b THEN a ELSE b

\* Mistake: the skipped rows are counted only until the list is full.
SkippedOf(seen, limit) == Cardinality({i \in 1..Smaller(limit, Len(seen)) : ~Readable(seen[i])})
Skipped(seen, limit) == Cardinality({i \in DOMAIN seen : ~Readable(seen[i])})

\* Mistake: a list that found enough is complete.
CompleteIfRead(skipped, visited, total) == visited >= total
Complete(skipped, visited, total) == skipped = 0 /\ visited >= total

Result(op, seen, limit, total) ==
  [op |-> op, ok |-> TRUE, total |-> total, skipped |-> Skipped(seen, limit),
   items |-> LET readable == SelectSeq(seen, Readable)
             IN SubSeq(readable, 1, Smaller(limit, Len(readable))),
   complete |-> Complete(Skipped(seen, limit), Len(seen), total)]

Count(n) == unreadable' = unreadable + n
CanCount == unreadable < MaxReads

\* listTranscriptionsWithIntegrity(); savedDataStatus() calls it too.
List(limit) ==
  /\ CanCount
  /\ answer' = Result("list", Visited(history, Smaller(Cardinality(history), CollectionLimit)),
                      limit, Cardinality(history))
  /\ Count(answer'.skipped)
  /\ UNCHANGED <<history, library, disk, nextId, world, dictating, reset, copy, lost>>

\* exportTranscriptionsWithIntegrity(): everything or an error.
Export ==
  /\ CanCount
  /\ IF Cardinality(history) > CollectionLimit
     THEN answer' = [NoAnswer EXCEPT !.op = "export", !.ok = FALSE] /\ UNCHANGED unreadable
     ELSE /\ answer' = Result("export", Visited(history, Cardinality(history)), Cardinality(history),
                              Cardinality(history))
          /\ Count(answer'.skipped)
  /\ UNCHANGED <<history, library, disk, nextId, world, dictating, reset, copy, lost>>

-----------------------------------------------------------------------------
(* Deleting                                                                *)

\* Mistake: a busy reader is no reason to fail.
CheckpointIgnored(rows) == disk' = (IF reader THEN disk ELSE rows) /\ answer'.ok
\* Mistake: the file is rewritten without the ids.
CheckpointIds(rows) == disk' = {[row EXCEPT !.id = 0] : row \in rows} /\ answer'.ok = ~reader
\* wal_checkpoint(TRUNCATE) of the rows that are left: busy while another program reads.
Checkpoint(rows) == disk' = (IF reader THEN disk ELSE rows) /\ answer'.ok = ~reader

\* A DELETE that removes rows is followed by the checkpoint, one that finds none is not.
RemoveRows(op, rows) ==
  /\ history' = history \ rows
  /\ \E ok \in BOOLEAN : answer' = [NoAnswer EXCEPT !.op = op, !.ok = ok]
  /\ IF rows = {} THEN answer'.ok /\ UNCHANGED disk ELSE Checkpoint(history' \union library)
  /\ UNCHANGED <<library, nextId, unreadable, world, dictating, reset, copy, lost>>

\* Mistake: nothing is refused while the saved data is reset.
AlwaysAllowed == TRUE
\* SAVED_DATA_MUTATIONS are refused while the reset goes on.
MutationAllowed == reset = "no"

DeleteTranscription(row) == MutationAllowed /\ RemoveRows("delete", {row})
DeleteGone == MutationAllowed /\ RemoveRows("delete", {})
ClearTranscriptions == MutationAllowed /\ RemoveRows("clear", history)

Expired(days) == IF days = 0 THEN {} ELSE {row \in history : row.at + days < now}

\* purgeExpiredTranscriptions(): at startup, and after a settings patch.
Purge(days) == MutationAllowed /\ RemoveRows("purge", Expired(days))

-----------------------------------------------------------------------------
(* Saving                                                                  *)

NewRow == [id |-> nextId, at |-> now, key |-> key, bad |-> FALSE]

BeginListening ==
  /\ ~dictating /\ reset = "no" /\ nextId <= MaxRows
  /\ dictating' = TRUE
  /\ UNCHANGED <<storage, world, reset, copy, lost, answer>>

\* persistCompletedDictationHistory(): the row is saved, if it can be, and the
\* expired ones are purged, if they can be; neither undoes the other.
CompleteDictation(keep, days) ==
  /\ dictating /\ dictating' = FALSE /\ (keep => nextId <= MaxRows)
  /\ \/ UNCHANGED <<history, disk, nextId>>                \* the save fails
     \/ LET saved == IF keep THEN {NewRow} ELSE {}
            gone == Expired(days)
        IN /\ nextId' = nextId + Cardinality(saved)
           /\ history' = (history \union saved) \ gone
           /\ disk' = IF gone # {} /\ ~reader THEN history' \union library ELSE disk \union saved
  /\ UNCHANGED <<library, unreadable, world, reset, copy, lost, answer>>

DictationFails ==
  /\ dictating /\ dictating' = FALSE
  /\ UNCHANGED <<storage, world, reset, copy, lost, answer>>

\* A rule or a note is saved (saveDictionary, saveSnippet, createScratchpadNote).
SaveToLibrary ==
  /\ MutationAllowed /\ nextId <= MaxRows
  /\ library' = library \union {NewRow} /\ disk' = disk \union {NewRow}
  /\ nextId' = nextId + 1
  /\ UNCHANGED <<history, unreadable, world, dictating, reset, copy, lost, answer>>

-----------------------------------------------------------------------------
(* systemResetSavedData                                                    *)

\* Refused while a dictation is under way.
AskReset ==
  /\ reset = "no" /\ ~dictating
  /\ reset' = "asking" /\ copy' = {}
  /\ UNCHANGED <<storage, world, dictating, lost, answer>>

ResetCancelled ==
  /\ reset \in {"asking", "copying", "copied"}   \* refused, or the copy fails
  /\ reset' = "no"
  /\ UNCHANGED <<storage, world, dictating, copy, lost, answer>>

ResetConfirmed ==
  /\ reset = "asking" /\ reset' = "copying"
  /\ UNCHANGED <<storage, world, dictating, copy, lost, answer>>

\* The copy may be of any moment while it is awaited.
CopyTaken ==
  /\ reset = "copying"
  /\ copy' = history \union library /\ reset' = "copied"
  /\ UNCHANGED <<storage, world, dictating, lost, answer>>

\* resetSavedData(): the deletions commit together; the checkpoint may be busy.
Reset ==
  /\ reset = "copied" /\ reset' = "no"
  /\ history' = {} /\ library' = {} /\ unreadable' = 0
  /\ lost' = lost \union ((history \union library) \ copy)
  /\ \E ok \in BOOLEAN : answer' = [NoAnswer EXCEPT !.op = "reset", !.ok = ok]
  /\ Checkpoint({})
  /\ UNCHANGED <<nextId, world, dictating, copy>>

-----------------------------------------------------------------------------
(* The world                                                               *)

Tick == now < MaxTime /\ now' = now + 1 /\ UNCHANGED <<storage, key, reader, dictating, reset, copy, lost, answer>>
KeyChanges == key' \in Keys \ {key} /\ UNCHANGED <<storage, now, reader, dictating, reset, copy, lost, answer>>
ReaderComesOrGoes == reader' = ~reader /\ UNCHANGED <<storage, now, key, dictating, reset, copy, lost, answer>>

Next ==
  \/ \E limit \in Limits : List(limit)
  \/ Export
  \/ \E row \in history : DeleteTranscription(row)
  \/ DeleteGone \/ ClearTranscriptions
  \/ \E days \in Retentions : Purge(days)
  \/ BeginListening \/ DictationFails \/ SaveToLibrary
  \/ \E keep \in BOOLEAN, days \in Retentions : CompleteDictation(keep, days)
  \/ AskReset \/ ResetCancelled \/ ResetConfirmed \/ CopyTaken \/ Reset
  \/ Tick \/ KeyChanges \/ ReaderComesOrGoes

Spec == Init /\ [][Next]_vars

-----------------------------------------------------------------------------
(* Properties *)

Listed == {answer'.items[i] : i \in DOMAIN answer'.items}

\* "A renderer-facing list that cannot make unreadable rows look absent": a list
\* that says it is complete has every row there is, or as many of the newest as
\* were asked for.
ListTellsAll ==
     \A limit \in Limits : List(limit) /\ answer'.complete =>
       /\ \A row \in history : Readable(row)
       /\ answer'.items = SubSeq(Newest(history), 1, Smaller(limit, Cardinality(history)))

\* A complete export holds the whole history; an incomplete one says so and how
\* much is missing.
ExportTellsAll ==
     Export /\ answer'.ok =>
       /\ answer'.complete <=> Listed = history
       /\ answer'.skipped = Cardinality(history) - Len(answer'.items)

\* A deletion or a reset that removed something and reports success has left
\* nothing of what was removed on the disk, also not what an earlier deletion
\* could not clean up.
RemovedForGood ==
     /\ ~(history \union library \subseteq history' \union library')
      /\ dictating' = dictating /\ answer'.ok
      => disk' \subseteq history' \union library'

\* "LocalDatabase additionally requires a successful truncating WAL checkpoint
\* before reporting the deletion successful", a repeated deletion too.
DeletionIsPhysical == answer.op = "clear" /\ answer.ok => disk \subseteq history \union library

\* "LocalScribe will first save an encrypted recovery copy": a reset removes
\* nothing that its recovery copy has not.
ResetKeepsCopy == lost = {}
=============================================================================
