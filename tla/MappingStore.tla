----------------------------- MODULE MappingStore -----------------------------
(***************************************************************************)
(* The configuration files behind the imports: column mappings, one for    *)
(* each kind of source, and status rules, one for each field.  Sessions of *)
(* the mapping screen load a file, change one entry of what they loaded    *)
(* and write the whole file back; meanwhile the source workbook is         *)
(* replaced.  write_text truncates the file before it writes, and nothing  *)
(* locks it, so a loader, another writer or a stop may come in between.    *)
(* The screen itself is not in the repository: it is modelled from what    *)
(* the services offer it.                                                  *)
(***************************************************************************)
EXTENDS SheetMapping, StatusMapping

CONSTANTS
  Sessions,     (* users of the mapping screen *)
  RuleChoices,  (* the rules they may configure *)
  NoEntry,      (* the file has no entry for a key *)
  Unopenable,   (* the workbook is missing, locked or corrupt: an open_error *)
  MaxSaves      (* bounds how many changes are confirmed *)

ASSUME StoreAssumption ==
  /\ RuleChoices \subseteq StatusValueRule
  /\ NoEntry = NoRule /\ NoEntry \notin SourceMapping
  /\ Kinds \cap Fields = {} /\ NoEntry \notin Kinds \cup Fields
  /\ Unopenable \notin Sheets
  /\ MaxSaves \in Nat

Files == {"column_mappings", "status_mappings"}

(* The keys of the two files: SourceKind and CanonicalField. *)
Keys == Kinds \cup Fields

FileOf(k) == IF k \in Kinds THEN "column_mappings" ELSE "status_mappings"

Entries == [Keys -> SourceMapping \cup StatusValueRule \cup {NoEntry}]

NoEntries == [k \in Keys |-> NoEntry]

Content == [state : {"missing", "empty", "garbled", "whole"}, entries : Entries]

Missing == [state |-> "missing", entries |-> NoEntries]
Emptied == [state |-> "empty", entries |-> NoEntries]
Garbled == [state |-> "garbled", entries |-> NoEntries]
Whole(entries) == [state |-> "whole", entries |-> entries]

(* What a session holds; "missed" is history: the keys of its file that      *)
(* others saved since it loaded.                                             *)
Idle == [step |-> "idle"]
Holding == [step : {"edit", "open", "write"}, file : Files, entries : Entries,
            key : Keys \cup {NoEntry}, missed : SUBSET Keys]

VARIABLES
  file,         (* the content of each file *)
  book,         (* the source workbook: its header row, or that it does not open *)
  work,         (* per session: the change under way *)
  changes,      (* how many changes were confirmed *)
  saved,        (* history: the entry of each key whose save finished last *)
  overwritten,  (* history: keys saved before by others that a later save left out *)
  damaged       (* history: files a writer stopped in, or two wrote at once *)

vars == <<file, book, work, changes, saved, overwritten, damaged>>

------------------------------------------------------------------------------
Init ==
  /\ file = [f \in Files |-> Missing]
  /\ book \in Sheets
  /\ work = [s \in Sessions |-> Idle]
  /\ changes = 0
  /\ saved = NoEntries
  /\ overwritten = {}
  /\ damaged = {}

(* The workbook is exported anew, opened elsewhere, damaged or removed. *)
Replace(b) ==
  /\ b # book
  /\ book' = b
  /\ UNCHANGED <<file, work, changes, saved, overwritten, damaged>>

(* Mutants: a missing file gives no configuration, or is created at once. *)
Load_None(s, f) ==
  /\ work[s] = Idle
  /\ file[f].state \in {"missing", "whole"}
  /\ work' = [work EXCEPT ![s] = [step |-> "edit", file |-> f,
       entries |-> IF file[f].state = "missing" THEN NoEntry ELSE file[f].entries,
       key |-> NoEntry, missed |-> {}]]
  /\ UNCHANGED <<file, book, changes, saved, overwritten, damaged>>

Load_Creates(s, f) ==
  /\ work[s] = Idle
  /\ IF file[f].state = "missing"
     THEN file' = [file EXCEPT ![f] = Emptied] /\ UNCHANGED work
     ELSE /\ file[f].state = "whole"
          /\ work' = [work EXCEPT ![s] = [step |-> "edit", file |-> f,
                 entries |-> file[f].entries, key |-> NoEntry, missed |-> {}]]
          /\ UNCHANGED file
  /\ UNCHANGED <<book, changes, saved, overwritten, damaged>>

(* load_mapping_config, load_status_mapping_config: a missing file has no    *)
(* entries; one that is empty or garbled raises, and nothing is loaded.      *)
Load(s, f) ==
  /\ work[s] = Idle
  /\ file[f].state \in {"missing", "whole"}
  /\ work' = [work EXCEPT ![s] = [step |-> "edit", file |-> f,
       entries |-> file[f].entries, key |-> NoEntry, missed |-> {}]]
  /\ UNCHANGED <<file, book, changes, saved, overwritten, damaged>>

(* Mutant: the configuration is made anew with the one entry. *)
Upsert_Alone(entries, k, entry) == [NoEntries EXCEPT ![k] = entry]

(* upsert_source_mapping. *)
Upsert(entries, k, entry) == [entries EXCEPT ![k] = entry]

Change(s, k, entry) ==
  /\ work[s].step = "edit"
  /\ work[s].file = FileOf(k)
  /\ changes < MaxSaves
  /\ changes' = changes + 1
  /\ work' = [work EXCEPT ![s].step = "open", ![s].key = k,
                          ![s].entries = Upsert(@, k, entry)]
  /\ UNCHANGED <<file, book, saved, overwritten, damaged>>

(* The user has the workbook inspected and confirms a mapping of the columns *)
(* shown, for the kind of source suggested or for another one.  A workbook   *)
(* that does not open has nothing to confirm (open_error).                   *)
ConfirmMapping(s, k) ==
  /\ book \in Sheets
  /\ \E column \in Choices(book) : Change(s, k, Confirmed(book, column))

(* The user configures the rule of a status field. *)
ConfirmRule(s, f) == \E rule \in RuleChoices : Change(s, f, rule)

(* save_mapping_config, save_status_mapping_config: write_text opens the     *)
(* file, which empties it.                                                   *)
Truncate(s) ==
  /\ work[s].step = "open"
  /\ file' = [file EXCEPT ![work[s].file] = Emptied]
  /\ work' = [work EXCEPT ![s].step = "write"]
  /\ UNCHANGED <<book, changes, saved, overwritten, damaged>>

(* The text goes to the beginning of the file.  Where another writer has put *)
(* a longer one since the file was emptied, the end of that stays behind it. *)
Landed(s) ==
  LET text == Whole(work[s].entries)
  IN  IF file[work[s].file] \in {Emptied, text} THEN {text} ELSE {text, Garbled}

(* Bookkeeping of a save that landed: its key is saved now, and the keys the *)
(* session missed are gone; the other sessions have missed this one.         *)
Saved(s) ==
  LET w == work[s] IN
  /\ saved' = [saved EXCEPT ![w.key] = w.entries[w.key]]
  /\ overwritten' = (overwritten \cup w.missed) \ {w.key}
  /\ work' = [t \in Sessions |->
       IF t = s THEN Idle
       ELSE IF work[t] # Idle /\ work[t].file = w.file
       THEN [work[t] EXCEPT !.missed = @ \cup {w.key}]
       ELSE work[t]]

Write(s) ==
  /\ work[s].step = "write"
  /\ \E content \in Landed(s) :
       /\ file' = [file EXCEPT ![work[s].file] = content]
       /\ \/ content # Garbled /\ Saved(s) /\ UNCHANGED damaged
          \/ /\ content = Garbled
             /\ damaged' = damaged \cup {work[s].file}
             /\ work' = [work EXCEPT ![s] = Idle]
             /\ UNCHANGED <<saved, overwritten>>
  /\ UNCHANGED <<book, changes>>

(* The user leaves the screen, or the process stops; in the middle of        *)
(* write_text it leaves the file as it is, or with a part of the text.       *)
Stop(s) ==
  /\ work[s] # Idle
  /\ work' = [work EXCEPT ![s] = Idle]
  /\ IF work[s].step = "write"
     THEN /\ damaged' = damaged \cup {work[s].file}
          /\ file' \in {file, [file EXCEPT ![work[s].file] = Garbled]}
     ELSE UNCHANGED <<file, damaged>>
  /\ UNCHANGED <<book, changes, saved, overwritten>>

Next ==
  \/ \E b \in Sheets \cup {Unopenable} : Replace(b)
  \/ \E s \in Sessions :
       \/ \E f \in Files : Load(s, f)
       \/ \E k \in Kinds : ConfirmMapping(s, k)
       \/ \E f \in Fields : ConfirmRule(s, f)
       \/ Truncate(s)
       \/ Write(s)
       \/ Stop(s)

Spec == Init /\ [][Next]_vars

------------------------------------------------------------------------------
TypeOK ==
  /\ file \in [Files -> Content]
  /\ book \in Sheets \cup {Unopenable}
  /\ work \in [Sessions -> {Idle} \cup Holding]
  /\ changes \in 0 .. MaxSaves
  /\ saved \in Entries
  /\ overwritten \subseteq Keys
  /\ damaged \subseteq Files

Readable(f) == file[f].state \in {"missing", "whole"}

Writing(s, f) == work[s].step = "write" /\ work[s].file = f

(* A file that no load can read any more is one somebody is writing at the    *)
(* moment, one that a writer stopped in, or one that two have written at      *)
(* once: nothing else empties or garbles it.                                  *)
DamageExplained ==
  \A f \in Files : ~Readable(f) => f \in damaged \/ \E s \in Sessions : Writing(s, f)

(* An entry whose save finished is what the file has for its key, however     *)
(* many sessions loaded, changed other entries and saved meanwhile, until a   *)
(* save that was loaded before it leaves it out: only that loses an entry.    *)
SavedIsStored ==
  \A k \in Keys \ overwritten :
    Readable(FileOf(k)) => file[FileOf(k)].entries[k] = saved[k]

(* The mappings an import can load at the moment. *)
Mappings == {file["column_mappings"].entries[k] : k \in Kinds} \ {NoEntry}

(* No header of the mapping or the sheet has white space to normalize, and    *)
(* an empty one is in both or in neither.                                     *)
Plain(m, sheet) ==
  /\ \A h \in m.raw : Normal[h] = h
  /\ Blank \in m.raw <=> Blank \in Names(sheet)

(* Validating a saved mapping tells whether the workbook found now still has  *)
(* the columns it was confirmed on.  Without an issue it has just those; an   *)
(* unchanged set of columns gives none, if no header carries stray white      *)
(* space (services/mapping_config_service.py:161 takes such a header for a    *)
(* removed column and an added one); without an error, every mapped column is *)
(* a key of the rows that read_sheet_rows returns.                            *)
DriftSeen ==
  \A m \in Mappings : book # Unopenable =>
    /\ NoIssues(m, book) => Signature(book) = m.signature
    /\ Signature(book) = m.signature /\ Plain(m, book) => NoIssues(m, book)
    /\ Errors(m, book) = {} =>
         \A f \in Fields \ Unresolved(m, Fields) : m.column[f] \in RowKeys(book)

(* A new export that only adds columns, reorders them or changes their white  *)
(* space breaks no saved mapping, and a sheet that was recognized before is   *)
(* recognized still.                                                          *)
GrowthHarmless ==
  [][(book # Unopenable /\ book' # Unopenable /\ Names(book) \subseteq Names(book'))
     => /\ Suggested(book) # {} => Suggested(book') # {}
        /\ \A m \in Mappings : Errors(m, book') \subseteq Errors(m, book)]_book

(* What the user who saved a rule declared to be a failure: a text listed as   *)
(* failing, or a number below the threshold.                                  *)
Adverse(c, rule) ==
  IF rule.mode = "text_values" THEN c.text \in rule.fail
  ELSE c.float \in Int /\ rule.threshold \in Int /\ c.float < rule.threshold

(* The exception: float() takes the text "nan", no blank marker, for a number  *)
(* that reaches no threshold, where classify_status_value means a non-numeric *)
(* value to be DataUnavailable (services/status_mapping_service.py:79-82).     *)
TakenForNumber(c, rule) == rule.mode = "numeric_threshold" /\ c.float = NaN

(* No status is read as a failure that nobody configured: whatever happens to *)
(* the file of rules, a Fail read from it means that a rule was saved for the   *)
(* field, and that the cell is not blank and holds what the rule saved last    *)
(* declares to be a failure, unless an older load has since overwritten that   *)
(* rule; only a text that float() takes for NaN fails without being declared.  *)
NeverAdverse ==
  \A f \in Fields, c \in Cells :
    /\ Readable("status_mappings")
    /\ ClassifyStatusValue(c, file["status_mappings"].entries[f]) = "Fail"
    => /\ saved[f] # NoEntry /\ c.text \notin BlankMarkers
       /\ f \notin overwritten => Adverse(c, saved[f]) \/ TakenForNumber(c, saved[f])
=============================================================================
